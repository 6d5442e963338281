----------------------------- MODULE GpuShapes -----------------------------
(***************************************************************************)
(* GpuConveyor in three shapes, checked in one run: on one rank, two nodes *)
(* whose slot pools are smaller than the ring's zones, and one node that   *)
(* feeds itself from a single pool; and three ranks of one node each, where*)
(* poison needs every hop.  The shape is chosen in the initial state and   *)
(* never changes.                                                          *)
(***************************************************************************)
EXTENDS Integers

CONSTANT Kinds   \* the faults that may happen

VARIABLES shape, pc, pass, loc, chan, credits, closed, bfree, reserve, dev,
          haltKind, haltPass, link, poisoned, poisonSent, nextBuf, stats,
          final, result, level

allVars == <<shape, pc, pass, loc, chan, credits, closed, bfree, reserve, dev,
             haltKind, haltPass, link, poisoned, poisonSent, nextBuf, stats,
             final, result, level>>

Pools == INSTANCE GpuConveyor
           WITH N <- 16, Pbc <- TRUE, Z <- 2, Heads <- {0}, PoolSlots <- 4,
                Steps <- 4, Faults <- Kinds
Self == INSTANCE GpuConveyor
          WITH N <- 4, Pbc <- TRUE, Z <- 1, Heads <- {0}, PoolSlots <- 4,
               Steps <- 4, Faults <- Kinds
Cut == INSTANCE GpuConveyor
         WITH N <- 3, Pbc <- TRUE, Z <- 3, Heads <- {0, 1, 2}, PoolSlots <- 5,
              Steps <- 3, Faults <- Kinds

Init ==
  \/ shape = "pools" /\ Pools!Init
  \/ shape = "self" /\ Self!Init
  \/ shape = "cut" /\ Cut!Init

PoolsStep == shape = "pools" /\ Pools!Next /\ UNCHANGED shape
SelfStep == shape = "self" /\ Self!Next /\ UNCHANGED shape
CutStep == shape = "cut" /\ Cut!Next /\ UNCHANGED shape

Next == PoolsStep \/ SelfStep \/ CutStep

\* The fairness of GpuConveyor!FairSpec, for the shape at hand.
PoolsFairness ==
  /\ WF_allVars(shape = "pools" /\ Pools!Join(0) /\ UNCHANGED shape)
  /\ \A k \in Pools!Nodes :
       WF_allVars(shape = "pools" /\ Pools!NodeStep(k) /\ UNCHANGED shape)
SelfFairness ==
  /\ WF_allVars(shape = "self" /\ Self!Join(0) /\ UNCHANGED shape)
  /\ WF_allVars(shape = "self" /\ Self!NodeStep(0) /\ UNCHANGED shape)
CutFairness ==
  \A k \in Cut!Nodes :
    /\ WF_allVars(shape = "cut" /\ Cut!Join(k) /\ UNCHANGED shape)
    /\ WF_allVars(shape = "cut" /\ Cut!NodeStep(k) /\ UNCHANGED shape)

FairSpec == /\ Init /\ [][Next]_allVars
            /\ PoolsFairness /\ SelfFairness /\ CutFairness

-----------------------------------------------------------------------------
(* The properties of GpuConveyor, on the shape at hand.                      *)

TypeOK ==
  /\ shape = "pools" => Pools!TypeOK
  /\ shape = "self" => Self!TypeOK
  /\ shape = "cut" => Cut!TypeOK

\* No protocol exception is thrown: zones arrive in order, and neither the
\* upload reserve nor the pool of a self-loop is ever found empty.
NoLogicError ==
  /\ shape = "pools" => Pools!NoLogicError
  /\ shape = "self" => Self!NoLogicError
  /\ shape = "cut" => Cut!NoLogicError

\* No two operations that meet at a device slot or a pinned buffer are left
\* unordered, across every reuse of a slot.
NoRace ==
  /\ shape = "pools" => Pools!NoRace
  /\ shape = "self" => Self!NoRace
  /\ shape = "cut" => Cut!NoRace

\* The pass in which the ring halts is not recorded and not counted.
HaltedPassUnrecorded ==
  /\ shape = "pools" => Pools!HaltedPassUnrecorded
  /\ shape = "self" => Self!HaltedPassUnrecorded
  /\ shape = "cut" => Cut!HaltedPassUnrecorded

\* run() returns on every rank: no node waits for ever for a header, a credit or
\* a message, also when a pass fails or a thread cannot be created, at whatever
\* distance from the rank where it happened.
Termination ==
  <>(\/ shape = "pools" /\ Pools!Returned(0)
     \/ shape = "self" /\ Self!Returned(0)
     \/ shape = "cut" /\ \A r \in Cut!Nodes : Cut!Returned(r))

=============================================================================
