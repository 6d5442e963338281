--------------------------- MODULE ConveyorShapes ---------------------------
(***************************************************************************)
(* TimeConveyor on rings of different shapes, checked in one run: a free   *)
(* axis on several nodes, one node that feeds itself through its own edge, *)
(* and a single zone on more nodes than passes.  The shape is chosen in    *)
(* the initial state and never changes.                                    *)
(***************************************************************************)
EXTENDS Integers

CONSTANT Kinds   \* the faults that may happen

VARIABLES shape, pc, pass, loc, chan, closed, haltKind, haltPass, stats,
          final, main, born, result, level

allVars == <<shape, pc, pass, loc, chan, closed, haltKind, haltPass, stats,
             final, main, born, result, level>>

Free == INSTANCE TimeConveyor
          WITH N <- 3, Pbc <- FALSE, Z <- 3, Steps <- 5, Faults <- Kinds
Self == INSTANCE TimeConveyor
          WITH N <- 4, Pbc <- TRUE, Z <- 1, Steps <- 4, Faults <- Kinds
One == INSTANCE TimeConveyor
          WITH N <- 1, Pbc <- TRUE, Z <- 4, Steps <- 3, Faults <- Kinds

Init ==
  \/ shape = "free" /\ Free!Init
  \/ shape = "self" /\ Self!Init
  \/ shape = "one" /\ One!Init

FreeStep == shape = "free" /\ Free!Next /\ UNCHANGED shape
SelfStep == shape = "self" /\ Self!Next /\ UNCHANGED shape
OneStep == shape = "one" /\ One!Next /\ UNCHANGED shape

Next == FreeStep \/ SelfStep \/ OneStep

\* The fairness of TimeConveyor!FairSpec, for the shape at hand.
FreeFairness ==
  /\ WF_allVars(shape = "free" /\ Free!MainStep /\ UNCHANGED shape)
  /\ \A k \in Free!Nodes :
       WF_allVars(shape = "free" /\ Free!NodeStep(k) /\ UNCHANGED shape)
SelfFairness ==
  /\ WF_allVars(shape = "self" /\ Self!MainStep /\ UNCHANGED shape)
  /\ \A k \in Self!Nodes :
       WF_allVars(shape = "self" /\ Self!NodeStep(k) /\ UNCHANGED shape)
OneFairness ==
  /\ WF_allVars(shape = "one" /\ One!MainStep /\ UNCHANGED shape)
  /\ \A k \in One!Nodes :
       WF_allVars(shape = "one" /\ One!NodeStep(k) /\ UNCHANGED shape)

FairSpec ==
  Init /\ [][Next]_allVars /\ FreeFairness /\ SelfFairness /\ OneFairness

-----------------------------------------------------------------------------
\* run() returns on every shape, whatever fails.
Termination == <>(main = "returned")

=============================================================================
