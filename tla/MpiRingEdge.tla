---------------------------- MODULE MpiRingEdge ----------------------------
(***************************************************************************)
(* The boundary between two ranks of a partitioned ring                    *)
(* (include/tdmd/mpi/mpi_ring_edge.hpp): sends through a pool of buffers,  *)
(* blocking receives, and a halt that travels as a poison message with a   *)
(* hop count.  MPI keeps the messages of a link in order; a buffer is in   *)
(* use until its message is received, the rendezvous case.  Poison is      *)
(* small and sent eagerly.                                                 *)
(*                                                                         *)
(* The branch of send that cancels a pending request when the edge is      *)
(* poisoned meanwhile is left out: with a pool as large as documented no   *)
(* send ever finds its buffer in use (GpuConveyor!SendNeverWaits).  So is  *)
(* recv's early return: the one thread that receives leaves on poison.     *)
(***************************************************************************)
EXTENDS Integers, Sequences, FiniteSetsExt

CONSTANTS Heads,     \* the ranks, each named by the first node it hosts
          PoolSlots  \* pool_slots

ASSUME RanksAssumption ==
  /\ Heads \subseteq Nat /\ 0 \in Heads
  /\ PoolSlots \in Nat

VARIABLES
  link,        \* messages under way to each rank
  poisoned,    \* poisoned_
  poisonSent,  \* poison_sent_
  nextBuf      \* next_buf_

linkVars == <<link, poisoned, poisonSent, nextBuf>>

Ranks == Cardinality(Heads)
NextRank(r) == LET above == {s \in Heads : s > r}
               IN  IF above = {} THEN 0 ELSE Min(above)

PoolSize == IF PoolSlots < 4 THEN 4 ELSE PoolSlots

InitLinks ==
  /\ link = [r \in Heads |-> <<>>]
  /\ poisoned = [r \in Heads |-> FALSE]
  /\ poisonSent = [r \in Heads |-> FALSE]
  /\ nextBuf = [r \in Heads |-> 0]

IsPoison(m) == m.pos < 0
PoisonWith(blank, ttl) == [blank EXCEPT !.pos = -1, !.step = ttl]

\* The buffer the next send of r uses still belongs to a message not received.
Pending(r) ==
  \E q \in 1 .. Len(link[NextRank(r)]) :
    LET m == link[NextRank(r)][q] IN ~IsPoison(m) /\ m.buf = nextBuf[r]

\* Mutant: the index of the next buffer stops at the last one.
EdgeSendNoWrap(r, m) ==
  IF poisoned[r] THEN UNCHANGED linkVars
  ELSE /\ ~Pending(r)
       /\ link' = [link EXCEPT ![NextRank(r)] =
                     Append(@, [m EXCEPT !.buf = nextBuf[r]])]
       /\ nextBuf' = [nextBuf EXCEPT ![r] = IF @ + 1 < PoolSize THEN @ + 1 ELSE @]
       /\ UNCHANGED <<poisoned, poisonSent>>

\* A poisoned edge swallows what is sent; a pending buffer makes the sender wait.
EdgeSend(r, m) ==
  IF poisoned[r] THEN UNCHANGED linkVars
  ELSE /\ ~Pending(r)
       /\ link' = [link EXCEPT ![NextRank(r)] =
                     Append(@, [m EXCEPT !.buf = nextBuf[r]])]
       /\ nextBuf' = [nextBuf EXCEPT ![r] = (@ + 1) % PoolSize]
       /\ UNCHANGED <<poisoned, poisonSent>>

HasZone(r) == link[r] # <<>> /\ ~IsPoison(Head(link[r]))
HasPoison(r) == link[r] # <<>> /\ IsPoison(Head(link[r]))

EdgeRecv(r) ==
  /\ HasZone(r)
  /\ link' = [link EXCEPT ![r] = Tail(@)]
  /\ UNCHANGED <<poisoned, poisonSent, nextBuf>>

\* Mutant: poison goes no further than the next rank.
EdgeKeepPoison(r) ==
  /\ HasPoison(r)
  /\ poisoned' = [poisoned EXCEPT ![r] = TRUE]
  /\ link' = [link EXCEPT ![r] = Tail(@)]
  /\ UNCHANGED <<poisonSent, nextBuf>>

\* Poison is forwarded while hops are left.
EdgeRecvPoison(r) ==
  LET m == Head(link[r])
      rest == [link EXCEPT ![r] = Tail(@)]
  IN  /\ HasPoison(r)
      /\ poisoned' = [poisoned EXCEPT ![r] = TRUE]
      /\ link' = IF m.step > 0
                   THEN [rest EXCEPT ![NextRank(r)] =
                           Append(@, PoisonWith(m, m.step - 1))]
                   ELSE rest
      /\ UNCHANGED <<poisonSent, nextBuf>>

\* poison(): once, and not by a rank that only passes poison on.
EdgePoison(r, blank) ==
  IF poisoned[r] \/ poisonSent[r] THEN UNCHANGED linkVars
  ELSE /\ poisonSent' = [poisonSent EXCEPT ![r] = TRUE]
       /\ link' = [link EXCEPT ![NextRank(r)] =
                     Append(@, PoisonWith(blank, Ranks - 1))]
       /\ UNCHANGED <<poisoned, nextBuf>>

=============================================================================
