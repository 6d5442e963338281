---------------------------- MODULE BoundedFifo ----------------------------
(***************************************************************************)
(* What a channel of the ring promises, and what the conveyor's model      *)
(* assumes of it: messages arrive once, in order, at most Cap are under    *)
(* way, and after a shutdown nothing is delivered and nobody waits.        *)
(***************************************************************************)
EXTENDS Integers, Sequences

CONSTANTS Cap,     \* capacity of the channel
          Count    \* the sender sends the messages 1 .. Count, in this order

VARIABLES
  q,        \* the messages under way
  down,     \* was the channel shut down?
  sent,     \* number of calls of send that have returned
  got,      \* the messages received, in order
  refused   \* has a call of recv returned false?

fifoVars == <<q, down, sent, got, refused>>

TypeOK ==
  /\ q \in Seq(1 .. Count)
  /\ down \in BOOLEAN
  /\ sent \in 0 .. Count
  /\ got \in Seq(1 .. Count)
  /\ refused \in BOOLEAN

Init ==
  /\ q = <<>> /\ got = <<>> /\ sent = 0
  /\ down = FALSE /\ refused = FALSE

\* The receiver makes Count calls, or stops at the first refusal.
Receiving == ~refused /\ Len(got) < Count

Put ==
  /\ sent < Count
  /\ ~down /\ Len(q) < Cap
  /\ q' = Append(q, sent + 1)
  /\ sent' = sent + 1
  /\ UNCHANGED <<down, got, refused>>

\* After the shutdown send returns without queueing.
Drop ==
  /\ sent < Count /\ down
  /\ sent' = sent + 1
  /\ UNCHANGED <<q, down, got, refused>>

Take ==
  /\ Receiving
  /\ ~down /\ q # <<>>
  /\ got' = Append(got, Head(q))
  /\ q' = Tail(q)
  /\ UNCHANGED <<down, sent, refused>>

Refuse ==
  /\ Receiving /\ down
  /\ refused' = TRUE
  /\ UNCHANGED <<q, down, sent, got>>

Close ==
  /\ ~down
  /\ down' = TRUE
  /\ UNCHANGED <<q, sent, got, refused>>

Next == Put \/ Drop \/ Take \/ Refuse \/ Close

Spec == Init /\ [][Next]_fifoVars

\* Both ends make progress whenever the channel lets them.
FairSpec == Spec /\ WF_fifoVars(Put \/ Drop) /\ WF_fifoVars(Take \/ Refuse)

\* Nothing is lost, duplicated or reordered while the channel is up.
Delivered == [i \in 1 .. Len(got) + Len(q) |->
                IF i <= Len(got) THEN got[i] ELSE q[i - Len(got)]]
InOrder ==
  /\ \A i \in DOMAIN Delivered : Delivered[i] = i
  /\ ~down => Len(got) + Len(q) = sent

=============================================================================
