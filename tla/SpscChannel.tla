---------------------------- MODULE SpscChannel ----------------------------
(***************************************************************************)
(* SpscChannelT (include/tdmd/core/transport.hpp): a deque under a mutex   *)
(* with one condition variable per side.  A critical section is one step,  *)
(* because q_ and down_ are touched under the mutex only; what interleaves *)
(* is where the mutex is given up: the waits, and the two notifications of *)
(* shutdown(), which come after it released the mutex.                     *)
(***************************************************************************)
EXTENDS Integers, Sequences

CONSTANTS Cap,     \* cap_
          Count    \* number of messages the sender sends

ASSUME ChannelAssumption == Cap \in Nat \ {0} /\ Count \in Nat

VARIABLES
  q,        \* q_
  down,     \* down_
  sent,     \* number of calls of send() that have returned
  got,      \* the messages recv() has returned, in order
  refused,  \* has recv() returned false?
  waitSend, \* is the sender blocked in cv_send_.wait?
  waitRecv, \* is the receiver blocked in cv_recv_.wait?
  shut      \* control point of shutdown()

vars == <<q, down, sent, got, refused, waitSend, waitRecv, shut>>

TypeOK ==
  /\ q \in Seq(1 .. Count)
  /\ down \in BOOLEAN
  /\ sent \in 0 .. Count
  /\ got \in Seq(1 .. Count)
  /\ refused \in BOOLEAN
  /\ waitSend \in BOOLEAN /\ waitRecv \in BOOLEAN
  /\ shut \in {"idle", "notifySend", "notifyRecv", "returned"}

Init ==
  /\ q = <<>> /\ down = FALSE
  /\ sent = 0 /\ got = <<>> /\ refused = FALSE
  /\ waitSend = FALSE /\ waitRecv = FALSE
  /\ shut = "idle"

-----------------------------------------------------------------------------
(* send(): the predicate of the wait, and the critical section after it.     *)

SendReady == Len(q) < Cap \/ down

SendWaits ==
  /\ sent < Count /\ ~waitSend
  /\ ~SendReady
  /\ waitSend' = TRUE
  /\ UNCHANGED <<q, down, sent, got, refused, waitRecv, shut>>

\* Mutant: push_back without notify_one.
SendQuietly ==
  /\ sent < Count /\ ~waitSend
  /\ SendReady
  /\ q' = IF down THEN q ELSE Append(q, sent + 1)
  /\ sent' = sent + 1
  /\ UNCHANGED <<down, got, refused, waitSend, waitRecv, shut>>

Send ==
  /\ sent < Count /\ ~waitSend
  /\ SendReady
  /\ q' = IF down THEN q ELSE Append(q, sent + 1)
  /\ waitRecv' = IF down THEN waitRecv ELSE FALSE     \* notify_one
  /\ sent' = sent + 1
  /\ UNCHANGED <<down, got, refused, waitSend, shut>>

-----------------------------------------------------------------------------
(* recv().                                                                   *)

RecvReady == q # <<>> \/ down

Receiving == ~refused /\ Len(got) < Count

RecvWaits ==
  /\ Receiving /\ ~waitRecv
  /\ ~RecvReady
  /\ waitRecv' = TRUE
  /\ UNCHANGED <<q, down, sent, got, refused, waitSend, shut>>

\* Mutant: front() without pop_front().
RecvKeepsFront ==
  /\ Receiving /\ ~waitRecv
  /\ RecvReady
  /\ IF down
       THEN refused' = TRUE /\ UNCHANGED <<q, got, waitSend>>
       ELSE /\ got' = Append(got, Head(q))
            /\ waitSend' = FALSE
            /\ UNCHANGED <<q, refused>>
  /\ UNCHANGED <<down, sent, waitRecv, shut>>

Recv ==
  /\ Receiving /\ ~waitRecv
  /\ RecvReady
  /\ IF down
       THEN refused' = TRUE /\ UNCHANGED <<q, got, waitSend>>
       ELSE /\ got' = Append(got, Head(q))
            /\ q' = Tail(q)
            /\ waitSend' = FALSE                      \* notify_one
            /\ UNCHANGED refused
  /\ UNCHANGED <<down, sent, waitRecv, shut>>

\* A condition variable may wake a waiter for no reason.
SpuriousWakeup ==
  /\ \/ waitSend /\ waitSend' = FALSE /\ UNCHANGED waitRecv
     \/ waitRecv /\ waitRecv' = FALSE /\ UNCHANGED waitSend
  /\ UNCHANGED <<q, down, sent, got, refused, shut>>

-----------------------------------------------------------------------------
(* shutdown(), called by a third thread at any time, or never.               *)

ShutDown ==
  /\ shut = "idle"
  /\ down' = TRUE
  /\ shut' = "notifySend"
  /\ UNCHANGED <<q, sent, got, refused, waitSend, waitRecv>>

NotifySend ==
  /\ shut = "notifySend"
  /\ waitSend' = FALSE
  /\ shut' = "notifyRecv"
  /\ UNCHANGED <<q, down, sent, got, refused, waitRecv>>

\* Mutant: shutdown() wakes the sender only.
ForgetRecv ==
  /\ shut = "notifyRecv"
  /\ shut' = "returned"
  /\ UNCHANGED <<q, down, sent, got, refused, waitSend, waitRecv>>

NotifyRecv ==
  /\ shut = "notifyRecv"
  /\ waitRecv' = FALSE
  /\ shut' = "returned"
  /\ UNCHANGED <<q, down, sent, got, refused, waitSend>>

-----------------------------------------------------------------------------
Sender == SendWaits \/ Send
Receiver == RecvWaits \/ Recv
ShutDownStep == ShutDown \/ NotifySend \/ NotifyRecv

\* Both threads have made their last call.
Finished ==
  /\ sent = Count /\ ~Receiving
  /\ shut \in {"idle", "returned"}
  /\ UNCHANGED vars

Next == Sender \/ Receiver \/ SpuriousWakeup \/ ShutDownStep \/ Finished

Spec == Init /\ [][Next]_vars

\* The threads are scheduled and a shutdown once begun goes on; wakeups for no
\* reason are not promised, and nothing makes anyone call shutdown().
FairSpec ==
  /\ Spec
  /\ WF_vars(Sender) /\ WF_vars(Receiver)
  /\ WF_vars(NotifySend \/ NotifyRecv)

-----------------------------------------------------------------------------
\* The channel is the bounded queue of BoundedFifo, whose sender and receiver
\* make progress whenever the queue lets them: no wakeup is lost, neither of
\* the hand-over's nor of the shutdown's.
Fifo == INSTANCE BoundedFifo
          WITH Cap <- Cap, Count <- Count, q <- q, down <- down,
               sent <- sent, got <- got, refused <- refused
ImplementsFifo == Fifo!FairSpec

\* A waiting thread is waiting for something that has not happened, or its
\* notification is on the way: the predicate it waits for is false, or
\* shutdown() has still to notify it.
NoLostWakeup ==
  /\ waitSend => ~SendReady \/ shut = "notifySend"
  /\ waitRecv => ~RecvReady \/ shut \in {"notifySend", "notifyRecv"}

\* Messages are delivered once and in order, and none is lost before a
\* shutdown.
InOrderDelivery == Fifo!InOrder

=============================================================================
