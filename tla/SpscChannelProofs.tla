------------------------- MODULE SpscChannelProofs -------------------------
(***************************************************************************)
(* Proofs about SpscChannel for every capacity and number of messages.     *)
(***************************************************************************)
EXTENDS SpscChannel, SequenceTheorems, TLAPS

\* Every variable of the channel keeps its type.
THEOREM TypeCorrect == Spec => []TypeOK
<1>1. Init => TypeOK
  <2>1. <<>> \in Seq(1 .. Count)
    BY EmptySeq
  <2>2. 0 \in 0 .. Count
    BY ChannelAssumption DEF ChannelAssumption
  <2>3. QED
    BY <2>1, <2>2, Zenon DEF Init, TypeOK
<1>2. TypeOK /\ [Next]_vars => TypeOK'
  <2> SUFFICES ASSUME TypeOK, [Next]_vars
               PROVE  TypeOK'
    OBVIOUS
  <2>1. CASE Sender
    <3>1. sent < Count => sent + 1 \in 1 .. Count
      BY ChannelAssumption DEF ChannelAssumption, TypeOK
    <3>2. sent < Count => Append(q, sent + 1) \in Seq(1 .. Count)
      BY <3>1, AppendProperties DEF TypeOK
    <3>3. sent < Count => sent + 1 \in 0 .. Count
      BY ChannelAssumption DEF ChannelAssumption, TypeOK
    <3>4. CASE SendWaits
      BY <3>4 DEF TypeOK, SendWaits
    <3>5. CASE Send
      BY <3>5, <3>2, <3>3 DEF TypeOK, Send
    <3>6. QED
      BY <2>1, <3>4, <3>5 DEF Sender
  <2>2. CASE RecvWaits
    BY <2>2 DEF TypeOK, RecvWaits
  <2>3. CASE Recv
    <3>1. CASE down
      BY <2>3, <3>1 DEF TypeOK, Recv
    <3>2. CASE ~down
      <4>1. q # <<>>
        BY <2>3, <3>2 DEF Recv, RecvReady
      <4>2. Head(q) \in 1 .. Count /\ Tail(q) \in Seq(1 .. Count)
        BY <4>1, HeadTailProperties DEF TypeOK
      <4>3. Append(got, Head(q)) \in Seq(1 .. Count)
        BY <4>2, AppendProperties DEF TypeOK
      <4>4. QED
        BY <2>3, <3>2, <4>2, <4>3, Zenon DEF TypeOK, Recv
    <3>3. QED
      BY <3>1, <3>2
  <2>4. CASE SpuriousWakeup
    BY <2>4 DEF TypeOK, SpuriousWakeup
  <2>5. CASE ShutDownStep
    BY <2>5 DEF TypeOK, ShutDownStep, ShutDown, NotifySend, NotifyRecv
  <2>6. CASE Finished \/ UNCHANGED vars
    BY <2>6 DEF TypeOK, Finished, vars
  <2>7. QED
    BY <2>1, <2>2, <2>3, <2>4, <2>5, <2>6 DEF Next, Receiver
<1>3. QED
  BY <1>1, <1>2, PTL DEF Spec

\* No wakeup is lost: a thread waits only while its predicate is false or the
\* notification of shutdown() is still to come.  The proof needs that shutdown()
\* is past its first step exactly when down_ is set.
DownIsShutDown == down <=> shut # "idle"
WakeupInv == NoLostWakeup /\ DownIsShutDown

THEOREM NeverLostWakeup == Spec => []NoLostWakeup
<1>1. Init => WakeupInv
  BY DEF Init, WakeupInv, NoLostWakeup, DownIsShutDown
<1>2. TypeOK /\ WakeupInv /\ [Next]_vars => WakeupInv'
  <2> SUFFICES ASSUME TypeOK, WakeupInv, [Next]_vars
               PROVE  WakeupInv'
    OBVIOUS
  <2> USE DEF WakeupInv, NoLostWakeup, DownIsShutDown, SendReady, RecvReady
  <2>1. CASE SendWaits \/ RecvWaits
    BY <2>1 DEF SendWaits, RecvWaits
  <2>2. CASE Send
    BY <2>2 DEF TypeOK, Send
  <2>3. CASE Recv
    <3>1. CASE down
      BY <2>3, <3>1 DEF Recv
    <3>2. CASE ~down
      BY <2>3, <3>2 DEF TypeOK, Recv
    <3>3. QED
      BY <3>1, <3>2
  <2>4. CASE SpuriousWakeup
    BY <2>4 DEF TypeOK, SpuriousWakeup
  <2>5. CASE ShutDownStep
    BY <2>5 DEF TypeOK, ShutDownStep, ShutDown, NotifySend, NotifyRecv
  <2>6. CASE Finished \/ UNCHANGED vars
    BY <2>6 DEF Finished, vars
  <2>7. QED
    BY <2>1, <2>2, <2>3, <2>4, <2>5, <2>6 DEF Next, Sender, Receiver
<1>3. QED
  BY <1>1, <1>2, TypeCorrect, PTL DEF Spec, WakeupInv

\* Whatever the threads' waits, wakeups and the shutdown do, the channel takes
\* only the steps of the abstract bounded queue.
THEOREM RefinesFifo == Spec => Fifo!Spec
<1>1. Init => Fifo!Init
  BY DEF Init, Fifo!Init
<1>2. DownIsShutDown /\ [Next]_vars => [Fifo!Next]_(Fifo!fifoVars)
  <2> SUFFICES ASSUME DownIsShutDown, [Next]_vars
               PROVE  Fifo!Next \/ UNCHANGED Fifo!fifoVars
    OBVIOUS
  <2>1. CASE Send
    BY <2>1 DEF Send, SendReady, Fifo!Next, Fifo!Put, Fifo!Drop
  <2>2. CASE Recv
    BY <2>2 DEF Recv, RecvReady, Receiving, Fifo!Receiving, Fifo!Next, Fifo!Take,
                Fifo!Refuse
  <2>3. CASE ShutDown
    BY <2>3 DEF ShutDown, DownIsShutDown, Fifo!Next, Fifo!Close
  <2>4. CASE SendWaits \/ RecvWaits \/ SpuriousWakeup \/ NotifySend
              \/ NotifyRecv \/ Finished \/ UNCHANGED vars
    BY <2>4 DEF SendWaits, RecvWaits, SpuriousWakeup, NotifySend, NotifyRecv,
                Finished, vars, Fifo!fifoVars
  <2>5. QED
    BY <2>1, <2>2, <2>3, <2>4 DEF Next, Sender, Receiver, ShutDownStep
<1>3. Spec => []DownIsShutDown
  <2>1. Init => DownIsShutDown
    BY DEF Init, DownIsShutDown
  <2>2. DownIsShutDown /\ [Next]_vars => DownIsShutDown'
    <3> SUFFICES ASSUME DownIsShutDown, [Next]_vars
                 PROVE  DownIsShutDown'
      OBVIOUS
    <3>1. CASE Sender \/ Receiver \/ SpuriousWakeup \/ Finished \/ UNCHANGED vars
      <4>1. UNCHANGED <<down, shut>>
        BY <3>1, Zenon DEF Sender, SendWaits, Send, Receiver, RecvWaits, Recv,
                    SpuriousWakeup, Finished, vars
      <4>2. QED
        BY <4>1 DEF DownIsShutDown
    <3>2. CASE ShutDownStep
      BY <3>2 DEF DownIsShutDown, ShutDownStep, ShutDown, NotifySend, NotifyRecv
    <3>3. QED
      BY <3>1, <3>2 DEF Next
  <2>3. QED
    BY <2>1, <2>2, PTL DEF Spec
<1>4. QED
  BY <1>1, <1>2, <1>3, PTL DEF Spec, Fifo!Spec

-----------------------------------------------------------------------------
\* Delivery order, position by position: what was received are the first
\* messages, what is queued are the next ones, and while the channel is up
\* these are all that were sent.
OrderInv ==
  /\ \A i \in 1 .. Len(got) : got[i] = i
  /\ \A i \in 1 .. Len(q) : q[i] = Len(got) + i
  /\ ~down => Len(got) + Len(q) = sent

LEMMA OrderInvImplies == TypeOK /\ OrderInv => InOrderDelivery
<1> SUFFICES ASSUME TypeOK, OrderInv
             PROVE  InOrderDelivery
  OBVIOUS
<1>1. Len(got) \in Nat /\ Len(q) \in Nat
  BY LenProperties DEF TypeOK
<1>2. ASSUME NEW i \in 1 .. Len(got) + Len(q)
      PROVE  (IF i <= Len(got) THEN got[i] ELSE q[i - Len(got)]) = i
  <2>1. CASE i <= Len(got)
    BY <1>1, <2>1 DEF OrderInv
  <2>2. CASE i > Len(got)
    <3>1. i - Len(got) \in 1 .. Len(q)
      BY <1>1, <2>2
    <3>2. q[i - Len(got)] = i
      BY <1>1, <3>1 DEF OrderInv
    <3>3. QED
      BY <1>1, <2>2, <3>2
  <2>3. QED
    BY <1>1, <2>1, <2>2
<1>3. QED
  BY <1>2 DEF InOrderDelivery, Fifo!InOrder, Fifo!Delivered, OrderInv

\* Messages arrive once and in order, and none is lost before a shutdown.
THEOREM DeliversInOrder == Spec => []InOrderDelivery
<1>1. Init => OrderInv
  BY DEF Init, OrderInv
<1>2. TypeOK /\ OrderInv /\ [Next]_vars => OrderInv'
  <2> SUFFICES ASSUME TypeOK, OrderInv, [Next]_vars
               PROVE  OrderInv'
    OBVIOUS
  <2>1. Len(got) \in Nat /\ Len(q) \in Nat /\ sent \in Nat
    BY LenProperties DEF TypeOK
  <2>2. CASE Send /\ ~down
    <3>1. q' = Append(q, sent + 1) /\ sent' = sent + 1 /\ got' = got /\ ~down'
      BY <2>2 DEF Send
    <3>2. Len(q') = Len(q) + 1 /\ q'[Len(q) + 1] = sent + 1
          /\ \A i \in 1 .. Len(q) : q'[i] = q[i]
      <4>1. sent + 1 \in 1 .. Count
        BY <2>2, ChannelAssumption DEF ChannelAssumption, Send, TypeOK
      <4>2. QED
        BY <3>1, <4>1, AppendProperties DEF TypeOK
    <3>3. \A i \in 1 .. Len(got') : got'[i] = i
      BY <3>1 DEF OrderInv
    <3>4. Len(got) + Len(q) = sent
      BY <2>2, Zenon DEF OrderInv
    <3>5. \A i \in 1 .. Len(q') : q'[i] = Len(got') + i
      <4> SUFFICES ASSUME NEW i \in 1 .. Len(q')
                   PROVE  q'[i] = Len(got') + i
        OBVIOUS
      <4>1. CASE i = Len(q) + 1
        BY <2>1, <3>1, <3>2, <3>4, <4>1
      <4>2. CASE i \in 1 .. Len(q)
        <5>1. q[i] = Len(got) + i
          BY <4>2 DEF OrderInv
        <5>2. QED
          BY <3>1, <3>2, <4>2, <5>1
      <4>3. QED
        BY <2>1, <3>2, <4>1, <4>2
    <3>6. Len(got') + Len(q') = sent'
      BY <2>1, <3>1, <3>2, <3>4
    <3>7. QED
      BY <3>3, <3>5, <3>6 DEF OrderInv
  <2>3. CASE Recv /\ ~down
    <3>1. q # <<>> /\ got' = Append(got, Head(q)) /\ q' = Tail(q) /\ sent' = sent
          /\ ~down'
      BY <2>3 DEF Recv, RecvReady
    <3>2. /\ Head(q) \in 1 .. Count /\ Len(q') = Len(q) - 1
          /\ \A i \in 1 .. Len(q') : q'[i] = q[i + 1]
      BY <3>1, HeadTailProperties DEF TypeOK
    <3>3. /\ Len(got') = Len(got) + 1 /\ got'[Len(got) + 1] = Head(q)
          /\ \A i \in 1 .. Len(got) : got'[i] = got[i]
      BY <3>1, <3>2, AppendProperties DEF TypeOK
    <3>4. Len(q) >= 1 /\ Head(q) = q[1]
      BY <3>1, EmptySeq DEF TypeOK
    <3>5. Head(q) = Len(got) + 1
      BY <2>1, <3>4 DEF OrderInv
    <3>6. \A i \in 1 .. Len(got') : got'[i] = i
      BY <2>1, <3>3, <3>5 DEF OrderInv
    <3>7. \A i \in 1 .. Len(q') : q'[i] = Len(got') + i
      <4> SUFFICES ASSUME NEW i \in 1 .. Len(q')
                   PROVE  q'[i] = Len(got') + i
        OBVIOUS
      <4>1. i + 1 \in 1 .. Len(q)
        BY <2>1, <3>2
      <4>2. q[i + 1] = Len(got) + (i + 1)
        BY <4>1 DEF OrderInv
      <4>3. QED
        BY <2>1, <3>2, <3>3, <4>2
    <3>8. Len(got') + Len(q') = sent'
      <4>1. Len(got) + Len(q) = sent
        BY <2>3, Zenon DEF OrderInv
      <4>2. QED
        BY <2>1, <3>1, <3>2, <3>3, <4>1
    <3>9. QED
      BY <3>6, <3>7, <3>8 DEF OrderInv
  <2>4. CASE ~(Send /\ ~down) /\ ~(Recv /\ ~down)
    <3>1. UNCHANGED <<q, got>> /\ (~down' => ~down /\ sent' = sent)
      BY <2>4 DEF Next, Sender, SendWaits, Send, Receiver, RecvWaits, Recv,
                  SpuriousWakeup, ShutDownStep, ShutDown, NotifySend, NotifyRecv,
                  Finished, vars
    <3>2. QED
      BY <3>1 DEF OrderInv
  <2>5. QED
    BY <2>2, <2>3, <2>4
<1>3. QED
  BY <1>1, <1>2, TypeCorrect, OrderInvImplies, PTL DEF Spec

=============================================================================
