------------------------- MODULE TimeConveyorProofs -------------------------
(***************************************************************************)
(* Proofs about TimeConveyor for every number of zones, nodes and passes,  *)
(* with every fault allowed: its types and its halts, the shape of a pass  *)
(* while a node works on it, and the order of the zones on the edges; then *)
(* where the zones are and how far they are, what run() returns, and the   *)
(* refinement of the causal stencil.                                       *)
(***************************************************************************)
EXTENDS TimeConveyor, PassDataProofs, SequenceTheorems, WellFoundedInduction,
        FiniteSetTheorems, TLAPS

-----------------------------------------------------------------------------
(* The operators of the model keep the types of what they transform.         *)

LEMMA ZonesFacts ==
  /\ N \in Nat \ {0} /\ Z \in Nat \ {0} /\ Steps \in Nat \ {0}
  /\ 0 \in Zones /\ N - 1 \in Zones
  /\ Pbc \in BOOLEAN
BY RingAssumption, ConveyorAssumption
   DEF RingAssumption, ConveyorAssumption, Zones

LEMMA EdgesAreNodes ==
  ASSUME NEW k \in Nodes
  PROVE  InEdge(k) \in Nodes /\ OutEdge(k) \in Nodes
BY ZonesFacts DEF Nodes, InEdge, OutEdge

LEMMA ApplyType ==
  ASSUME NEW z \in ZoneRecords, NEW e \in ZoneEvents
  PROVE  Apply(z, e) \in ZoneRecords
<1>1. Target(e) \in ZoneTypes
  BY DEF ZoneEvents, ZoneTypes, Target
<1>2. (IF e \in {"RECV", "SEND"} THEN {} ELSE z.contrib_mask) \in SUBSET Contributors
  BY DEF ZoneRecords
<1>3. (e = "END") \in BOOLEAN
  OBVIOUS
<1>4. QED
  BY <1>1, <1>2, <1>3, Zenon DEF Apply, ZoneRecords

LEMMA FreeZoneType == FreeZone \in ZoneRecords
BY DEF FreeZone, ZoneRecords, ZoneTypes, Contributors

LEMMA ContributeType ==
  ASSUME NEW z \in ZoneRecords, NEW c \in Contributors
  PROVE  Contribute(z, c) \in ZoneRecords
BY DEF Contribute, ZoneRecords

LEMMA ForcesType ==
  /\ NoForces \in [Zones -> Nat]
  /\ \A i \in Zones : FullForces(i) \in [Zones -> Nat]
BY DEF NoForces, FullForces

LEMMA LambdaTypes ==
  /\ NoLambda \in Lambdas
  /\ \A h \in Nat : FullLambda(h) \in Lambdas
  /\ NoDt \in TimeSteps /\ DtInitial \in TimeSteps
  /\ \A lam \in Lambdas, dt \in TimeSteps : AutoDt(lam, dt) \in TimeSteps
BY DEF NoLambda, Lambdas, FullLambda, NoDt, DtInitial, TimeSteps, AutoDt

LEMMA BodyTypes ==
  NoBody \in Bodies /\ \A i \in Zones, h \in Nat : CompleteBody(i, h) \in Bodies
BY ForcesType DEF NoBody, CompleteBody, Bodies

LEMMA BodyStepsTypes ==
  ASSUME NEW b \in Bodies
  PROVE  /\ [b EXCEPT !.x = @ + 1, !.v = @ + 1] \in Bodies
         /\ \A f \in [Zones -> Nat] : [b EXCEPT !.f = f, !.v = @ + 1] \in Bodies
<1>1. b.x + 1 \in Nat /\ b.v + 1 \in Nat
  <2>1. b.x \in Nat /\ b.v \in Nat
    BY DEF Bodies
  <2>2. QED
    BY <2>1
<1>2. \A x, v \in Nat : [b EXCEPT !.x = x, !.v = v] \in Bodies
  BY DEF Bodies
<1>3. \A f \in [Zones -> Nat], v \in Nat : [b EXCEPT !.f = f, !.v = v] \in Bodies
  BY DEF Bodies
<1>4. QED
  BY <1>1, <1>2, <1>3

LEMMA EmptySlotType == EmptySlot \in Slots
BY ZonesFacts, FreeZoneType, BodyTypes, ForcesType, LambdaTypes
   DEF EmptySlot, Slots

LEMMA FreshPassType ==
  ASSUME NEW h \in Nat
  PROVE  FreshPass(h) \in PassStates
<1>1. [pass |-> h, zones |-> {}] \in Lambdas
  BY DEF Lambdas
<1>2. [j \in Zones |-> EmptySlot] \in [Zones -> Slots]
  BY EmptySlotType
<1>3. <<>> \in Seq(Zones)
  BY EmptySeq
<1>4. QED
  BY <1>1, <1>2, <1>3, ZonesFacts, LambdaTypes DEF FreshPass, PassStates

LEMMA PreloadType ==
  ASSUME NEW j \in Zones
  PROVE  MakePreload(j) \in Messages
<1>1. j \in Nat
  BY ZonesFacts DEF Zones
<1>2. QED
  BY <1>1, LambdaTypes, BodyTypes DEF MakePreload, Messages

LEMMA MovedOutType ==
  ASSUME NEW s \in Slots
  PROVE  MovedOut(s) \in Slots
BY BodyTypes DEF MovedOut, Slots

LEMMA DriftType ==
  ASSUME NEW s \in Slots
  PROVE  Drift(s) \in Slots
<1>1. CASE s.drifted
  BY <1>1 DEF Drift
<1>2. CASE ~s.drifted
  <2> DEFINE b == [s.body EXCEPT !.x = @ + 1, !.v = @ + 1]
  <2>1. b \in Bodies
    BY BodyStepsTypes DEF Slots
  <2>2. Drift(s) = [s EXCEPT !.body = b, !.acc = NoForces, !.drifted = TRUE]
    BY <1>2 DEF Drift, Slots, Bodies
  <2>3. QED
    BY <2>1, <2>2, ForcesType DEF Slots
<1>3. QED
  BY <1>1, <1>2

LEMMA CountPairsType ==
  ASSUME NEW s \in Slots, NEW t \in Slots
  PROVE  /\ CountPairs(s, t) \in Slots
         /\ CountPairs(s, t).fsm = s.fsm
<1>1. t.zone \in Zones /\ s.acc \in [Zones -> Nat]
  BY DEF Slots
<1>2. [s.acc EXCEPT ![t.zone] = @ + 1] \in [Zones -> Nat]
  BY <1>1
<1>3. QED
  BY <1>2 DEF CountPairs, Slots

LEMMA StartZoneType ==
  ASSUME NEW s \in Slots, NEW j \in Zones
  PROVE  StartZone(s, j) \in Slots
<1> DEFINE seeded == IF j = 0 THEN SeedFirstZone(s.fsm) ELSE s.fsm
<1>1. s.fsm \in ZoneRecords
  BY DEF Slots
<1>2. seeded \in ZoneRecords
  BY <1>1, ApplyType DEF SeedFirstZone, ZoneEvents
<1>3. Apply(seeded, "START") \in ZoneRecords
  BY <1>2, ApplyType DEF ZoneEvents
<1>4. StartZone(s, j) =
        [CountPairs(s, s) EXCEPT !.fsm = Apply(seeded, "START"), !.computed = TRUE]
  BY DEF StartZone
<1>5. QED
  BY <1>3, <1>4, CountPairsType DEF Slots

LEMMA TakenType ==
  ASSUME NEW s \in Slots
  PROVE  TakeSphere(s) \in Slots /\ TakeClosure(s) \in Slots
<1>1. s.fsm \in ZoneRecords
  BY DEF Slots
<1>2. /\ Contribute(Apply(s.fsm, "SPHERE"), "prev") \in ZoneRecords
      /\ Contribute(s.fsm, "closure") \in ZoneRecords
  BY <1>1, ApplyType, ContributeType DEF ZoneEvents, Contributors
<1>3. QED
  BY <1>2 DEF TakeSphere, TakeClosure, Slots

LEMMA ComputedSlotsType ==
  ASSUME NEW p \in PassStates
  PROVE  ComputedSlots(p) \in [Zones -> Slots]
<1> DEFINE j == p.pos
           own == Drift(p.slot[j])
           next == Drift(p.slot[j + 1])
           head == p.slot[0]
<1>1. j \in Zones /\ p.slot \in [Zones -> Slots]
  BY DEF PassStates
<1>2. own \in Slots /\ StartZone(own, j) \in Slots
  BY <1>1, DriftType, StartZoneType
<1>3. CASE j + 1 < N
  <2>1. j + 1 \in Zones
    BY <1>1, <1>3, ZonesFacts DEF Zones
  <2>2. next \in Slots
    BY <1>1, <2>1, DriftType
  <2>3. TakeSphere(CountPairs(next, own)) \in Slots
    BY <1>2, <2>2, CountPairsType, TakenType
  <2>4. CountPairs(StartZone(own, j), next) \in Slots
    BY <1>2, <2>2, CountPairsType
  <2>5. ComputedSlots(p) =
          [p.slot EXCEPT ![j] = CountPairs(StartZone(own, j), next),
                         ![j + 1] = TakeSphere(CountPairs(next, own))]
    BY <1>3 DEF ComputedSlots
  <2>6. QED
    BY <1>1, <2>1, <2>3, <2>4, <2>5
<1>4. CASE ~(j + 1 < N) /\ DeferHead
  <2>1. 0 \in Zones /\ head \in Slots
    BY <1>1, ZonesFacts
  <2>2. TakeClosure(CountPairs(head, own)) \in Slots
    BY <1>2, <2>1, CountPairsType, TakenType
  <2>3. CountPairs(StartZone(own, j), head) \in Slots
    BY <1>2, <2>1, CountPairsType
  <2>4. ComputedSlots(p) =
          [p.slot EXCEPT ![j] = CountPairs(StartZone(own, j), head),
                         ![0] = TakeClosure(CountPairs(head, own))]
    BY <1>4 DEF ComputedSlots
  <2>5. QED
    BY <1>1, <2>1, <2>2, <2>3, <2>4
<1>5. CASE ~(j + 1 < N) /\ ~DeferHead
  <2>1. ComputedSlots(p) = [p.slot EXCEPT ![j] = StartZone(own, j)]
    BY <1>5 DEF ComputedSlots
  <2>2. QED
    BY <1>1, <1>2, <2>1
<1>6. QED
  BY <1>3, <1>4, <1>5

LEMMA PassUpdateTypes ==
  ASSUME NEW p \in PassStates
  PROVE  /\ \A j \in Zones : [p EXCEPT !.pos = j] \in PassStates
         /\ \A o \in 1 .. 2 : [p EXCEPT !.op = o] \in PassStates
         /\ \A sl \in [Zones -> Slots] : [p EXCEPT !.slot = sl] \in PassStates
         /\ \A n \in Nat : [p EXCEPT !.sent = n] \in PassStates
         /\ \A s \in Seq(Zones), lam \in Lambdas :
              [p EXCEPT !.agg = lam, !.outq = s] \in PassStates
<1>1. \A j \in Zones : [p EXCEPT !.pos = j] \in PassStates
  BY DEF PassStates
<1>2. \A o \in 1 .. 2 : [p EXCEPT !.op = o] \in PassStates
  BY DEF PassStates
<1>3. \A sl \in [Zones -> Slots] : [p EXCEPT !.slot = sl] \in PassStates
  BY DEF PassStates
<1>4. \A n \in Nat : [p EXCEPT !.sent = n] \in PassStates
  BY DEF PassStates
<1>5. \A s \in Seq(Zones), lam \in Lambdas :
        [p EXCEPT !.agg = lam, !.outq = s] \in PassStates
  BY DEF PassStates
<1>6. QED
  BY <1>1, <1>2, <1>3, <1>4, <1>5

LEMMA OpUpdateTypes ==
  ASSUME NEW p \in PassStates
  PROVE  [p EXCEPT !.op = 1] \in PassStates /\ [p EXCEPT !.op = 2] \in PassStates
<1>1. 1 \in 1 .. 2 /\ 2 \in 1 .. 2
  OBVIOUS
<1>2. QED
  BY <1>1, PassUpdateTypes

LEMMA NextPositionType ==
  ASSUME NEW p \in PassStates
  PROVE  NextPosition(p) \in PassStates
<1>1. p.pos \in Zones
  BY DEF PassStates
<1>2. p.pos + 1 < N => p.pos + 1 \in Zones
  BY <1>1, ZonesFacts DEF Zones
<1>3. ASSUME p.pos + 1 < N
      PROVE  [p EXCEPT !.pos = @ + 1, !.op = 1] \in PassStates
  <2> DEFINE q == [p EXCEPT !.pos = @ + 1]
  <2>1. q \in PassStates
    BY <1>2, <1>3, PassUpdateTypes
  <2>2. \A r \in PassStates : [r EXCEPT !.op = 1] \in PassStates
    BY OpUpdateTypes
  <2>3. [q EXCEPT !.op = 1] = [p EXCEPT !.pos = @ + 1, !.op = 1]
    BY DEF PassStates
  <2>4. QED
    BY <2>1, <2>2, <2>3
<1>4. QED
  BY <1>3 DEF NextPosition

LEMMA EndedSlotType ==
  ASSUME NEW s \in Slots
  PROVE  EndedSlot(s) \in Slots
<1>1. Kicked(s.body, s.acc) \in Bodies
  BY BodyStepsTypes DEF Kicked, Slots
<1>2. Apply(s.fsm, "END") \in ZoneRecords
  BY ApplyType DEF Slots, ZoneEvents
<1>3. QED
  BY <1>1, <1>2 DEF EndedSlot, Slots

LEMMA SentSlotType ==
  ASSUME NEW s \in Slots
  PROVE  SentSlot(s) \in Slots
<1>1. Apply(MovedOut(s).fsm, "SEND") \in ZoneRecords
  BY MovedOutType, ApplyType DEF Slots, ZoneEvents
<1>2. QED
  BY <1>1, MovedOutType DEF SentSlot, Slots

LEMMA EndedPassType ==
  ASSUME NEW p \in PassStates, NEW j \in Zones
  PROVE  EndedPass(p, j) \in PassStates
<1> DEFINE sl == [p.slot EXCEPT ![j] = EndedSlot(@)]
           ag == [p.agg EXCEPT !.zones = @ \cup {p.slot[j].zone}]
           q == [p EXCEPT !.slot = sl]
<1>1. p.slot \in [Zones -> Slots] /\ p.slot[j] \in Slots
  BY DEF PassStates
<1>2. sl \in [Zones -> Slots]
  BY <1>1, EndedSlotType
<1>3. ag \in Lambdas
  BY <1>1 DEF PassStates, Lambdas, Slots
<1>4. Append(p.outq, j) \in Seq(Zones)
  BY AppendProperties DEF PassStates
<1>5. q \in PassStates
  BY <1>2, PassUpdateTypes
<1>6. [q EXCEPT !.agg = ag, !.outq = Append(p.outq, j)] \in PassStates
  BY <1>3, <1>4, <1>5, PassUpdateTypes
<1>7. EndedPass(p, j) = [q EXCEPT !.agg = ag, !.outq = Append(p.outq, j)]
  BY DEF EndedPass, PassStates
<1>8. QED
  BY <1>6, <1>7

LEMMA LambdaOutType ==
  ASSUME NEW p \in PassStates
  PROVE  LambdaOut(p) \in Lambdas /\ DtOut(p) \in TimeSteps
<1>1. LambdaOut(p) \in Lambdas
  <2>1. p.sent + 1 < N => p.sent + 1 \in Zones
    BY ZonesFacts DEF PassStates, Zones
  <2>2. QED
    BY <2>1 DEF LambdaOut, PassStates, Slots
<1>2. QED
  BY <1>1, LambdaTypes DEF DtOut, PassStates

LEMMA OutMessageType ==
  ASSUME TypeOK, NEW k \in Nodes, loc[k].outq # <<>>
  PROVE  OutMessage(k) \in Messages
<1> DEFINE p == loc[k]
           s == p.slot[Head(p.outq)]
<1>1. p \in PassStates /\ pass[k] \in Nat
  BY DEF TypeOK
<1>2. Head(p.outq) \in Zones
  BY <1>1, HeadTailProperties DEF PassStates
<1>3. s \in Slots /\ p.sent \in Nat
  BY <1>1, <1>2 DEF PassStates
<1>4. s.zone \in Zones /\ s.body \in Bodies
  BY <1>3 DEF Slots
<1>5. LambdaOut(p) \in Lambdas /\ DtOut(p) \in TimeSteps
  BY <1>1, LambdaOutType
<1>6. QED
  BY <1>1, <1>3, <1>4, <1>5 DEF OutMessage, Messages

LEMMA AcceptType ==
  ASSUME TypeOK, NEW k \in Nodes, NEW m \in Messages,
         loc[k].arrived \in Zones
  PROVE  Accept(k, m) \in PassStates
<1> DEFINE p == loc[k]
           a == p.arrived
           s == [EmptySlot EXCEPT !.zone = m.zone, !.fsm = ArrivedZone(k),
                                  !.owned = TRUE, !.body = m.body,
                                  !.lam = m.lam]
           dt == IF a = 0 THEN m.dt ELSE p.dt
           rb == IF a = ForecastPosition THEN m.lam ELSE p.rbuf
           sl == [p.slot EXCEPT ![a] = s]
<1>1. p \in PassStates
  BY DEF TypeOK
<1>2. ArrivedZone(k) \in ZoneRecords
  <2>1. [FreeZone EXCEPT !.type = InitialZoneType(1)] \in ZoneRecords
    BY DEF FreeZone, ZoneRecords, ZoneTypes, Contributors, InitialZoneType
  <2>2. Apply(FreeZone, "RECV") \in ZoneRecords
    BY FreeZoneType, ApplyType DEF ZoneEvents
  <2>3. QED
    BY <2>1, <2>2 DEF ArrivedZone
<1>3. m.zone \in Zones /\ m.body \in Bodies /\ m.lam \in Lambdas /\ m.dt \in TimeSteps
  BY DEF Messages
<1>4. s \in Slots
  BY <1>2, <1>3, EmptySlotType DEF Slots
<1>5. sl \in [Zones -> Slots] /\ dt \in TimeSteps /\ rb \in Lambdas
  BY <1>1, <1>3, <1>4 DEF PassStates
<1>6. a + 1 \in 0 .. N
  BY ZonesFacts DEF Zones
<1>7. Accept(k, m) =
        [p EXCEPT !.slot = sl, !.dt = dt, !.rbuf = rb, !.arrived = a + 1]
  BY <1>1 DEF Accept, PassStates
<1>8. QED
  <2>1. \A n \in 0 .. N : [p EXCEPT !.arrived = n] \in PassStates
    BY <1>1 DEF PassStates
  <2>2. \A r \in PassStates :
          [r EXCEPT !.slot = sl, !.dt = dt, !.rbuf = rb] \in PassStates
    BY <1>5 DEF PassStates
  <2>3. [[p EXCEPT !.arrived = a + 1] EXCEPT !.slot = sl, !.dt = dt, !.rbuf = rb]
          \in PassStates
    BY <1>6, <2>1, <2>2
  <2>4. [[p EXCEPT !.arrived = a + 1] EXCEPT !.slot = sl, !.dt = dt, !.rbuf = rb]
          = Accept(k, m)
    BY <1>1, <1>7 DEF PassStates
  <2>5. QED
    BY <2>3, <2>4

-----------------------------------------------------------------------------
(* What a node's step can do to the control state.  A node that works on a   *)
(* pass either moves on quietly, or raises a halt, or records its pass; a     *)
(* node that raised the first halt closes an edge.                            *)

Working == {"io", "check", "compute", "end", "endhead", "flush", "record"}

Quiet(k) ==
  /\ pc[k] \in Working \cup {"loop"}
  /\ \E x \in Working \cup {"done"} :
       Goto(k, x) /\ (x = "done" \/ pc[k] \in Working \/ pass[k] <= Steps)
  /\ UNCHANGED <<pass, closed, haltVars, stats, mainVars>>

Raises(k) ==
  /\ pc[k] \in Working
  /\ \E kind \in HaltKinds \ {"None"} : SetHalt(k, kind)
  /\ UNCHANGED <<pass, closed, stats, mainVars>>

LEMMA QuietMoves ==
  ASSUME TypeOK, NEW k \in Nodes, pc[k] \in Working, NEW x \in Working \cup {"done"},
         pc' = pc \/ Goto(k, x),
         UNCHANGED <<pass, closed, haltVars, stats, mainVars>>
  PROVE  Quiet(k)
<1>1. CASE pc' = pc
  <2>1. Goto(k, pc[k])
    BY <1>1 DEF TypeOK, Goto
  <2>2. QED
    BY <2>1 DEF Quiet
<1>2. CASE Goto(k, x)
  BY <1>2 DEF Quiet
<1>3. QED
  BY <1>1, <1>2

LEMMA LogicRaises ==
  ASSUME NEW k \in Nodes, pc[k] \in Working, SetHalt(k, "Logic"),
         UNCHANGED <<pass, closed, stats, mainVars>>
  PROVE  Raises(k)
BY DEF Raises, HaltKinds

LEMMA NodeStepKinds ==
  ASSUME TypeOK, NEW k \in Nodes, NodeStep(k)
  PROVE  Quiet(k) \/ Raises(k) \/ RecordPass(k) \/ CloseEdge(k)
<1>1. CASE NodeReturns(k)
  BY <1>1 DEF NodeReturns, Quiet
<1>2. CASE StartPass(k)
  BY <1>2 DEF StartPass, Quiet, Working
<1>3. CASE TakePreload(k)
  <2>1. pc[k] \in Working /\ UNCHANGED <<pass, closed, stats, mainVars>>
    BY <1>3 DEF TakePreload, AwaitsArrival, Working
  <2>2. SetHalt(k, "Logic") \/ (UNCHANGED pc /\ UNCHANGED haltVars)
    BY <1>3 DEF TakePreload, TakeArrival
  <2>3. QED
    BY <2>1, <2>2, QuietMoves, LogicRaises
<1>4. CASE RecvZone(k)
  <2>1. pc[k] \in Working /\ UNCHANGED <<pass, closed, stats, mainVars>>
    BY <1>4 DEF RecvZone, AwaitsArrival, Working
  <2>2. SetHalt(k, "Logic") \/ (UNCHANGED pc /\ UNCHANGED haltVars)
    BY <1>4 DEF RecvZone, TakeArrival
  <2>3. QED
    BY <2>1, <2>2, QuietMoves, LogicRaises
<1>5. CASE RecvShutDown(k)
  BY <1>5 DEF RecvShutDown, AwaitsArrival, Quiet, Working
<1>6. CASE RecvDone(k)
  BY <1>6 DEF RecvDone, NextOp, Quiet, Working
<1>7. CASE SendZone(k)
  <2>1. pc[k] \in Working /\ UNCHANGED <<pass, closed, stats, mainVars>>
    BY <1>7 DEF SendZone, Flushing, Working
  <2>2. SetHalt(k, "Logic") \/ (UNCHANGED pc /\ UNCHANGED haltVars)
    BY <1>7 DEF SendZone
  <2>3. QED
    BY <2>1, <2>2, QuietMoves, LogicRaises
<1>8. CASE CollectZone(k)
  <2>1. pc[k] \in Working
    BY <1>8 DEF CollectZone, Flushing, Working
  <2>2. UNCHANGED <<pc, pass, closed, haltVars, stats, mainVars>>
    BY <1>8 DEF CollectZone
  <2>3. QED
    BY <2>1, <2>2, QuietMoves
<1>9. CASE FlushDone(k)
  <2>1. pc[k] \in Working /\ UNCHANGED <<pass, closed, haltVars, stats, mainVars>>
    BY <1>9 DEF FlushDone, Flushing, Working
  <2>2. Goto(k, "record") \/ Goto(k, "io") \/ Goto(k, "check")
    BY <1>9 DEF FlushDone, NextOp
  <2>3. QED
    BY <2>1, <2>2, QuietMoves DEF Working
<1>10. CASE FlushSeesHalt(k)
  BY <1>10 DEF FlushSeesHalt, Flushing, Quiet, Working
<1>11. CASE HaltCheck(k)
  BY <1>11 DEF HaltCheck, Quiet, Working
<1>12. CASE ComputeZone(k)
  <2>1. pc[k] \in Working /\ UNCHANGED <<pass, closed, stats, mainVars>>
    BY <1>12 DEF ComputeZone, Working
  <2>2. \/ SetHalt(k, "Logic")
        \/ UNCHANGED haltVars /\ \E x \in {"end", "io", "flush"} : Goto(k, x)
    BY <1>12 DEF ComputeZone, AfterPosition
  <2>3. QED
    BY <2>1, <2>2, QuietMoves, LogicRaises DEF Working
<1>13. CASE EndZone(k)
  <2>1. pc[k] \in Working /\ UNCHANGED <<pass, closed, stats, mainVars>>
    BY <1>13 DEF EndZone, Working
  <2>2. \/ SetHalt(k, "Logic")
        \/ UNCHANGED haltVars /\ \E x \in {"endhead", "io", "flush"} : Goto(k, x)
    BY <1>13 DEF EndZone, AfterPosition
  <2>3. QED
    BY <2>1, <2>2, QuietMoves, LogicRaises DEF Working
<1>14. CASE NodeFault(k)
  <2>1. PICK kind \in FaultsAt(pc[k]) : SetHalt(k, kind)
    BY <1>14 DEF NodeFault
  <2>2. pc[k] \in Working
    BY <2>1 DEF FaultsAt, Working
  <2>3. kind \in HaltKinds \ {"None"}
    BY <2>1, ConveyorAssumption
       DEF FaultsAt, ConveyorAssumption, FaultKinds, HaltKinds
  <2>4. QED
    BY <1>14, <2>1, <2>2, <2>3 DEF NodeFault, Raises
<1>15. QED
  BY <1>1, <1>2, <1>3, <1>4, <1>5, <1>6, <1>7, <1>8, <1>9, <1>10, <1>11,
     <1>12, <1>13, <1>14 DEF NodeStep

-----------------------------------------------------------------------------
(* The control invariant: threads are created in order, and the edges are    *)
(* closed by one thread at a time, the one that raised the first halt.       *)

SpawnInv ==
  /\ main = "spawn" => born < Z
  /\ \A k \in Nodes : k >= born => pc[k] = "unborn"

HaltInv ==
  /\ ~HaltOn => closed = 0 /\ haltPass = 0 /\ main # "closing"
  /\ main = "closing" => closed < Z
  /\ \A k \in Nodes :
       pc[k] = "closing" =>
         /\ HaltOn /\ closed < Z /\ main # "closing"
         /\ \A l \in Nodes : pc[l] = "closing" => l = k

ControlInv == TypeOK /\ SpawnInv /\ HaltInv

LEMMA ControlInit == Init => ControlInv
<1> SUFFICES ASSUME Init PROVE ControlInv
  OBVIOUS
<1>1. TypeOK
  <2>1. loc \in [Nodes -> PassStates]
    BY FreshPassType DEF Init
  <2>2. chan \in [Nodes -> Seq(Messages)]
    BY EmptySeq DEF Init
  <2>3. stats \in [Passes -> PassRecords]
    BY LambdaTypes DEF Init, NoStats, PassRecords
  <2>4. final \in [Zones -> Bodies]
    BY BodyTypes DEF Init
  <2>5. result \in Results
    BY ZonesFacts DEF Init, NoResult, Results, HaltKinds
  <2>6. pc \in [Nodes -> NodePoints] /\ pass \in [Nodes -> Nat]
    BY DEF Init, NodePoints, Nodes
  <2>7. QED
    BY <2>1, <2>2, <2>3, <2>4, <2>5, <2>6, ZonesFacts DEF Init, TypeOK, HaltKinds
<1>2. SpawnInv /\ HaltInv
  BY ZonesFacts DEF Init, SpawnInv, HaltInv, HaltOn, Nodes
<1>3. QED
  BY <1>1, <1>2 DEF ControlInv

LEMMA ControlNode ==
  ASSUME ControlInv, NEW k \in Nodes, NodeStep(k)
  PROVE  SpawnInv' /\ HaltInv'
<1> USE DEF ControlInv
<1>0. pc \in [Nodes -> NodePoints] /\ closed \in 0 .. Z /\ Z \in Nat \ {0}
  BY ZonesFacts DEF TypeOK
<1>1. pc[k] # "unborn" => k < born
  BY <1>0 DEF SpawnInv, TypeOK, Nodes
<1>2. CASE Quiet(k)
  <2>1. PICK x \in Working \cup {"done"} : Goto(k, x)
    BY <1>2 DEF Quiet
  <2>2. pc[k] \notin {"unborn", "closing"} /\ x # "closing"
    BY <1>2, <2>1 DEF Quiet, Working
  <2>3. UNCHANGED <<closed, haltKind, haltPass, main, born>>
    BY <1>2 DEF Quiet, haltVars, mainVars
  <2>4. SpawnInv'
    BY <1>0, <1>1, <2>1, <2>2, <2>3 DEF SpawnInv, Goto, TypeOK, Nodes
  <2>5. HaltInv'
    BY <1>0, <2>1, <2>2, <2>3 DEF HaltInv, HaltOn, Goto
  <2>6. QED
    BY <2>4, <2>5
<1>3. CASE Raises(k)
  <2>1. PICK kind \in HaltKinds \ {"None"} : SetHalt(k, kind)
    BY <1>3 DEF Raises
  <2>2. pc[k] \notin {"unborn", "closing"}
    BY <1>3 DEF Raises, Working
  <2>3. UNCHANGED <<closed, main, born>>
    BY <1>3 DEF Raises, mainVars
  <2>4. \E x \in {"done", "closing"} : Goto(k, x)
    BY <2>1 DEF SetHalt
  <2>5. SpawnInv'
    BY <1>0, <1>1, <2>2, <2>3, <2>4 DEF SpawnInv, Goto, TypeOK, Nodes
  <2>6. CASE HaltOn
    <3>1. Goto(k, "done") /\ UNCHANGED <<haltKind, haltPass>>
      BY <2>1, <2>6 DEF SetHalt, haltVars
    <3>2. QED
      BY <1>0, <2>2, <2>3, <2>5, <3>1 DEF HaltInv, HaltOn, Goto
  <2>7. CASE ~HaltOn
    <3>1. Goto(k, "closing") /\ haltKind' = kind
      BY <2>1, <2>7 DEF SetHalt
    <3>2. HaltOn'
      BY <2>1, <3>1 DEF HaltOn
    <3>3. closed' < Z /\ main' # "closing"
      BY <1>0, <2>3, <2>7 DEF HaltInv
    <3>4. \A l \in Nodes : pc'[l] = "closing" => l = k
      BY <1>0, <2>7, <3>1 DEF HaltInv, Goto
    <3>5. QED
      BY <2>5, <3>2, <3>3, <3>4 DEF HaltInv
  <2>8. QED
    BY <2>6, <2>7
<1>4. CASE RecordPass(k)
  <2>1. Goto(k, "loop") /\ pc[k] = "record"
    BY <1>4 DEF RecordPass
  <2>2. UNCHANGED <<closed, haltKind, haltPass, main, born>>
    BY <1>4 DEF RecordPass, haltVars, mainVars
  <2>3. SpawnInv'
    BY <1>0, <1>1, <2>1, <2>2 DEF SpawnInv, Goto, TypeOK, Nodes
  <2>4. HaltInv'
    BY <1>0, <2>1, <2>2 DEF HaltInv, HaltOn, Goto
  <2>5. QED
    BY <2>3, <2>4
<1>5. CASE CloseEdge(k)
  <2>1. pc[k] = "closing" /\ closed' = closed + 1
    BY <1>5 DEF CloseEdge
  <2>2. Goto(k, IF closed' = Z THEN "done" ELSE "closing")
    BY <1>5 DEF CloseEdge
  <2>3. UNCHANGED <<haltKind, haltPass, main, born>>
    BY <1>5 DEF CloseEdge, haltVars, mainVars
  <2>4. SpawnInv'
    BY <1>0, <1>1, <2>1, <2>2, <2>3 DEF SpawnInv, Goto, TypeOK, Nodes
  <2>5. closed < Z /\ HaltOn /\ main # "closing"
        /\ \A l \in Nodes : pc[l] = "closing" => l = k
    BY <2>1 DEF HaltInv
  <2>6. HaltOn' /\ main' # "closing"
    BY <2>3, <2>5 DEF HaltOn
  <2>7. \A l \in Nodes : pc'[l] = "closing" => l = k /\ closed' < Z
    BY <1>0, <2>1, <2>2, <2>5 DEF Goto
  <2>8. QED
    BY <2>4, <2>6, <2>7 DEF HaltInv
<1>6. QED
  BY <1>2, <1>3, <1>4, <1>5, NodeStepKinds

LEMMA ControlMain ==
  ASSUME ControlInv, MainStep
  PROVE  SpawnInv' /\ HaltInv'
<1> USE DEF ControlInv
<1>0. /\ pc \in [Nodes -> NodePoints] /\ closed \in 0 .. Z
      /\ born \in 0 .. Z /\ Z \in Nat \ {0}
  BY ZonesFacts DEF TypeOK
<1>1. CASE SpawnNode
  <2>1. /\ main = "spawn" /\ born' = born + 1
        /\ main' = IF born' = Z THEN "join" ELSE "spawn"
        /\ pc' = [pc EXCEPT ![born] = "loop"]
        /\ UNCHANGED <<closed, haltKind, haltPass>>
    BY <1>1 DEF SpawnNode, Goto, haltVars
  <2>2. SpawnInv'
    BY <1>0, <2>1 DEF SpawnInv, Nodes
  <2>3. HaltInv'
    BY <1>0, <2>1 DEF HaltInv, HaltOn
  <2>4. QED
    BY <2>2, <2>3
<1>2. CASE SpawnFails
  <2>1. main = "spawn" /\ UNCHANGED <<pc, born, closed>>
    BY <1>2 DEF SpawnFails
  <2>2. CASE HaltOn
    <3>1. main' = "join" /\ UNCHANGED <<haltKind, haltPass>>
      BY <1>2, <2>2 DEF SpawnFails, haltVars
    <3>2. QED
      BY <2>1, <2>2, <3>1 DEF SpawnInv, HaltInv, HaltOn
  <2>3. CASE ~HaltOn
    <3>1. main' = "closing" /\ HaltOn'
      BY <1>2, <2>3 DEF SpawnFails, HaltOn
    <3>2. closed' < Z
      BY <1>0, <2>1, <2>3 DEF HaltInv
    <3>3. \A l \in Nodes : pc'[l] # "closing"
      BY <2>1, <2>3 DEF HaltInv
    <3>4. QED
      BY <2>1, <3>1, <3>2, <3>3 DEF SpawnInv, HaltInv
  <2>4. QED
    BY <2>2, <2>3
<1>3. CASE MainClosesEdge
  <2>1. /\ main = "closing" /\ closed' = closed + 1
        /\ main' = IF closed' = Z THEN "join" ELSE "closing"
        /\ UNCHANGED <<pc, haltKind, haltPass, born>>
    BY <1>3 DEF MainClosesEdge, haltVars
  <2>2. closed < Z /\ HaltOn /\ \A l \in Nodes : pc[l] # "closing"
    BY <2>1 DEF HaltInv
  <2>3. HaltOn' /\ (main' = "closing" => closed' < Z)
    BY <1>0, <2>1, <2>2 DEF HaltOn
  <2>4. QED
    BY <2>1, <2>2, <2>3 DEF SpawnInv, HaltInv
<1>4. CASE Join
  <2>1. /\ main' = "returned"
        /\ UNCHANGED <<pc, closed, haltKind, haltPass, born>>
    BY <1>4 DEF Join, haltVars
  <2>2. QED
    BY <2>1 DEF SpawnInv, HaltInv, HaltOn
<1>5. QED
  BY <1>1, <1>2, <1>3, <1>4 DEF MainStep

-----------------------------------------------------------------------------
(* Type correctness of each step: first the control variables, then the      *)
(* zones in the slots, on the edges and in the result.                       *)

ControlTypes ==
  /\ pc \in [Nodes -> NodePoints]
  /\ pass \in [Nodes -> Nat]
  /\ closed \in 0 .. Z
  /\ haltKind \in HaltKinds
  /\ haltPass \in Nat
  /\ stats \in [Passes -> PassRecords]
  /\ main \in {"spawn", "closing", "join", "returned"}
  /\ born \in 0 .. Z
  /\ result \in Results

ZoneTypesOK ==
  /\ loc \in [Nodes -> PassStates]
  /\ chan \in [Nodes -> Seq(Messages)]
  /\ final \in [Zones -> Bodies]
  /\ level \in [Zones -> Nat]

LEMMA TypeParts == TypeOK <=> ControlTypes /\ ZoneTypesOK
BY DEF TypeOK, ControlTypes, ZoneTypesOK

LEMMA ControlTypesNode ==
  ASSUME ControlInv, NEW k \in Nodes, NodeStep(k)
  PROVE  ControlTypes'
<1>0. ControlTypes /\ TypeOK /\ loc[k] \in PassStates /\ Z \in Nat \ {0}
  BY TypeParts, ZonesFacts DEF ControlInv, TypeOK
<1>1. CASE Quiet(k)
  <2>1. PICK x \in Working \cup {"done"} : Goto(k, x)
    BY <1>1 DEF Quiet
  <2>2. pc' \in [Nodes -> NodePoints]
    BY <1>0, <2>1 DEF ControlTypes, Goto, Working, NodePoints
  <2>3. QED
    BY <1>0, <1>1, <2>2 DEF Quiet, ControlTypes, haltVars, mainVars
<1>2. CASE Raises(k)
  <2>1. PICK kind \in HaltKinds \ {"None"} : SetHalt(k, kind)
    BY <1>2 DEF Raises
  <2>2. pc' \in [Nodes -> NodePoints]
    BY <1>0, <2>1 DEF ControlTypes, SetHalt, Goto, NodePoints
  <2>3. haltKind' \in HaltKinds /\ haltPass' \in Nat
    BY <1>0, <2>1 DEF ControlTypes, SetHalt, haltVars
  <2>4. QED
    BY <1>0, <1>2, <2>2, <2>3 DEF Raises, ControlTypes, mainVars
<1>3. CASE RecordPass(k)
  <2>1. pc' \in [Nodes -> NodePoints]
    BY <1>0, <1>3 DEF ControlTypes, RecordPass, Goto, NodePoints
  <2>2. pass' \in [Nodes -> Nat]
    BY <1>0, <1>3 DEF ControlTypes, RecordPass
  <2>3. [dt |-> loc[k].dt, agg |-> loc[k].agg] \in PassRecords
    BY <1>0 DEF PassStates, PassRecords
  <2>4. stats' \in [Passes -> PassRecords]
    BY <1>0, <1>3, <2>3 DEF ControlTypes, RecordPass
  <2>5. QED
    BY <1>0, <1>3, <2>1, <2>2, <2>4
       DEF RecordPass, ControlTypes, haltVars, mainVars
<1>4. CASE CloseEdge(k)
  <2>1. pc' \in [Nodes -> NodePoints]
    BY <1>0, <1>4 DEF ControlTypes, CloseEdge, Goto, NodePoints
  <2>2. closed' \in 0 .. Z
    BY <1>0, <1>4 DEF ControlInv, HaltInv, ControlTypes, CloseEdge
  <2>3. QED
    BY <1>0, <1>4, <2>1, <2>2 DEF CloseEdge, ControlTypes, haltVars, mainVars
<1>5. QED
  BY <1>0, <1>1, <1>2, <1>3, <1>4, NodeStepKinds

\* The longest recorded prefix exists: well-ordering of the passes without a
\* record.
LEMMA StepsDoneExact ==
  /\ StepsDone \in 0 .. Steps
  /\ \A h \in 1 .. StepsDone : Recorded(h)
  /\ StepsDone < Steps => ~Recorded(StepsDone + 1)
<1> DEFINE Gaps == {h \in Passes : ~Recorded(h)}
           Prefix(d) == /\ \A h \in 1 .. d : Recorded(h)
                        /\ d < Steps => ~Recorded(d + 1)
<1>0. Steps \in Nat \ {0}
  BY ZonesFacts
<1>1. \E d \in 0 .. Steps : Prefix(d)
  <2>1. CASE Gaps = {}
    <3>1. Prefix(Steps)
      BY <1>0, <2>1 DEF Passes
    <3>2. QED
      BY <1>0, <3>1
  <2>2. CASE Gaps # {}
    <3>1. PICK g \in Gaps : \A h \in Gaps : ~(<<h, g>> \in OpToRel(<, Nat))
      <4>1. Gaps \subseteq Nat
        BY <1>0 DEF Passes
      <4>2. \A R : IsWellFoundedOn(R, Nat) =>
              \E g \in Gaps : \A h \in Gaps : ~(<<h, g>> \in R)
        BY <2>2, <4>1, WFMin, Zenon
      <4>3. QED
        BY <4>2, NatLessThanWellFounded, Zenon
    <3>2. g \in 1 .. Steps /\ ~Recorded(g)
      BY DEF Passes
    <3>3. \A h \in 1 .. (g - 1) : Recorded(h)
      <4>1. \A h \in Gaps : ~(h < g)
        <5>1. \A a, b \in Nat : a < b => <<a, b>> \in OpToRel(<, Nat)
          BY DEF OpToRel
        <5>2. Gaps \subseteq Nat
          BY <1>0 DEF Passes
        <5>3. QED
          BY <3>1, <5>1, <5>2, Zenon
      <4>2. QED
        BY <1>0, <3>2, <4>1 DEF Passes
    <3>4. Prefix(g - 1) /\ g - 1 \in 0 .. Steps
      BY <1>0, <3>2, <3>3
    <3>5. QED
      BY <3>4
  <2>3. QED
    BY <2>1, <2>2
<1>2. StepsDone \in 0 .. Steps /\ Prefix(StepsDone)
  BY <1>1 DEF StepsDone
<1>3. QED
  BY <1>2

LEMMA TypeMain ==
  ASSUME ControlInv, MainStep
  PROVE  TypeOK'
<1>0. ControlTypes /\ ZoneTypesOK /\ Z \in Nat \ {0} /\ Steps \in Nat \ {0}
  BY TypeParts, ZonesFacts DEF ControlInv
<1>1. ZoneTypesOK'
  BY <1>0 DEF MainStep, SpawnNode, SpawnFails, MainClosesEdge, Join, ZoneTypesOK
<1>2. CASE SpawnNode
  <2>1. pc' \in [Nodes -> NodePoints]
    BY <1>0, <1>2 DEF SpawnNode, Goto, ControlTypes, NodePoints
  <2>2. born' \in 0 .. Z /\ main' \in {"spawn", "closing", "join", "returned"}
    BY <1>0, <1>2 DEF SpawnNode, ControlTypes, ControlInv, SpawnInv
  <2>3. ControlTypes'
    BY <1>0, <1>2, <2>1, <2>2 DEF SpawnNode, ControlTypes, haltVars
  <2>4. QED
    BY <1>1, <2>3 DEF TypeOK, ControlTypes, ZoneTypesOK
<1>3. CASE SpawnFails
  <2>1. haltKind' \in HaltKinds /\ haltPass' \in Nat
    BY <1>0, <1>3 DEF SpawnFails, ControlTypes, haltVars, HaltKinds, FaultKinds
  <2>2. main' \in {"spawn", "closing", "join", "returned"}
    BY <1>3 DEF SpawnFails
  <2>3. ControlTypes'
    BY <1>0, <1>3, <2>1, <2>2 DEF SpawnFails, ControlTypes
  <2>4. QED
    BY <1>1, <2>3 DEF TypeOK, ControlTypes, ZoneTypesOK
<1>4. CASE MainClosesEdge
  <2>1. closed' \in 0 .. Z /\ main' \in {"spawn", "closing", "join", "returned"}
    BY <1>0, <1>4 DEF MainClosesEdge, ControlTypes, ControlInv, HaltInv
  <2>2. ControlTypes'
    BY <1>0, <1>4, <2>1 DEF MainClosesEdge, ControlTypes, haltVars
  <2>3. QED
    BY <1>1, <2>2 DEF TypeOK, ControlTypes, ZoneTypesOK
<1>5. CASE Join
  <2>1. result' \in Results
    BY <1>0, <1>5, StepsDoneExact DEF Join, ControlTypes, Results
  <2>2. ControlTypes'
    BY <1>0, <1>5, <2>1 DEF Join, ControlTypes, haltVars
  <2>3. QED
    BY <1>1, <2>2 DEF TypeOK, ControlTypes, ZoneTypesOK
<1>6. QED
  BY <1>2, <1>3, <1>4, <1>5 DEF MainStep

LEMMA ArrivalIsPosition ==
  ASSUME TypeOK, NEW k \in Nodes, AwaitsArrival(k)
  PROVE  loc[k].arrived \in Zones
<1>1. loc[k].arrived \in 0 .. N /\ loc[k].pos \in Zones
  BY DEF TypeOK, PassStates
<1>2. QED
  BY <1>1, ZonesFacts DEF AwaitsArrival, LastNeeded, Zones

LEMMA TakeArrivalType ==
  ASSUME TypeOK, NEW k \in Nodes, AwaitsArrival(k), NEW m \in Messages,
         TakeArrival(k, m)
  PROVE  loc' \in [Nodes -> PassStates]
<1>1. loc \in [Nodes -> PassStates]
  BY DEF TypeOK
<1>2. Accept(k, m) \in PassStates
  BY AcceptType, ArrivalIsPosition
<1>3. loc' = loc \/ loc' = [loc EXCEPT ![k] = Accept(k, m)]
  BY DEF TakeArrival
<1>4. QED
  BY <1>1, <1>2, <1>3

LEMMA TailType ==
  ASSUME NEW p \in PassStates, p.outq # <<>>
  PROVE  /\ Head(p.outq) \in Zones
         /\ [p EXCEPT !.outq = Tail(@)] \in PassStates
<1>1. p.outq \in Seq(Zones)
  BY DEF PassStates
<1>2. Head(p.outq) \in Zones /\ Tail(p.outq) \in Seq(Zones)
  BY <1>1, HeadTailProperties
<1>3. QED
  BY <1>2 DEF PassStates

LEMMA ZoneTypesNode ==
  ASSUME ControlInv, NEW k \in Nodes, NodeStep(k)
  PROVE  ZoneTypesOK'
<1>0. /\ TypeOK /\ ZoneTypesOK /\ loc[k] \in PassStates /\ pass[k] \in Nat
      /\ pc \in [Nodes -> NodePoints]
  BY TypeParts DEF ControlInv, TypeOK
<1> DEFINE p == loc[k]
<1>1. CASE UNCHANGED <<loc, chan, final, level>>
  BY <1>0, <1>1 DEF ZoneTypesOK
<1>2. CASE StartPass(k)
  <2>1. FreshPass(pass[k]) \in PassStates
    BY <1>0, FreshPassType
  <2>2. loc' \in [Nodes -> PassStates]
    BY <1>0, <1>2, <2>1 DEF StartPass, ZoneTypesOK
  <2>3. QED
    BY <1>0, <1>2, <2>2 DEF StartPass, ZoneTypesOK
<1>3. CASE TakePreload(k)
  <2>1. MakePreload(p.arrived) \in Messages /\ AwaitsArrival(k)
    BY <1>0, <1>3, ArrivalIsPosition, PreloadType DEF TakePreload
  <2>2. loc' \in [Nodes -> PassStates]
    BY <1>0, <1>3, <2>1, TakeArrivalType DEF TakePreload
  <2>3. QED
    BY <1>0, <1>3, <2>2 DEF TakePreload, ZoneTypesOK
<1>4. CASE RecvZone(k)
  <2> DEFINE e == InEdge(k)
  <2>1. /\ AwaitsArrival(k) /\ chan[e] # <<>> /\ TakeArrival(k, Head(chan[e]))
        /\ chan' = [chan EXCEPT ![e] = Tail(@)]
        /\ UNCHANGED <<final, level>>
    BY <1>4 DEF RecvZone
  <2>2. chan[e] \in Seq(Messages)
    BY <1>0, EdgesAreNodes DEF ZoneTypesOK
  <2>3. Head(chan[e]) \in Messages /\ Tail(chan[e]) \in Seq(Messages)
    BY <2>1, <2>2, HeadTailProperties
  <2>4. loc' \in [Nodes -> PassStates]
    BY <1>0, <2>1, <2>3, TakeArrivalType
  <2>5. chan' \in [Nodes -> Seq(Messages)]
    BY <1>0, <2>1, <2>3 DEF ZoneTypesOK
  <2>6. QED
    BY <1>0, <2>1, <2>4, <2>5 DEF ZoneTypesOK
<1>5. CASE RecvDone(k)
  <2>1. loc' = [loc EXCEPT ![k] = [p EXCEPT !.op = 2]]
    BY <1>5 DEF RecvDone
  <2>2. [p EXCEPT !.op = 2] \in PassStates
    BY <1>0, OpUpdateTypes
  <2>3. loc' \in [Nodes -> PassStates]
    BY <1>0, <2>1, <2>2 DEF ZoneTypesOK
  <2>4. QED
    BY <1>0, <1>5, <2>3 DEF RecvDone, ZoneTypesOK
<1>6. CASE SendZone(k) /\ ~UNCHANGED <<loc, chan>>
  <2> DEFINE j == Head(p.outq)
             e == OutEdge(k)
             sl == [p.slot EXCEPT ![j] = SentSlot(@)]
             q == [p EXCEPT !.outq = Tail(@)]
             r == [q EXCEPT !.sent = @ + 1]
  <2>1. /\ p.outq # <<>> /\ UNCHANGED <<final, level>>
        /\ chan' = IF EdgeDown(e) THEN chan
                   ELSE [chan EXCEPT ![e] = Append(@, OutMessage(k))]
        /\ loc' = [loc EXCEPT ![k].outq = Tail(@), ![k].sent = @ + 1,
                              ![k].slot[j] = SentSlot(@)]
    BY <1>6 DEF SendZone
  <2>2. chan' \in [Nodes -> Seq(Messages)]
    <3>1. OutMessage(k) \in Messages
      BY <1>0, <2>1, OutMessageType
    <3>2. chan[e] \in Seq(Messages)
      BY <1>0, EdgesAreNodes DEF ZoneTypesOK
    <3>3. Append(chan[e], OutMessage(k)) \in Seq(Messages)
      BY <3>1, <3>2, AppendProperties
    <3>4. QED
      BY <1>0, <2>1, <3>3 DEF ZoneTypesOK
  <2>3. j \in Zones /\ q \in PassStates
    BY <1>0, <2>1, TailType
  <2>4. sl \in [Zones -> Slots]
    BY <1>0, <2>3, SentSlotType DEF PassStates
  <2>5. r \in PassStates
    <3>1. q.sent + 1 \in Nat
      BY <2>3 DEF PassStates
    <3>2. QED
      BY <2>3, <3>1, PassUpdateTypes
  <2>6. [r EXCEPT !.slot = sl] \in PassStates
    BY <2>4, <2>5, PassUpdateTypes
  <2>7. loc' = [loc EXCEPT ![k] = [r EXCEPT !.slot = sl]]
    BY <1>0, <2>1 DEF PassStates, ZoneTypesOK
  <2>8. loc' \in [Nodes -> PassStates]
    BY <1>0, <2>6, <2>7 DEF ZoneTypesOK
  <2>9. QED
    BY <1>0, <2>1, <2>2, <2>8 DEF ZoneTypesOK
<1>7. CASE CollectZone(k)
  <2> DEFINE j == Head(p.outq)
             sl == [p.slot EXCEPT ![j] = MovedOut(@)]
             q == [p EXCEPT !.outq = Tail(@)]
  <2>1. /\ p.outq # <<>> /\ UNCHANGED <<chan, level>>
        /\ final' = [final EXCEPT ![p.slot[j].zone] = p.slot[j].body]
        /\ loc' = [loc EXCEPT ![k].outq = Tail(@), ![k].slot[j] = MovedOut(@)]
    BY <1>7 DEF CollectZone
  <2>2. j \in Zones /\ q \in PassStates
    BY <1>0, <2>1, TailType
  <2>3. p.slot[j] \in Slots /\ sl \in [Zones -> Slots]
    BY <1>0, <2>2, MovedOutType DEF PassStates
  <2>4. final' \in [Zones -> Bodies]
    BY <1>0, <2>1, <2>3 DEF ZoneTypesOK, Slots
  <2>5. [q EXCEPT !.slot = sl] \in PassStates
    BY <2>2, <2>3, PassUpdateTypes
  <2>6. loc' = [loc EXCEPT ![k] = [q EXCEPT !.slot = sl]]
    BY <1>0, <2>1 DEF PassStates, ZoneTypesOK
  <2>7. QED
    BY <1>0, <2>1, <2>4, <2>5, <2>6 DEF ZoneTypesOK
<1>8. CASE FlushDone(k) /\ ~UNCHANGED loc
  <2>1. loc' = [loc EXCEPT ![k] = [p EXCEPT !.op = 2]]
    BY <1>8 DEF FlushDone
  <2>2. [p EXCEPT !.op = 2] \in PassStates
    BY <1>0, OpUpdateTypes
  <2>3. loc' \in [Nodes -> PassStates]
    BY <1>0, <2>1, <2>2 DEF ZoneTypesOK
  <2>4. QED
    BY <1>0, <1>8, <2>3 DEF FlushDone, ZoneTypesOK
<1>9. CASE ComputeZone(k) /\ ~UNCHANGED loc
  <2> DEFINE q == [p EXCEPT !.slot = ComputedSlots(p)]
  <2>1. loc' = [loc EXCEPT ![k] = q] \/ loc' = [loc EXCEPT ![k] = NextPosition(q)]
    BY <1>9 DEF ComputeZone
  <2>2. q \in PassStates
    BY <1>0, ComputedSlotsType, PassUpdateTypes
  <2>3. NextPosition(q) \in PassStates
    BY <2>2, NextPositionType
  <2>4. loc' \in [Nodes -> PassStates]
    BY <1>0, <2>1, <2>2, <2>3 DEF ZoneTypesOK
  <2>5. QED
    BY <1>0, <1>9, <2>4 DEF ComputeZone, ZoneTypesOK
<1>10. CASE EndZone(k) /\ ~UNCHANGED <<loc, level>>
  <2> DEFINE j == EndPosition(k)
             q == EndedPass(p, j)
  <2>1. /\ loc' = [loc EXCEPT ![k] = q] \/ loc' = [loc EXCEPT ![k] = NextPosition(q)]
        /\ level' = [level EXCEPT ![p.slot[j].zone] = pass[k]]
        /\ UNCHANGED <<chan, final>>
    BY <1>10 DEF EndZone
  <2>2. j \in Zones
    BY <1>0, ZonesFacts DEF EndPosition, PassStates
  <2>3. q \in PassStates /\ NextPosition(q) \in PassStates
    BY <1>0, <2>2, EndedPassType, NextPositionType
  <2>4. loc' \in [Nodes -> PassStates]
    BY <1>0, <2>1, <2>3 DEF ZoneTypesOK
  <2>5. level' \in [Zones -> Nat]
    BY <1>0, <2>1 DEF ZoneTypesOK
  <2>6. QED
    BY <1>0, <2>1, <2>4, <2>5 DEF ZoneTypesOK
<1>11. CASE \/ NodeReturns(k) \/ RecvShutDown(k) \/ FlushSeesHalt(k)
            \/ HaltCheck(k) \/ NodeFault(k) \/ RecordPass(k) \/ CloseEdge(k)
  <2>1. UNCHANGED <<loc, chan, final, level>>
    BY <1>11 DEF NodeReturns, RecvShutDown, FlushSeesHalt, HaltCheck, NodeFault,
                 RecordPass, CloseEdge
  <2>2. QED
    BY <1>1, <2>1
<1>12. CASE /\ SendZone(k) \/ FlushDone(k) \/ ComputeZone(k) \/ EndZone(k)
            /\ UNCHANGED <<loc, chan, level>>
  <2>1. UNCHANGED final
    BY <1>12 DEF SendZone, FlushDone, ComputeZone, EndZone
  <2>2. QED
    BY <1>1, <1>12, <2>1
<1>13. /\ FlushDone(k) => UNCHANGED <<chan, level>>
       /\ ComputeZone(k) => UNCHANGED <<chan, level>>
       /\ EndZone(k) => UNCHANGED chan
       /\ SendZone(k) => UNCHANGED level
  BY DEF FlushDone, ComputeZone, EndZone, SendZone
<1>14. QED
  BY <1>2, <1>3, <1>4, <1>5, <1>6, <1>7, <1>8, <1>9, <1>10, <1>11, <1>12, <1>13
     DEF NodeStep

-----------------------------------------------------------------------------
(* Theorems.                                                                 *)

LEMMA ControlStep == ControlInv /\ [Next]_vars => ControlInv'
<1> SUFFICES ASSUME ControlInv, [Next]_vars PROVE ControlInv'
  OBVIOUS
<1>1. CASE MainStep
  BY <1>1, TypeMain, ControlMain DEF ControlInv
<1>2. ASSUME NEW k \in Nodes, NodeStep(k)
      PROVE  ControlInv'
  <2>1. TypeOK'
    BY <1>2, ControlTypesNode, ZoneTypesNode DEF TypeOK, ControlTypes, ZoneTypesOK
  <2>2. QED
    BY <1>2, <2>1, ControlNode DEF ControlInv
<1>3. CASE UNCHANGED vars
  BY <1>3 DEF ControlInv, TypeOK, SpawnInv, HaltInv, HaltOn, vars, haltVars, mainVars
<1>4. QED
  BY <1>1, <1>2, <1>3 DEF Next, Returned

LEMMA ControlAlways == Spec => []ControlInv
BY ControlInit, ControlStep, PTL DEF Spec

\* Type correctness: every variable of the ring stays in its type, so no node
\* ever indexes a slot, an edge or a zone that does not exist.
THEOREM TypeCorrect == Spec => []TypeOK
BY ControlAlways, PTL DEF ControlInv

LEMMA HaltStepWins ==
  ASSUME ControlInv, Next
  PROVE  (HaltOn => UNCHANGED haltVars) /\ (closed' # closed => HaltOn)
<1>1. CASE MainStep
  <2>1. CASE SpawnNode \/ Join
    BY <2>1 DEF SpawnNode, Join
  <2>2. CASE SpawnFails
    BY <2>2 DEF SpawnFails
  <2>3. CASE MainClosesEdge
    BY <2>3 DEF MainClosesEdge, ControlInv, HaltInv
  <2>4. QED
    BY <1>1, <2>1, <2>2, <2>3 DEF MainStep
<1>2. ASSUME NEW k \in Nodes, NodeStep(k)
      PROVE  (HaltOn => UNCHANGED haltVars) /\ (closed' # closed => HaltOn)
  <2>1. CASE Quiet(k)
    BY <2>1 DEF Quiet
  <2>2. CASE Raises(k)
    BY <2>2 DEF Raises, SetHalt
  <2>3. CASE RecordPass(k)
    BY <2>3 DEF RecordPass
  <2>4. CASE CloseEdge(k)
    BY <2>4 DEF CloseEdge, ControlInv, HaltInv
  <2>5. QED
    BY <1>2, <2>1, <2>2, <2>3, <2>4, NodeStepKinds DEF ControlInv
<1>3. CASE Returned
  BY <1>3 DEF Returned, vars, haltVars
<1>4. QED
  BY <1>1, <1>2, <1>3 DEF Next

\* The first halt wins, for every number of nodes, zones and passes and every
\* mix of faults: set_halt's compare-and-swap keeps the first kind and pass, and
\* shutdown() closes no edge before a halt was raised.
THEOREM FirstHaltStays == Spec => FirstHaltWins
<1>1. ControlInv /\ [Next]_vars
        => [(HaltOn => UNCHANGED haltVars) /\ (closed' # closed => HaltOn)]_vars
  BY HaltStepWins
<1>2. QED
  BY <1>1, ControlAlways, PTL DEF Spec, FirstHaltWins

-----------------------------------------------------------------------------
(* The pass that raised the halt has no record.  Its node recorded only       *)
(* earlier passes and left the loop; no other node runs that pass, because    *)
(* the node of a pass is the remainder of its number by Z.                    *)

PassOf(k, h) == \E q \in Nat : h = k + 1 + q * Z

PassInv ==
  /\ \A k \in Nodes : PassOf(k, pass[k])
  /\ \A k \in Nodes : pc[k] \in Working => pass[k] <= Steps
  /\ \A h \in Passes :
       Recorded(h) => \A k \in Nodes : PassOf(k, h) => h < pass[k]

HaltedInv ==
  haltPass # 0 =>
    /\ haltPass \in Passes
    /\ \E k \in Nodes : pc[k] \in {"closing", "done"} /\ pass[k] = haltPass

ReturnInv ==
  /\ main # "returned" => result = NoResult
  /\ main = "returned" =>
       /\ \A k \in Nodes : pc[k] \in {"unborn", "done"}
       /\ haltPass # 0 => result.steps_done < haltPass

RecordInv == PassInv /\ HaltedInv /\ ReturnInv

LEMMA Multiples ==
  ASSUME NEW a \in Nat, NEW b \in Nat, a < b
  PROVE  b * Z - a * Z >= Z
<1>1. b - a - 1 \in Nat /\ Z \in Nat
  BY ZonesFacts
<1>2. (b - a - 1) * Z >= 0
  BY <1>1
<1>3. (b - a - 1) * Z = b * Z - a * Z - Z
  BY <1>1
<1>4. QED
  BY <1>1, <1>2, <1>3

LEMMA OneNodePerPass ==
  ASSUME NEW k \in Nodes, NEW l \in Nodes, NEW h, PassOf(k, h), PassOf(l, h)
  PROVE  k = l
<1>1. PICK a \in Nat : h = k + 1 + a * Z
  BY DEF PassOf
<1>2. PICK b \in Nat : h = l + 1 + b * Z
  BY DEF PassOf
<1>3. /\ k \in Int /\ l \in Int /\ Z \in Nat /\ a * Z \in Int /\ b * Z \in Int
      /\ 0 <= k /\ k < Z /\ 0 <= l /\ l < Z
  BY ZonesFacts DEF Nodes
<1>4. k - l = b * Z - a * Z
  BY <1>1, <1>2, <1>3
<1>5. CASE a < b
  BY <1>3, <1>4, <1>5, Multiples
<1>6. CASE b < a
  BY <1>3, <1>4, <1>6, Multiples
<1>7. CASE a = b
  BY <1>3, <1>4, <1>7
<1>8. QED
  BY <1>5, <1>6, <1>7

LEMMA UnrecordedHalt ==
  ASSUME PassInv, HaltedInv, haltPass # 0
  PROVE  ~Recorded(haltPass)
<1>1. PICK k \in Nodes : pass[k] = haltPass
  BY DEF HaltedInv
<1>2. haltPass \in Passes /\ PassOf(k, haltPass)
  BY <1>1 DEF HaltedInv, PassInv
<1>3. Recorded(haltPass) => haltPass < haltPass
  BY <1>1, <1>2 DEF PassInv
<1>4. QED
  BY <1>2, <1>3, ZonesFacts DEF Passes

LEMMA RecordInit == Init => RecordInv
<1> SUFFICES ASSUME Init PROVE RecordInv
  OBVIOUS
<1>1. \A k \in Nodes : PassOf(k, pass[k])
  <2> TAKE k \in Nodes
  <2>1. pass[k] = k + 1 + 0 * Z
    BY ZonesFacts DEF Init, Nodes
  <2>2. QED
    BY <2>1 DEF PassOf
<1>2. QED
  BY <1>1 DEF Init, RecordInv, PassInv, HaltedInv, ReturnInv, Working, Recorded

LEMMA RecordNode ==
  ASSUME ControlInv, RecordInv, NEW k \in Nodes, NodeStep(k)
  PROVE  RecordInv'
<1>0. /\ pc \in [Nodes -> NodePoints] /\ pass \in [Nodes -> Nat]
      /\ stats \in [Passes -> PassRecords] /\ TypeOK
      /\ Steps \in Nat \ {0} /\ Z \in Nat \ {0}
  BY ZonesFacts DEF ControlInv, TypeOK
<1>1. pc[k] \notin {"unborn", "done"} /\ main # "returned"
  <2>1. pc[k] \notin {"unborn", "done"}
    BY <1>0, NodeStepKinds DEF Quiet, Raises, RecordPass, CloseEdge, Working
  <2>2. QED
    BY <2>1 DEF RecordInv, ReturnInv
<1>2. UNCHANGED <<main, result>>
  BY <1>0, NodeStepKinds DEF Quiet, Raises, RecordPass, CloseEdge, mainVars
<1>3. ReturnInv'
  BY <1>1, <1>2 DEF RecordInv, ReturnInv
<1>4. CASE Quiet(k)
  <2>1. PICK x \in Working \cup {"done"} :
          Goto(k, x) /\ (x = "done" \/ pc[k] \in Working \/ pass[k] <= Steps)
    BY <1>4 DEF Quiet
  <2>2. UNCHANGED <<pass, haltPass, stats>> /\ pc[k] \notin {"closing", "done"}
    BY <1>4 DEF Quiet, haltVars, Working
  <2>3. PassInv'
    BY <1>0, <2>1, <2>2 DEF RecordInv, PassInv, Recorded, Goto, Working
  <2>4. HaltedInv'
    BY <1>0, <2>1, <2>2 DEF RecordInv, HaltedInv, Goto
  <2>5. QED
    BY <1>3, <2>3, <2>4 DEF RecordInv
<1>5. CASE Raises(k)
  <2>1. PICK kind \in HaltKinds \ {"None"} : SetHalt(k, kind)
    BY <1>5 DEF Raises
  <2>2. UNCHANGED <<pass, stats>> /\ pc[k] \in Working
    BY <1>5 DEF Raises
  <2>3. PICK x \in {"done", "closing"} : Goto(k, x)
    BY <2>1 DEF SetHalt
  <2>4. PassInv'
    BY <1>0, <2>2, <2>3 DEF RecordInv, PassInv, Recorded, Goto, Working
  <2>5. HaltedInv'
    <3>1. CASE HaltOn
      <4>1. UNCHANGED haltPass
        BY <2>1, <3>1 DEF SetHalt, haltVars
      <4>2. QED
        BY <1>0, <2>2, <2>3, <4>1 DEF RecordInv, HaltedInv, Goto, Working
    <3>2. CASE ~HaltOn
      <4>1. haltPass' = pass[k] /\ Goto(k, "closing")
        BY <2>1, <3>2 DEF SetHalt
      <4>2. pass'[k] = haltPass' /\ pc'[k] = "closing"
        BY <1>0, <2>2, <4>1 DEF Goto
      <4>3. pass[k] <= Steps
        BY <2>2 DEF RecordInv, PassInv
      <4>4. QED
        BY <1>0, <4>1, <4>2, <4>3 DEF HaltedInv, Passes
    <3>3. QED
      BY <3>1, <3>2
  <2>6. QED
    BY <1>3, <2>4, <2>5 DEF RecordInv
<1>6. CASE RecordPass(k)
  <2>1. /\ pc[k] = "record" /\ Goto(k, "loop")
        /\ pass' = [pass EXCEPT ![k] = @ + Z]
        /\ stats' = [stats EXCEPT ![pass[k]] = [dt |-> loc[k].dt, agg |-> loc[k].agg]]
        /\ UNCHANGED haltPass
    BY <1>6 DEF RecordPass, haltVars
  <2>2. \A l \in Nodes : PassOf(l, pass'[l])
    <3> TAKE l \in Nodes
    <3>1. PICK q \in Nat : pass[l] = l + 1 + q * Z
      BY DEF RecordInv, PassInv, PassOf
    <3>2. (q + 1) * Z = q * Z + Z
      BY <1>0
    <3>3. l \in Int /\ q * Z \in Int
      BY <1>0 DEF Nodes
    <3>4. pass[l] + Z = l + 1 + (q + 1) * Z
      BY <1>0, <3>1, <3>2, <3>3
    <3>5. pass'[l] = pass[l] \/ pass'[l] = pass[l] + Z
      BY <1>0, <2>1
    <3>6. q + 1 \in Nat
      OBVIOUS
    <3>7. QED
      BY <3>1, <3>4, <3>5, <3>6, Zenon DEF PassOf
  <2>3. \A l \in Nodes : pc'[l] \in Working => pass'[l] <= Steps
    BY <1>0, <2>1 DEF RecordInv, PassInv, Goto, Working
  <2>4. \A h \in Passes : Recorded(h)' => \A l \in Nodes : PassOf(l, h) => h < pass'[l]
    <3> SUFFICES ASSUME NEW h \in Passes, Recorded(h)', NEW l \in Nodes, PassOf(l, h)
                 PROVE  h < pass'[l]
      OBVIOUS
    <3>0. pass[l] \in Nat /\ pass'[l] \in Nat /\ pass'[l] >= pass[l] /\ h \in Nat
      BY <1>0, <2>1 DEF Passes
    <3>1. CASE h = pass[k]
      <4>1. l = k
        BY <3>1, OneNodePerPass DEF RecordInv, PassInv
      <4>2. pass'[k] = pass[k] + Z
        BY <1>0, <2>1
      <4>3. pass[k] \in Nat /\ Z \in Nat /\ Z > 0
        BY <1>0
      <4>4. pass[k] < pass'[k]
        BY <4>2, <4>3
      <4>5. QED
        BY <3>1, <4>1, <4>4
    <3>2. CASE h # pass[k]
      <4>1. Recorded(h)
        BY <1>0, <2>1, <3>2 DEF Recorded
      <4>2. h < pass[l]
        BY <4>1 DEF RecordInv, PassInv
      <4>3. QED
        BY <3>0, <4>2
    <3>3. QED
      BY <3>1, <3>2
  <2>5. PassInv'
    BY <2>2, <2>3, <2>4 DEF PassInv, PassOf
  <2>6. HaltedInv'
    BY <1>0, <2>1 DEF RecordInv, HaltedInv, Goto
  <2>7. QED
    BY <1>3, <2>5, <2>6 DEF RecordInv
<1>7. CASE CloseEdge(k)
  <2>1. /\ pc[k] = "closing" /\ UNCHANGED <<pass, haltPass, stats>>
        /\ \E x \in {"done", "closing"} : Goto(k, x)
    BY <1>7 DEF CloseEdge, haltVars
  <2>2. PassInv'
    BY <1>0, <2>1 DEF RecordInv, PassInv, Recorded, Goto, Working
  <2>3. HaltedInv'
    BY <1>0, <2>1 DEF RecordInv, HaltedInv, Goto
  <2>4. QED
    BY <1>3, <2>2, <2>3 DEF RecordInv
<1>8. QED
  BY <1>0, <1>4, <1>5, <1>6, <1>7, NodeStepKinds

LEMMA RecordMain ==
  ASSUME ControlInv, RecordInv, MainStep
  PROVE  RecordInv'
<1>0. /\ pc \in [Nodes -> NodePoints] /\ born \in 0 .. Z /\ Z \in Nat \ {0}
      /\ UNCHANGED <<pass, stats>>
  BY ZonesFacts
     DEF ControlInv, TypeOK, MainStep, SpawnNode, SpawnFails, MainClosesEdge, Join
<1>1. CASE SpawnNode
  <2>1. /\ main = "spawn" /\ main' # "returned" /\ Goto(born, "loop")
        /\ UNCHANGED <<haltPass, result>>
    BY <1>1 DEF SpawnNode, haltVars
  <2>2. born \in Nodes /\ pc[born] = "unborn"
    BY <1>0, <2>1 DEF ControlInv, SpawnInv, Nodes
  <2>3. QED
    BY <1>0, <2>1, <2>2
       DEF RecordInv, PassInv, HaltedInv, ReturnInv, Recorded, Goto, Working
<1>2. CASE SpawnFails
  <2>1. /\ main = "spawn" /\ main' # "returned" /\ UNCHANGED <<pc, result>>
        /\ haltPass' = haltPass \/ haltPass' = 0
    BY <1>2 DEF SpawnFails, haltVars
  <2>2. QED
    BY <1>0, <2>1 DEF RecordInv, PassInv, HaltedInv, ReturnInv, Recorded
<1>3. CASE MainClosesEdge
  <2>1. /\ main = "closing" /\ main' # "returned"
        /\ UNCHANGED <<pc, haltPass, result>>
    BY <1>3 DEF MainClosesEdge, haltVars
  <2>2. QED
    BY <1>0, <2>1 DEF RecordInv, PassInv, HaltedInv, ReturnInv, Recorded
<1>4. CASE Join
  <2>1. /\ main' = "returned" /\ UNCHANGED <<pc, haltPass>>
        /\ \A k \in 0 .. born - 1 : pc[k] = "done"
        /\ result'.steps_done = IF HaltOn THEN StepsDone ELSE Steps
    BY <1>4 DEF Join, haltVars
  <2>2. PassInv' /\ HaltedInv'
    BY <1>0, <2>1 DEF RecordInv, PassInv, HaltedInv, Recorded
  <2>3. \A k \in Nodes : pc'[k] \in {"unborn", "done"}
    BY <1>0, <2>1 DEF ControlInv, SpawnInv, Nodes
  <2>4. haltPass # 0 => StepsDone < haltPass /\ HaltOn
    <3> SUFFICES ASSUME haltPass # 0 PROVE StepsDone < haltPass /\ HaltOn
      OBVIOUS
    <3>1. ~Recorded(haltPass) /\ haltPass \in Passes
      BY UnrecordedHalt DEF RecordInv, HaltedInv
    <3>2. HaltOn
      BY DEF ControlInv, HaltInv
    <3>3. QED
      BY <3>1, <3>2, StepsDoneExact, ZonesFacts DEF Passes
  <2>5. ReturnInv'
    BY <2>1, <2>3, <2>4 DEF ReturnInv
  <2>6. QED
    BY <2>2, <2>5 DEF RecordInv
<1>5. QED
  BY <1>1, <1>2, <1>3, <1>4 DEF MainStep

LEMMA RecordStep == ControlInv /\ RecordInv /\ [Next]_vars => RecordInv'
<1> SUFFICES ASSUME ControlInv, RecordInv, [Next]_vars PROVE RecordInv'
  OBVIOUS
<1>1. CASE UNCHANGED vars
  BY <1>1 DEF RecordInv, PassInv, HaltedInv, ReturnInv, Recorded, vars, haltVars, mainVars
<1>2. QED
  BY <1>1, RecordNode, RecordMain DEF Next, Returned

\* A halted run never counts the pass that halted: whatever the interleaving,
\* stats_[h] of that pass stays empty and steps_done stops short of it.
THEOREM HaltedPassNotCounted == Spec => []HaltedPassUnrecorded
<1>1. ControlInv /\ RecordInv => HaltedPassUnrecorded
  <2> SUFFICES ASSUME ControlInv, RecordInv, haltPass # 0
               PROVE  ~Recorded(haltPass) /\ result.steps_done < haltPass
    BY DEF HaltedPassUnrecorded
  <2>1. ~Recorded(haltPass) /\ haltPass \in Passes
    BY UnrecordedHalt DEF RecordInv, HaltedInv
  <2>2. result.steps_done < haltPass
    BY <2>1, ZonesFacts DEF RecordInv, ReturnInv, NoResult, Passes
  <2>3. QED
    BY <2>1, <2>2
<1>2. QED
  BY <1>1, RecordInit, RecordStep, ControlAlways, PTL DEF Spec

-----------------------------------------------------------------------------
(* What a pass looks like while a node works on it: the part of the          *)
(* inductive invariant that speaks of the locals of run_pass.  A pass is     *)
(* described by three counters: c positions are computed, e have ended, l    *)
(* have left the node.                                                       *)

Untouched(s, h) ==
  /\ s.fsm.type = "d" /\ s.fsm.contrib_mask = {} /\ ~s.drifted
  /\ s.body = CompleteBody(s.zone, h - 1)
\* Drifted in pass h, with the pairs with the positions in A counted.
Moved(s, h, A, mask) ==
  /\ s.drifted /\ s.body.x = h /\ s.body.v = 2 * h - 1
  /\ s.acc = LedgerOf(h, A)
  /\ s.fsm.contrib_mask = mask
Drifted(s, i, h, c) == Moved(s, h, CountedOn(i, c), MaskAt(i, c))
Placed(s, i, h) == s.zone = ZoneAt(h, i) /\ s.lam = FullLambda(Lag(h + i))

\* The slot of an arrived position i.
SlotShape(s, i, h, c, e, l) ==
  /\ Placed(s, i, h)
  /\ i < c => s.computed
  /\ s.owned <=> l <= Rank(i)
  /\ i > c \/ (i = c /\ i = 0) => Untouched(s, h)
  /\ i = c /\ i > 0 => s.fsm.type = "w" /\ Drifted(s, i, h, c)
  /\ i < c /\ e <= Rank(i) => s.fsm.type = "c" /\ Drifted(s, i, h, c)
  /\ Rank(i) < e /\ l <= Rank(i) => s.fsm.type = "p" /\ s.body = CompleteBody(s.zone, h)

Counters(p, c, e, l) ==
  /\ c \in 0 .. N /\ e \in 0 .. N /\ l \in 0 .. e
  /\ \A i \in Zones : Rank(i) < e => i < c
  /\ c = N => p.arrived = N
  /\ c \in 1 .. N - 1 => p.arrived > c

SlotsShape(p, h, c, e, l) ==
  \A i \in Zones : IF i < p.arrived THEN SlotShape(p.slot[i], i, h, c, e, l)
                   ELSE ~p.slot[i].owned

QueueShape(p, h, e, l) ==
  /\ Len(p.outq) = e - l
  /\ \A q \in 1 .. e - l : p.outq[q] = Order(l + q - 1)
  /\ h < Steps => p.sent = l

DataShape(p, h, e) ==
  /\ p.arrived > 0 => p.dt = ScheduledDt(h)
  /\ p.arrived > ForecastPosition => p.rbuf = FullLambda(Lag(h + ForecastPosition))
  /\ p.agg = [pass |-> h, zones |-> ZonesAt(h, {i \in Zones : Rank(i) < e})]

PassShape(p, h, c, e, l) ==
  /\ Counters(p, c, e, l)
  /\ SlotsShape(p, h, c, e, l)
  /\ QueueShape(p, h, e, l)
  /\ DataShape(p, h, e)

\* How many positions are computed and ended at a control point.
NumComputed(point, j) ==
  IF point \in {"io", "check", "compute"} THEN j
  ELSE IF point = "end" THEN j + 1 ELSE N
NumEnded(point, j) ==
  IF point \in {"flush", "record"} THEN N
  ELSE IF point = "endhead" THEN N - 1
  ELSE IF DeferHead /\ j > 0 THEN j - 1 ELSE j
NumLeft(point, p) == NumEnded(point, p.pos) - Len(p.outq)

PointShape(point, p) ==
  /\ point = "end" /\ DeferHead => p.pos > 0
  /\ point = "endhead" => DeferHead /\ p.pos = N - 1
  /\ point = "record" => p.outq = <<>>

\* The locals p of a node that is at a control point of pass h.
WorkShape(point, p, h) ==
  /\ h \in Passes
  /\ PointShape(point, p)
  /\ PassShape(p, h, NumComputed(point, p.pos), NumEnded(point, p.pos),
               NumLeft(point, p))

WorkInv == \A k \in Nodes : pc[k] \in Working => WorkShape(pc[k], loc[k], pass[k])

\* Two states of a slot that differ in its forces and its motion only.
SameTag(s, t) ==
  /\ s.zone = t.zone /\ s.lam = t.lam /\ s.owned = t.owned
  /\ s.fsm = t.fsm /\ s.computed = t.computed

LEMMA DriftUntouched ==
  ASSUME NEW s \in Slots, NEW h \in Nat \ {0}, Untouched(s, h)
  PROVE  /\ Drift(s).drifted /\ Drift(s).body.x = h /\ Drift(s).body.v = 2 * h - 1
         /\ Drift(s).acc = NoForces /\ SameTag(Drift(s), s)
<1> DEFINE b == [s.body EXCEPT !.x = @ + 1, !.v = @ + 1]
<1>1. s.body.x = h - 1 /\ s.body.v = 2 * (h - 1) /\ ~s.drifted
  BY DEF Untouched, CompleteBody
<1>2. b.x = h /\ b.v = 2 * h - 1
  <2>1. b.x = s.body.x + 1 /\ b.v = s.body.v + 1
    BY DEF Slots, Bodies
  <2>2. QED
    BY <1>1, <2>1
<1>3. Drift(s) = [s EXCEPT !.body = b, !.acc = NoForces, !.drifted = TRUE]
  BY <1>1 DEF Drift, Slots, Bodies
<1> HIDE DEF b
<1>4. QED
  BY <1>2, <1>3 DEF Slots, SameTag

\* A zone that is drifted already is left alone.
LEMMA DriftDrifted ==
  ASSUME NEW s, s.drifted
  PROVE  Drift(s) = s
BY DEF Drift

LEMMA Counting ==
  ASSUME NEW s \in Slots, NEW t \in Slots, NEW h \in Nat \ {0},
         NEW A \in SUBSET Zones, NEW b \in Zones, b \notin A,
         s.acc = LedgerOf(h, A), t.zone = ZoneAt(h, b),
         s.owned, t.owned, s.body.x = t.body.x
  PROVE  /\ CountPairs(s, t).acc = LedgerOf(h, A \cup {b})
         /\ CountPairs(s, t).body = s.body /\ CountPairs(s, t).drifted = s.drifted
         /\ SameTag(CountPairs(s, t), s)
<1> DEFINE a == [s.acc EXCEPT ![t.zone] = @ + 1]
<1>1. CountPairs(s, t) = [s EXCEPT !.acc = a]
  <2>1. CountPairs(s, t) = [s EXCEPT !.acc[t.zone] = @ + 1]
    BY DEF CountPairs
  <2>2. QED
    BY <2>1
<1>2. a = LedgerOf(h, A \cup {b})
  <2>1. [LedgerOf(h, A) EXCEPT ![ZoneAt(h, b)] = @ + 1] = LedgerOf(h, A \cup {b})
    BY LedgerAdd
  <2>2. QED
    BY <2>1
<1> HIDE DEF a
<1>3. QED
  BY <1>1, <1>2 DEF Slots, SameTag

LEMMA Starting ==
  ASSUME NEW s \in Slots, NEW j \in Zones, NEW h \in Nat \ {0},
         NEW A \in SUBSET Zones, j \notin A,
         s.acc = LedgerOf(h, A), s.zone = ZoneAt(h, j), s.owned
  PROVE  /\ StartZone(s, j).acc = LedgerOf(h, A \cup {j})
         /\ StartZone(s, j).body = s.body /\ StartZone(s, j).drifted = s.drifted
         /\ StartZone(s, j).zone = s.zone /\ StartZone(s, j).lam = s.lam
         /\ StartZone(s, j).owned /\ StartZone(s, j).computed
         /\ StartZone(s, j).fsm.type = "c"
         /\ StartZone(s, j).fsm.contrib_mask = s.fsm.contrib_mask
<1> DEFINE u == CountPairs(s, s)
           seeded == IF j = 0 THEN SeedFirstZone(s.fsm) ELSE s.fsm
           g == Apply(seeded, "START")
<1>1. /\ u.acc = LedgerOf(h, A \cup {j}) /\ u.body = s.body /\ u.drifted = s.drifted
      /\ SameTag(u, s)
  BY Counting
<1>2. u \in Slots
  BY CountPairsType
<1>3. StartZone(s, j) = [u EXCEPT !.fsm = g, !.computed = TRUE]
  BY DEF StartZone
<1>4. g.type = "c" /\ g.contrib_mask = s.fsm.contrib_mask
  BY DEF Apply, Target, SeedFirstZone
<1>5. QED
  BY <1>1, <1>2, <1>3, <1>4 DEF Slots, SameTag

LEMMA Taking ==
  ASSUME NEW s \in Slots, s.fsm.contrib_mask = {}
  PROVE  /\ TakeSphere(s).fsm.type = "w" /\ TakeSphere(s).fsm.contrib_mask = {"prev"}
         /\ TakeClosure(s).fsm.type = s.fsm.type
         /\ TakeClosure(s).fsm.contrib_mask = {"closure"}
         /\ \A u \in {TakeSphere(s), TakeClosure(s)} :
              /\ u.zone = s.zone /\ u.lam = s.lam /\ u.owned = s.owned
              /\ u.computed = s.computed /\ u.drifted = s.drifted
              /\ u.body = s.body /\ u.acc = s.acc
<1> DEFINE g == Contribute(Apply(s.fsm, "SPHERE"), "prev")
           k == Contribute(s.fsm, "closure")
<1>1. s.fsm \in ZoneRecords
  BY DEF Slots
<1>2. g.type = "w" /\ g.contrib_mask = {"prev"}
  BY DEF Contribute, Apply, Target
<1>3. k.type = s.fsm.type /\ k.contrib_mask = {"closure"}
  BY <1>1 DEF Contribute, ZoneRecords
<1>4. TakeSphere(s) = [s EXCEPT !.fsm = g] /\ TakeClosure(s) = [s EXCEPT !.fsm = k]
  BY DEF TakeSphere, TakeClosure
<1>5. QED
  BY <1>2, <1>3, <1>4 DEF Slots

-----------------------------------------------------------------------------
(* The operations of a pass keep its shape.                                  *)

LEMMA FreshShape ==
  ASSUME NEW h \in Passes
  PROVE  PassShape(FreshPass(h), h, 0, 0, 0)
<1> DEFINE p == FreshPass(h)
<1>1. /\ p.arrived = 0 /\ p.slot = [j \in Zones |-> EmptySlot] /\ p.outq = <<>>
      /\ p.sent = 0 /\ p.agg = [pass |-> h, zones |-> {}]
  BY DEF FreshPass
<1>2. \A i \in Zones : Rank(i) \in Nat /\ i \in Nat
  BY OrderFacts, ZonesFacts DEF Zones
<1> HIDE DEF p
<1>3. Counters(p, 0, 0, 0)
  BY <1>1, <1>2, ZonesFacts DEF Counters
<1>4. SlotsShape(p, h, 0, 0, 0)
  BY <1>1, <1>2 DEF SlotsShape, EmptySlot
<1>5. QueueShape(p, h, 0, 0)
  BY <1>1 DEF QueueShape
<1>6. DataShape(p, h, 0)
  <2>1. {i \in Zones : Rank(i) < 0} = {}
    BY <1>2
  <2>2. ZonesAt(h, {i \in Zones : Rank(i) < 0}) = {}
    BY <2>1 DEF ZonesAt
  <2>3. ~(p.arrived > 0) /\ ~(p.arrived > ForecastPosition)
    BY <1>1 DEF ForecastPosition
  <2>4. p.agg = [pass |-> h, zones |-> ZonesAt(h, {i \in Zones : Rank(i) < 0})]
    BY <1>1, <2>2
  <2>5. QED
    BY <2>3, <2>4, Zenon DEF DataShape
<1>7. QED
  BY <1>3, <1>4, <1>5, <1>6 DEF PassShape, p

\* The shape does not depend on the position and the transfer a node is at.
LEMMA SameShape ==
  ASSUME NEW p, NEW q, NEW h, NEW c, NEW e, NEW l, PassShape(p, h, c, e, l),
         q.slot = p.slot, q.outq = p.outq, q.sent = p.sent, q.arrived = p.arrived,
         q.dt = p.dt, q.agg = p.agg, q.rbuf = p.rbuf
  PROVE  PassShape(q, h, c, e, l)
<1>1. Counters(q, c, e, l)
  BY DEF PassShape, Counters
<1>2. SlotsShape(q, h, c, e, l)
  BY DEF PassShape, SlotsShape
<1>3. QueueShape(q, h, e, l)
  BY DEF PassShape, QueueShape
<1>4. DataShape(q, h, e)
  BY DEF PassShape, DataShape
<1>5. QED
  BY <1>1, <1>2, <1>3, <1>4 DEF PassShape

LEMMA AcceptShape ==
  ASSUME TypeOK, NEW k \in Nodes, pass[k] \in Passes, loc[k].arrived \in Zones,
         NEW c, NEW e, NEW l, PassShape(loc[k], pass[k], c, e, l),
         NEW m \in Messages,
         m.zone = ZoneAt(pass[k], loc[k].arrived),
         m.body = CompleteBody(m.zone, pass[k] - 1),
         m.lam = FullLambda(Lag(pass[k] + loc[k].arrived)),
         loc[k].arrived = 0 => m.dt = ScheduledDt(pass[k])
  PROVE  PassShape(Accept(k, m), pass[k], c, e, l)
<1> DEFINE p == loc[k]
           h == pass[k]
           a == p.arrived
           q == Accept(k, m)
           s == [EmptySlot EXCEPT !.zone = m.zone, !.fsm = ArrivedZone(k),
                                  !.owned = TRUE, !.body = m.body,
                                  !.lam = m.lam]
<1>1. p \in PassStates
  BY DEF TypeOK
<1>2. /\ q.slot = [p.slot EXCEPT ![a] = s]
      /\ q.arrived = a + 1
      /\ q.dt = IF a = 0 THEN m.dt ELSE p.dt
      /\ q.rbuf = IF a = ForecastPosition THEN m.lam ELSE p.rbuf
      /\ q.outq = p.outq /\ q.sent = p.sent /\ q.agg = p.agg
  BY <1>1 DEF Accept, PassStates
<1>3. /\ s.zone = m.zone /\ s.owned /\ s.body = m.body /\ s.lam = m.lam
      /\ s.drifted = FALSE /\ s.fsm = ArrivedZone(k)
  BY DEF EmptySlot
<1>4. ArrivedZone(k).type = "d" /\ ArrivedZone(k).contrib_mask = {}
  BY DEF ArrivedZone, Apply, Target, FreeZone, InitialZoneType
<1>5. Counters(p, c, e, l) /\ SlotsShape(p, h, c, e, l)
      /\ QueueShape(p, h, e, l) /\ DataShape(p, h, e)
  BY DEF PassShape
<1> HIDE DEF q, s
<1>6. /\ a \in 0 .. N - 1 /\ c \in 0 .. N /\ e \in 0 .. N /\ l \in 0 .. e
      /\ N \in Nat \ {0}
      /\ a > c \/ (a = c /\ a = 0)
  <2>1. a \in 0 .. N - 1 /\ N \in Nat \ {0}
    BY ZonesFacts DEF Zones
  <2>2. QED
    BY <1>5, <2>1 DEF Counters
<1>7. Rank(a) \in Nat /\ Rank(a) >= e
  <2>1. Rank(a) \in Nat /\ (Rank(a) < e => a < c)
    BY <1>5, OrderFacts, ZonesFacts DEF Counters, Zones
  <2>2. QED
    BY <1>6, <2>1
<1>8. Counters(q, c, e, l)
  BY <1>2, <1>5, <1>6 DEF Counters
<1>9. SlotsShape(q, h, c, e, l)
  <2>1. SlotShape(s, a, h, c, e, l)
    <3>1. Untouched(s, h)
      BY <1>3, <1>4 DEF Untouched
    <3>2. s.owned <=> l <= Rank(a)
      BY <1>3, <1>6, <1>7
    <3>3. Placed(s, a, h)
      BY <1>3 DEF Placed
    <3>4. ~(a < c) /\ ~(a = c /\ a > 0) /\ ~(Rank(a) < e)
      BY <1>6, <1>7
    <3>5. QED
      BY <3>1, <3>2, <3>3, <3>4 DEF SlotShape
  <2>2. ASSUME NEW i \in Zones
        PROVE  IF i < q.arrived THEN SlotShape(q.slot[i], i, h, c, e, l)
               ELSE ~q.slot[i].owned
    <3>1. i \in Nat /\ p.slot \in [Zones -> Slots]
      BY <1>1 DEF Zones, PassStates
    <3>2. CASE i = a
      <4>1. q.slot[i] = s /\ i < q.arrived
        BY <1>2, <1>6, <3>1, <3>2
      <4>2. QED
        BY <2>1, <3>2, <4>1
    <3>3. CASE i # a
      <4>1. q.slot[i] = p.slot[i] /\ (i < q.arrived <=> i < a)
        BY <1>2, <1>6, <3>1, <3>3
      <4>2. QED
        BY <1>5, <4>1 DEF SlotsShape
    <3>4. QED
      BY <3>2, <3>3
  <2>3. QED
    BY <2>2 DEF SlotsShape
<1>10. QueueShape(q, h, e, l)
  BY <1>2, <1>5 DEF QueueShape
<1>11. DataShape(q, h, e)
  <2>1. q.dt = ScheduledDt(h)
    BY <1>2, <1>5, <1>6 DEF DataShape
  <2>2. q.arrived > ForecastPosition => q.rbuf = FullLambda(Lag(h + ForecastPosition))
    <3>1. ForecastPosition \in Nat
      BY DEF ForecastPosition
    <3>2. QED
      BY <1>2, <1>5, <1>6, <3>1 DEF DataShape
  <2>3. q.agg = [pass |-> h, zones |-> ZonesAt(h, {i \in Zones : Rank(i) < e})]
    BY <1>2, <1>5 DEF DataShape
  <2>4. QED
    BY <2>1, <2>2, <2>3 DEF DataShape
<1>12. QED
  BY <1>8, <1>9, <1>10, <1>11 DEF PassShape, q

\* The slots a computation works on: all still at the node, its own position
\* drifted or to be drifted now, the next one untouched, a held head computed.
LEMMA BeforeCompute ==
  ASSUME NEW p \in PassStates, NEW h \in Passes, NEW c \in Zones, NEW e, NEW l,
         PassShape(p, h, c, e, l), p.arrived > LastNeeded(c)
  PROVE  /\ e <= Rank(c) /\ l <= Rank(c) /\ c < p.arrived
         /\ Drift(p.slot[c]) \in Slots /\ Placed(Drift(p.slot[c]), c, h)
         /\ Drift(p.slot[c]).owned
         /\ Moved(Drift(p.slot[c]), h, CountedOn(c, c), MaskAt(c, c))
         /\ Drift(p.slot[c]).fsm = p.slot[c].fsm
         /\ p.slot[c].fsm.type = IF c = 0 THEN "d" ELSE "w"
         /\ c > 0 => p.slot[c - 1].computed
         /\ c + 1 < N =>
              /\ c + 1 \in Zones /\ c + 1 < p.arrived
              /\ e <= Rank(c + 1) /\ l <= Rank(c + 1)
              /\ Drift(p.slot[c + 1]) \in Slots /\ Placed(Drift(p.slot[c + 1]), c + 1, h)
              /\ Drift(p.slot[c + 1]).owned
              /\ Moved(Drift(p.slot[c + 1]), h, {}, {})
              /\ p.slot[c + 1].fsm.type = "d"
         /\ c + 1 = N /\ DeferHead =>
              /\ 0 < c /\ e <= Rank(0) /\ l <= Rank(0)
              /\ p.slot[0] \in Slots /\ Placed(p.slot[0], 0, h)
              /\ p.slot[0].owned /\ p.slot[0].computed
              /\ p.slot[0].fsm.type = "c"
              /\ Moved(p.slot[0], h, CountedOn(0, c), {})
<1>1. /\ c \in 0 .. N - 1 /\ N \in Nat \ {0} /\ 0 \in Zones
      /\ h \in Nat \ {0} /\ p.slot \in [Zones -> Slots] /\ p.arrived \in 0 .. N
  BY ZonesFacts DEF Zones, PassStates, Passes
<1>2. e \in 0 .. N /\ l \in 0 .. e /\ \A i \in Zones : Rank(i) < e => i < c
  BY DEF PassShape, Counters
<1>3. \A i \in Zones : i \in 0 .. N - 1 /\ Rank(i) \in 0 .. N - 1
  BY OrderFacts, ZonesFacts DEF Zones
<1>4. c < p.arrived /\ (c + 1 < N => c + 1 < p.arrived)
  BY <1>1 DEF LastNeeded
<1>5. \A i \in Zones : i >= c => e <= Rank(i) /\ l <= Rank(i)
  BY <1>1, <1>2, <1>3
<1>6. \A i \in Zones : i < p.arrived => SlotShape(p.slot[i], i, h, c, e, l)
  BY DEF PassShape, SlotsShape
<1>7. CountedOn(0, 0) = {} /\ MaskAt(0, 0) = {}
  BY <1>1, CountedSteps DEF MaskAt
<1>8. \A s \in Slots : Untouched(s, h) =>
        /\ Moved(Drift(s), h, {}, {}) /\ SameTag(Drift(s), s)
        /\ s.fsm.type = "d"
  <2> SUFFICES ASSUME NEW s \in Slots, Untouched(s, h)
               PROVE  /\ Moved(Drift(s), h, {}, {}) /\ SameTag(Drift(s), s)
                      /\ s.fsm.type = "d"
    OBVIOUS
  <2>1. s.fsm.type = "d" /\ s.fsm.contrib_mask = {}
    BY DEF Untouched
  <2>2. /\ Drift(s).drifted /\ Drift(s).body.x = h /\ Drift(s).body.v = 2 * h - 1
        /\ Drift(s).acc = LedgerOf(h, {}) /\ SameTag(Drift(s), s)
    BY <1>1, DriftUntouched, LedgerEmpty
  <2>3. QED
    BY <2>1, <2>2 DEF Moved, SameTag
<1>9. \A s \in Slots : Drift(s) \in Slots
  BY DriftType
<1> DEFINE s == p.slot[c]
<1>10. s \in Slots /\ SlotShape(s, c, h, c, e, l) /\ s.owned /\ Placed(s, c, h)
  BY <1>1, <1>4, <1>5, <1>6 DEF SlotShape
<1>11. /\ Moved(Drift(s), h, CountedOn(c, c), MaskAt(c, c)) /\ SameTag(Drift(s), s)
       /\ s.fsm.type = IF c = 0 THEN "d" ELSE "w"
  <2>1. CASE c = 0
    <3>1. Untouched(s, h)
      BY <1>10, <2>1 DEF SlotShape
    <3>2. QED
      BY <1>7, <1>8, <1>10, <2>1, <3>1
  <2>2. CASE c > 0
    <3>1. s.fsm.type = "w" /\ Moved(s, h, CountedOn(c, c), MaskAt(c, c))
      BY <1>10, <2>2 DEF SlotShape, Drifted
    <3>2. Drift(s) = s
      BY <3>1, DriftDrifted DEF Moved
    <3>3. QED
      BY <2>2, <3>1, <3>2 DEF SameTag
  <2>3. QED
    BY <1>1, <2>1, <2>2
<1>12. Drift(s).owned /\ Placed(Drift(s), c, h) /\ Drift(s).fsm = s.fsm
  BY <1>10, <1>11 DEF SameTag, Placed
<1>13. c > 0 => p.slot[c - 1].computed
  <2>1. SUFFICES ASSUME c > 0 PROVE p.slot[c - 1].computed
    OBVIOUS
  <2>2. c - 1 \in Zones /\ c - 1 < p.arrived /\ c - 1 < c
    BY <1>1, <1>4, <2>1 DEF Zones
  <2>3. SlotShape(p.slot[c - 1], c - 1, h, c, e, l)
    BY <1>6, <2>2
  <2>4. QED
    BY <2>2, <2>3 DEF SlotShape
<1>14. ASSUME c + 1 < N
       PROVE  /\ c + 1 \in Zones /\ c + 1 < p.arrived
              /\ e <= Rank(c + 1) /\ l <= Rank(c + 1)
              /\ Drift(p.slot[c + 1]) \in Slots /\ Placed(Drift(p.slot[c + 1]), c + 1, h)
              /\ Drift(p.slot[c + 1]).owned
              /\ Moved(Drift(p.slot[c + 1]), h, {}, {})
              /\ p.slot[c + 1].fsm.type = "d"
  <2> DEFINE t == p.slot[c + 1]
  <2>1. c + 1 \in Zones /\ c + 1 < p.arrived /\ c + 1 > c
    BY <1>1, <1>4, <1>14 DEF Zones
  <2>2. t \in Slots /\ SlotShape(t, c + 1, h, c, e, l)
    BY <1>1, <1>6, <2>1
  <2>3. e <= Rank(c + 1) /\ l <= Rank(c + 1)
    BY <1>1, <1>5, <2>1
  <2>4. t.owned /\ Placed(t, c + 1, h) /\ Untouched(t, h)
    BY <2>1, <2>2, <2>3 DEF SlotShape
  <2>5. Moved(Drift(t), h, {}, {}) /\ SameTag(Drift(t), t) /\ t.fsm.type = "d"
    BY <1>8, <2>2, <2>4
  <2>6. QED
    BY <1>9, <2>1, <2>2, <2>3, <2>4, <2>5 DEF SameTag, Placed
<1>15. ASSUME c + 1 = N, DeferHead
       PROVE  /\ 0 < c /\ e <= Rank(0) /\ l <= Rank(0)
              /\ p.slot[0] \in Slots /\ Placed(p.slot[0], 0, h)
              /\ p.slot[0].owned /\ p.slot[0].computed
              /\ p.slot[0].fsm.type = "c"
              /\ Moved(p.slot[0], h, CountedOn(0, c), {})
  <2>1. N >= 3 /\ 0 < c /\ c = N - 1
    BY <1>1, <1>15, DeferFacts
  <2>2. Rank(c) = N - 2 /\ Rank(0) = N - 1
    BY <1>1, <1>15, <2>1 DEF Rank
  <2>3. e <= Rank(0) /\ l <= Rank(0)
    BY <1>1, <1>2, <1>5, <2>1, <2>2
  <2>4. p.slot[0] \in Slots /\ SlotShape(p.slot[0], 0, h, c, e, l)
    BY <1>1, <1>4, <1>6, <2>1
  <2>5. MaskAt(0, c) = {}
    BY <1>1, <2>1 DEF MaskAt
  <2>6. QED
    BY <1>1, <2>1, <2>3, <2>4, <2>5 DEF SlotShape, Drifted
<1>16. QED
  BY <1>1, <1>4, <1>5, <1>9, <1>10, <1>11, <1>12, <1>13, <1>14, <1>15

\* Counting the pairs with position b, and starting position j.
LEMMA CountingMoved ==
  ASSUME NEW s \in Slots, NEW t \in Slots, NEW h \in Nat \ {0},
         NEW A \in SUBSET Zones, NEW B, NEW b \in Zones, b \notin A, NEW mask, NEW other,
         Moved(s, h, A, mask), Moved(t, h, B, other), t.zone = ZoneAt(h, b),
         s.owned, t.owned
  PROVE  /\ Moved(CountPairs(s, t), h, A \cup {b}, mask)
         /\ SameTag(CountPairs(s, t), s) /\ CountPairs(s, t) \in Slots
<1>1. /\ CountPairs(s, t).acc = LedgerOf(h, A \cup {b})
      /\ CountPairs(s, t).body = s.body /\ CountPairs(s, t).drifted = s.drifted
      /\ SameTag(CountPairs(s, t), s)
  BY Counting DEF Moved
<1>2. QED
  BY <1>1, CountPairsType DEF Moved, SameTag

LEMMA StartingMoved ==
  ASSUME NEW s \in Slots, NEW j \in Zones, NEW h \in Nat \ {0},
         NEW A \in SUBSET Zones, j \notin A, NEW mask,
         Moved(s, h, A, mask), Placed(s, j, h), s.owned
  PROVE  /\ Moved(StartZone(s, j), h, A \cup {j}, mask)
         /\ Placed(StartZone(s, j), j, h)
         /\ StartZone(s, j).owned /\ StartZone(s, j).computed
         /\ StartZone(s, j).fsm.type = "c"
         /\ StartZone(s, j) \in Slots
<1>0. s.acc = LedgerOf(h, A) /\ s.zone = ZoneAt(h, j)
  BY DEF Moved, Placed
<1>1. /\ StartZone(s, j).acc = LedgerOf(h, A \cup {j})
      /\ StartZone(s, j).body = s.body /\ StartZone(s, j).drifted = s.drifted
      /\ StartZone(s, j).zone = s.zone /\ StartZone(s, j).lam = s.lam
      /\ StartZone(s, j).owned /\ StartZone(s, j).computed
      /\ StartZone(s, j).fsm.type = "c"
      /\ StartZone(s, j).fsm.contrib_mask = s.fsm.contrib_mask
  BY <1>0, Starting
<1>2. QED
  BY <1>1, StartZoneType DEF Moved, Placed

\* A computed slot.
LEMMA ComputedShape ==
  ASSUME NEW s, NEW i \in Zones, NEW h, NEW c \in 0 .. N, NEW e, NEW l,
         Placed(s, i, h), s.owned, s.computed, s.fsm.type = "c",
         Moved(s, h, CountedOn(i, c), MaskAt(i, c)), i < c,
         e \in Nat, e <= Rank(i), l <= Rank(i)
  PROVE  SlotShape(s, i, h, c, e, l)
<1>1. i \in Nat /\ Rank(i) \in Nat
  BY OrderFacts, ZonesFacts DEF Zones
<1>2. ~(i > c) /\ ~(i = c) /\ ~(Rank(i) < e)
  BY <1>1
<1>3. QED
  BY <1>2 DEF SlotShape, Drifted

\* The other slots keep their shape when position c is computed.
LEMMA OtherShape ==
  ASSUME NEW s, NEW i \in Zones, NEW h, NEW c \in Zones, NEW e, NEW l,
         SlotShape(s, i, h, c, e, l), i # c, i # c + 1,
         ~(DeferHead /\ c + 1 = N /\ i = 0)
  PROVE  SlotShape(s, i, h, c + 1, e, l)
<1>1. i \in Nat /\ c \in 0 .. N - 1 /\ N \in Nat
  BY ZonesFacts DEF Zones
<1>2. CountedOn(i, c + 1) = CountedOn(i, c)
  BY CountedSteps
<1>3. MaskAt(i, c + 1) = MaskAt(i, c)
  BY <1>1 DEF MaskAt
<1>4. (i < c + 1 <=> i < c) /\ (i > c + 1 <=> i > c) /\ ~(i = c) /\ ~(i = c + 1)
  BY <1>1
<1>5. QED
  BY <1>2, <1>3, <1>4 DEF SlotShape, Drifted

\* compute_zone throws nothing and takes the pass to one more computed position.
LEMMA ComputeShape ==
  ASSUME NEW p \in PassStates, NEW h \in Passes, NEW e, NEW l,
         PassShape(p, h, p.pos, e, l), p.arrived > LastNeeded(p.pos)
  PROVE  /\ ComputeLegal(p)
         /\ PassShape([p EXCEPT !.slot = ComputedSlots(p)], h, p.pos + 1, e, l)
<1> DEFINE c == p.pos
           q == [p EXCEPT !.slot = ComputedSlots(p)]
           own == Drift(p.slot[c])
           next == Drift(p.slot[c + 1])
           head == p.slot[0]
           run == StartZone(own, c)
           S(sl) == \A i \in Zones : i < p.arrived => SlotShape(sl[i], i, h, c + 1, e, l)
           Rest(sl) == \A i \in Zones : ~(i < p.arrived) => sl[i] = p.slot[i]
<1>1. /\ c \in Zones /\ c \in 0 .. N - 1 /\ N \in Nat \ {0} /\ 0 \in Zones
      /\ h \in Nat \ {0} /\ p.slot \in [Zones -> Slots] /\ p.arrived \in 0 .. N
  BY ZonesFacts DEF Zones, PassStates, Passes
<1>2. /\ e <= Rank(c) /\ l <= Rank(c) /\ c < p.arrived
      /\ own \in Slots /\ Placed(own, c, h) /\ own.owned
      /\ Moved(own, h, CountedOn(c, c), MaskAt(c, c))
      /\ p.slot[c].fsm.type = IF c = 0 THEN "d" ELSE "w"
      /\ c > 0 => p.slot[c - 1].computed
  BY <1>1, BeforeCompute
<1>3. c + 1 < N =>
        /\ c + 1 \in Zones /\ c + 1 < p.arrived
        /\ e <= Rank(c + 1) /\ l <= Rank(c + 1)
        /\ next \in Slots /\ Placed(next, c + 1, h) /\ next.owned
        /\ Moved(next, h, {}, {})
        /\ p.slot[c + 1].fsm.type = "d"
  BY <1>1, BeforeCompute
<1>4. c + 1 = N /\ DeferHead =>
        /\ 0 < c /\ e <= Rank(0) /\ l <= Rank(0)
        /\ head \in Slots /\ Placed(head, 0, h)
        /\ head.owned /\ head.computed /\ head.fsm.type = "c"
        /\ Moved(head, h, CountedOn(0, c), {})
  BY <1>1, BeforeCompute
<1>5. ComputeLegal(p)
  BY <1>2, <1>3 DEF ComputeLegal, Allowed
<1>6. /\ e \in 0 .. N /\ l \in 0 .. e
      /\ \A i \in Zones : Rank(i) < e => i < c
      /\ \A i \in Zones : IF i < p.arrived THEN SlotShape(p.slot[i], i, h, c, e, l)
                          ELSE ~p.slot[i].owned
  BY DEF PassShape, Counters, SlotsShape
<1>7. \A i : CountedOn(i, c) \in SUBSET Zones
  BY DEF CountedOn
<1>8. \A i : MaskAt(i, c) = IF i > 0 THEN {"prev"} ELSE {}
  BY <1>1 DEF MaskAt
<1>9. /\ Moved(run, h, CountedOn(c, c) \cup {c}, MaskAt(c, c)) /\ Placed(run, c, h)
      /\ run.owned /\ run.computed /\ run.fsm.type = "c" /\ run \in Slots
  <2>1. c \notin CountedOn(c, c)
    BY <1>1, CountedSteps
  <2>2. QED
    BY <1>1, <1>2, <1>7, <2>1, StartingMoved
<1>10. ComputedSlots(p) \in [Zones -> Slots]
  BY ComputedSlotsType
<1> HIDE DEF own, next, head, run
<1>11. ASSUME c + 1 < N
       PROVE  S(ComputedSlots(p)) /\ Rest(ComputedSlots(p))
  <2> DEFINE u == CountPairs(run, next)
             v == CountPairs(next, own)
             w == TakeSphere(v)
  <2>1. /\ CountedOn(c, c + 1) = (CountedOn(c, c) \cup {c}) \cup {c + 1}
        /\ c + 1 \notin CountedOn(c, c) \cup {c}
        /\ CountedOn(c + 1, c + 1) = {} \cup {c}
    BY <1>1, <1>11, CountedSteps
  <2>2. ComputedSlots(p) = [p.slot EXCEPT ![c] = u, ![c + 1] = w]
    BY <1>11 DEF ComputedSlots, own, next, run
  <2>3. MaskAt(c, c + 1) = MaskAt(c, c) /\ MaskAt(c + 1, c + 1) = {"prev"}
    BY <1>1, <1>11 DEF MaskAt
  <2>4. Moved(u, h, CountedOn(c, c + 1), MaskAt(c, c + 1)) /\ SameTag(u, run)
    <3>1. CountedOn(c, c) \cup {c} \in SUBSET Zones /\ next.zone = ZoneAt(h, c + 1)
      BY <1>1, <1>3, <1>7, <1>11 DEF Placed
    <3>2. /\ Moved(u, h, (CountedOn(c, c) \cup {c}) \cup {c + 1}, MaskAt(c, c))
          /\ SameTag(u, run)
      BY <1>1, <1>3, <1>9, <1>11, <2>1, <3>1, CountingMoved
    <3>3. QED
      BY <2>1, <2>3, <3>2
  <2>5. SlotShape(u, c, h, c + 1, e, l)
    <3>1. Placed(u, c, h) /\ u.owned /\ u.computed /\ u.fsm.type = "c"
      BY <1>9, <2>4 DEF SameTag, Placed
    <3>2. c + 1 \in 0 .. N /\ c < c + 1 /\ e \in Nat
      BY <1>1, <1>6
    <3>3. QED
      BY <1>1, <1>2, <2>4, <3>1, <3>2, ComputedShape
  <2>6. Moved(v, h, CountedOn(c + 1, c + 1), {}) /\ SameTag(v, next) /\ v \in Slots
    <3>1. own.zone = ZoneAt(h, c) /\ c \notin {}
      BY <1>2 DEF Placed
    <3>2. Moved(v, h, {} \cup {c}, {}) /\ SameTag(v, next) /\ v \in Slots
      BY <1>1, <1>2, <1>3, <1>11, <3>1, CountingMoved
    <3>3. QED
      BY <2>1, <3>2
  <2>7. SlotShape(w, c + 1, h, c + 1, e, l)
    <3>1. v.fsm.contrib_mask = {}
      BY <2>6 DEF Moved
    <3>2. /\ w.fsm.type = "w" /\ w.fsm.contrib_mask = {"prev"}
          /\ w.zone = v.zone /\ w.lam = v.lam /\ w.owned = v.owned
          /\ w.drifted = v.drifted /\ w.body = v.body /\ w.acc = v.acc
      BY <2>6, <3>1, Taking
    <3>3. Moved(w, h, CountedOn(c + 1, c + 1), MaskAt(c + 1, c + 1))
      BY <2>3, <2>6, <3>2 DEF Moved
    <3>4. Placed(w, c + 1, h) /\ w.owned
      BY <1>3, <1>11, <2>6, <3>2 DEF SameTag, Placed
    <3>5. /\ ~(c + 1 < c + 1) /\ ~(c + 1 > c + 1) /\ c + 1 > 0
          /\ ~(Rank(c + 1) < e) /\ l <= Rank(c + 1)
      <4>1. Rank(c + 1) \in Nat
        BY <1>3, <1>11, OrderFacts, ZonesFacts DEF Zones
      <4>2. QED
        BY <1>1, <1>3, <1>6, <1>11, <4>1
    <3>6. QED
      BY <3>2, <3>3, <3>4, <3>5 DEF SlotShape, Drifted
  <2> HIDE DEF u, w
  <2>8. S(ComputedSlots(p))
    <3> SUFFICES ASSUME NEW i \in Zones, i < p.arrived
                 PROVE  SlotShape(ComputedSlots(p)[i], i, h, c + 1, e, l)
      OBVIOUS
    <3>1. CASE i = c
      BY <1>1, <1>3, <1>11, <2>2, <2>5, <3>1
    <3>2. CASE i = c + 1
      BY <1>1, <1>3, <1>11, <2>2, <2>7, <3>2
    <3>3. CASE i # c /\ i # c + 1
      <4>1. ComputedSlots(p)[i] = p.slot[i]
        BY <1>1, <2>2, <3>3
      <4>2. SlotShape(p.slot[i], i, h, c, e, l) /\ ~(c + 1 = N)
        BY <1>1, <1>6, <1>11
      <4>3. QED
        BY <1>1, <3>3, <4>1, <4>2, OtherShape
    <3>4. QED
      BY <3>1, <3>2, <3>3
  <2>9. Rest(ComputedSlots(p))
    BY <1>1, <1>2, <1>3, <1>11, <2>2
  <2>10. QED
    BY <2>8, <2>9
<1>12. ASSUME c + 1 = N, DeferHead
       PROVE  S(ComputedSlots(p)) /\ Rest(ComputedSlots(p))
  <2> DEFINE u == CountPairs(run, head)
             v == CountPairs(head, own)
             w == TakeClosure(v)
  <2>1. /\ CountedOn(c, c + 1) = (CountedOn(c, c) \cup {c}) \cup {0}
        /\ 0 \notin CountedOn(c, c) \cup {c}
        /\ CountedOn(0, c + 1) = CountedOn(0, c) \cup {c}
        /\ c \notin CountedOn(0, c)
    BY <1>1, <1>12, CountedSteps
  <2>2. ComputedSlots(p) = [p.slot EXCEPT ![c] = u, ![0] = w]
    BY <1>1, <1>12 DEF ComputedSlots, own, head, run
  <2>3. MaskAt(c, c + 1) = MaskAt(c, c) /\ MaskAt(0, c + 1) = {"closure"}
    BY <1>1, <1>4, <1>12 DEF MaskAt
  <2>4. Moved(u, h, CountedOn(c, c + 1), MaskAt(c, c + 1)) /\ SameTag(u, run)
    <3>1. CountedOn(c, c) \cup {c} \in SUBSET Zones /\ head.zone = ZoneAt(h, 0)
      BY <1>1, <1>4, <1>7, <1>12 DEF Placed
    <3>2. /\ Moved(u, h, (CountedOn(c, c) \cup {c}) \cup {0}, MaskAt(c, c))
          /\ SameTag(u, run)
      BY <1>1, <1>4, <1>9, <1>12, <2>1, <3>1, CountingMoved
    <3>3. QED
      BY <2>1, <2>3, <3>2
  <2>5. SlotShape(u, c, h, c + 1, e, l)
    <3>1. Placed(u, c, h) /\ u.owned /\ u.computed /\ u.fsm.type = "c"
      BY <1>9, <2>4 DEF SameTag, Placed
    <3>2. c + 1 \in 0 .. N /\ c < c + 1 /\ e \in Nat
      BY <1>1, <1>6
    <3>3. QED
      BY <1>1, <1>2, <2>4, <3>1, <3>2, ComputedShape
  <2>6. Moved(v, h, CountedOn(0, c + 1), {}) /\ SameTag(v, head) /\ v \in Slots
    <3>1. own.zone = ZoneAt(h, c)
      BY <1>2 DEF Placed
    <3>2. Moved(v, h, CountedOn(0, c) \cup {c}, {}) /\ SameTag(v, head) /\ v \in Slots
      BY <1>1, <1>2, <1>4, <1>7, <1>12, <2>1, <3>1, CountingMoved
    <3>3. QED
      BY <2>1, <3>2
  <2>7. SlotShape(w, 0, h, c + 1, e, l)
    <3>1. v.fsm.contrib_mask = {}
      BY <2>6 DEF Moved
    <3>2. /\ w.fsm.type = v.fsm.type /\ w.fsm.contrib_mask = {"closure"}
          /\ w.zone = v.zone /\ w.lam = v.lam /\ w.owned = v.owned
          /\ w.computed = v.computed
          /\ w.drifted = v.drifted /\ w.body = v.body /\ w.acc = v.acc
      BY <2>6, <3>1, Taking
    <3>3. Moved(w, h, CountedOn(0, c + 1), MaskAt(0, c + 1))
      BY <2>3, <2>6, <3>2 DEF Moved
    <3>4. Placed(w, 0, h) /\ w.owned /\ w.computed /\ w.fsm.type = "c"
      BY <1>4, <1>12, <2>6, <3>2 DEF SameTag, Placed
    <3>5. c + 1 \in 0 .. N /\ 0 < c + 1 /\ e \in Nat
      BY <1>1, <1>6
    <3>6. QED
      BY <1>1, <1>4, <1>12, <3>3, <3>4, <3>5, ComputedShape
  <2> HIDE DEF u, w
  <2>8. S(ComputedSlots(p))
    <3> SUFFICES ASSUME NEW i \in Zones, i < p.arrived
                 PROVE  SlotShape(ComputedSlots(p)[i], i, h, c + 1, e, l)
      OBVIOUS
    <3>1. CASE i = c
      BY <1>1, <1>4, <1>12, <2>2, <2>5, <3>1
    <3>2. CASE i = 0
      BY <1>1, <1>4, <1>12, <2>2, <2>7, <3>2
    <3>3. CASE i # c /\ i # 0
      <4>1. ComputedSlots(p)[i] = p.slot[i]
        BY <1>1, <2>2, <3>3
      <4>2. SlotShape(p.slot[i], i, h, c, e, l) /\ i # c + 1
        BY <1>1, <1>6, <1>12 DEF Zones
      <4>3. QED
        BY <1>1, <3>3, <4>1, <4>2, OtherShape
    <3>4. QED
      BY <3>1, <3>2, <3>3
  <2>9. Rest(ComputedSlots(p))
    BY <1>1, <1>2, <1>4, <1>12, <2>2
  <2>10. QED
    BY <2>8, <2>9
<1>13. ASSUME c + 1 = N, ~DeferHead
       PROVE  S(ComputedSlots(p)) /\ Rest(ComputedSlots(p))
  <2>1. ComputedSlots(p) = [p.slot EXCEPT ![c] = run]
    BY <1>1, <1>13 DEF ComputedSlots, own, run
  <2>2. SlotShape(run, c, h, c + 1, e, l)
    <3>1. CountedOn(c, c + 1) = CountedOn(c, c) \cup {c} /\ MaskAt(c, c + 1) = MaskAt(c, c)
      BY <1>1, <1>13, CountedSteps DEF MaskAt
    <3>2. c + 1 \in 0 .. N /\ c < c + 1 /\ e \in Nat
      BY <1>1, <1>6
    <3>3. QED
      BY <1>1, <1>2, <1>9, <3>1, <3>2, ComputedShape
  <2>3. S(ComputedSlots(p))
    <3> SUFFICES ASSUME NEW i \in Zones, i < p.arrived
                 PROVE  SlotShape(ComputedSlots(p)[i], i, h, c + 1, e, l)
      OBVIOUS
    <3>1. CASE i = c
      BY <1>1, <2>1, <2>2, <3>1
    <3>2. CASE i # c
      <4>1. ComputedSlots(p)[i] = p.slot[i]
        BY <1>1, <2>1, <3>2
      <4>2. SlotShape(p.slot[i], i, h, c, e, l) /\ i # c + 1
        BY <1>1, <1>6, <1>13 DEF Zones
      <4>3. QED
        BY <1>1, <1>13, <3>2, <4>1, <4>2, OtherShape
    <3>3. QED
      BY <3>1, <3>2
  <2>4. Rest(ComputedSlots(p))
    BY <1>1, <1>2, <2>1
  <2>5. QED
    BY <2>3, <2>4
<1>14. S(ComputedSlots(p)) /\ Rest(ComputedSlots(p))
  BY <1>1, <1>11, <1>12, <1>13
<1>15. /\ q.slot = ComputedSlots(p) /\ q.arrived = p.arrived /\ q.outq = p.outq
       /\ q.sent = p.sent /\ q.dt = p.dt /\ q.agg = p.agg /\ q.rbuf = p.rbuf
  BY DEF PassStates
<1> HIDE DEF q
<1>16. Counters(q, c + 1, e, l)
  <2>1. \A i \in Zones : Rank(i) < e => i < c + 1
    BY <1>1, <1>6 DEF Zones
  <2>2. c + 1 \in 0 .. N /\ p.arrived > LastNeeded(c)
    BY <1>1
  <2>3. /\ c + 1 = N => p.arrived = N
        /\ c + 1 \in 1 .. N - 1 => p.arrived > c + 1
    BY <1>1, <2>2 DEF LastNeeded
  <2>4. QED
    BY <1>6, <1>15, <2>1, <2>2, <2>3 DEF Counters
<1>17. SlotsShape(q, h, c + 1, e, l)
  BY <1>6, <1>14, <1>15 DEF SlotsShape
<1>18. QueueShape(q, h, e, l) /\ DataShape(q, h, e)
  BY <1>15 DEF PassShape, QueueShape, DataShape
<1>19. QED
  BY <1>5, <1>16, <1>17, <1>18 DEF PassShape, q

\* end_zone throws nothing: the zone has all its contributions, once each.  It
\* takes the pass to one more ended position.
LEMMA EndShape ==
  ASSUME NEW p \in PassStates, NEW h \in Passes, NEW c, NEW e \in Zones, NEW l,
         PassShape(p, h, c, e, l), Order(e) < c,
         DeferHead /\ Order(e) = 0 => c = N
  PROVE  /\ EndLegal(p.slot[Order(e)].fsm, Order(e))
         /\ p.slot[Order(e)].zone = ZoneAt(h, Order(e))
         /\ p.slot[Order(e)].owned
         /\ PassShape(EndedPass(p, Order(e)), h, c, e + 1, l)
<1> DEFINE j == Order(e)
           q == EndedPass(p, j)
           s == p.slot[j]
           t == EndedSlot(s)
<1>1. /\ j \in Zones /\ j \in 0 .. N - 1 /\ N \in Nat \ {0} /\ e \in 0 .. N - 1
      /\ h \in Nat \ {0} /\ p.slot \in [Zones -> Slots] /\ p.arrived \in 0 .. N
      /\ p.outq \in Seq(Zones) /\ Rank(j) = e
  <2>1. j \in Zones /\ Rank(j) = e
    BY OrderFacts
  <2>2. QED
    BY <2>1, ZonesFacts DEF Zones, PassStates, Passes
<1>2. /\ c \in 0 .. N /\ l \in 0 .. e
      /\ \A i \in Zones : Rank(i) < e => i < c
      /\ c = N => p.arrived = N
      /\ c \in 1 .. N - 1 => p.arrived > c
  BY DEF PassShape, Counters
<1>3. \A i \in Zones : IF i < p.arrived THEN SlotShape(p.slot[i], i, h, c, e, l)
                       ELSE ~p.slot[i].owned
  BY DEF PassShape, SlotsShape
<1>4. \A i \in Zones : i \in 0 .. N - 1 /\ Rank(i) \in 0 .. N - 1 /\ (Rank(i) = e <=> i = j)
  BY OrderFacts, ZonesFacts DEF Zones
<1>5. j < p.arrived /\ s \in Slots /\ SlotShape(s, j, h, c, e, l)
  BY <1>1, <1>2, <1>3
<1>6. /\ Placed(s, j, h) /\ s.computed /\ s.owned
      /\ s.fsm.type = "c" /\ Moved(s, h, CountedOn(j, c), MaskAt(j, c))
  BY <1>1, <1>2, <1>5 DEF SlotShape, Drifted
<1>7. EndLegal(s.fsm, j)
  <2>1. MaskAt(j, c) = WantMask(j)
    BY <1>1 DEF MaskAt, WantMask
  <2>2. QED
    BY <1>6, <2>1 DEF EndLegal, Moved, Allowed
<1>8. t.body = CompleteBody(s.zone, h)
  <2>1. LedgerOf(h, CountedOn(j, c)) = FullForces(ZoneAt(h, j))
    BY <1>1, <1>2, LedgerFull
  <2>2. s.acc = FullForces(s.zone) /\ s.body.x = h /\ s.body.v = 2 * h - 1
    BY <1>6, <2>1 DEF Moved, Placed
  <2>3. t.body = [s.body EXCEPT !.f = s.acc, !.v = @ + 1]
    BY <1>5 DEF EndedSlot, Kicked, Slots
  <2>4. s.body.v + 1 = 2 * h
    BY <1>1, <2>2
  <2>5. s.body \in Bodies
    BY <1>5 DEF Slots
  <2>6. t.body = [x |-> h, v |-> 2 * h, f |-> FullForces(s.zone)]
    BY <2>2, <2>3, <2>4, <2>5 DEF Bodies
  <2>7. QED
    BY <2>6 DEF CompleteBody
<1>9. /\ t.zone = s.zone /\ t.lam = s.lam /\ t.owned = s.owned
      /\ t.computed = s.computed /\ t.fsm.type = "p"
  BY <1>5 DEF EndedSlot, Slots, Apply, Target
<1>10. /\ q.slot = [p.slot EXCEPT ![j] = t]
       /\ q.agg = [p.agg EXCEPT !.zones = @ \cup {s.zone}]
       /\ q.outq = Append(p.outq, j)
       /\ q.sent = p.sent /\ q.arrived = p.arrived /\ q.dt = p.dt /\ q.rbuf = p.rbuf
  BY DEF EndedPass, PassStates
<1> HIDE DEF q, t, s, j
<1>11. Counters(q, c, e + 1, l)
  <2>1. \A i \in Zones : Rank(i) < e + 1 => i < c
    BY <1>1, <1>2, <1>4 DEF j
  <2>2. QED
    BY <1>1, <1>2, <1>10, <2>1 DEF Counters
<1>12. SlotsShape(q, h, c, e + 1, l)
  <2>1. SlotShape(t, j, h, c, e + 1, l)
    BY <1>1, <1>2, <1>6, <1>8, <1>9 DEF SlotShape, Placed, j
  <2>2. ASSUME NEW i \in Zones
        PROVE  IF i < q.arrived THEN SlotShape(q.slot[i], i, h, c, e + 1, l)
               ELSE ~q.slot[i].owned
    <3>1. CASE i = j
      BY <1>1, <1>5, <1>10, <2>1, <3>1
    <3>2. CASE i # j
      <4>1. q.slot[i] = p.slot[i] /\ q.arrived = p.arrived
        BY <1>1, <1>10, <3>2
      <4>2. (Rank(i) < e + 1 <=> Rank(i) < e) /\ (e + 1 <= Rank(i) <=> e <= Rank(i))
        BY <1>1, <1>4, <3>2
      <4>3. SlotShape(p.slot[i], i, h, c, e, l) => SlotShape(p.slot[i], i, h, c, e + 1, l)
        BY <4>2 DEF SlotShape
      <4>4. QED
        BY <1>3, <4>1, <4>3
    <3>3. QED
      BY <3>1, <3>2
  <2>3. QED
    BY <2>2 DEF SlotsShape
<1>13. QueueShape(q, h, e + 1, l)
  <2>1. /\ Len(p.outq) = e - l
        /\ \A r \in 1 .. e - l : p.outq[r] = Order(l + r - 1)
        /\ h < Steps => p.sent = l
    BY DEF PassShape, QueueShape
  <2>2. /\ Len(q.outq) = e - l + 1
        /\ \A r \in 1 .. e - l : q.outq[r] = p.outq[r]
        /\ q.outq[e - l + 1] = j
    BY <1>1, <1>2, <1>10, <2>1, AppendProperties, SMTT(30)
  <2>3. Len(q.outq) = (e + 1) - l
    BY <1>1, <1>2, <2>2
  <2>4. \A r \in 1 .. (e + 1) - l : q.outq[r] = Order(l + r - 1)
    <3> TAKE r \in 1 .. (e + 1) - l
    <3>1. CASE r \in 1 .. e - l
      BY <2>1, <2>2, <3>1
    <3>2. CASE r = e - l + 1
      <4>1. l + r - 1 = e
        BY <1>1, <1>2, <3>2
      <4>2. QED
        BY <2>2, <3>2, <4>1 DEF j
    <3>3. QED
      BY <1>1, <1>2, <3>1, <3>2
  <2>5. QED
    BY <1>10, <2>1, <2>3, <2>4 DEF QueueShape
<1>14. DataShape(q, h, e + 1)
  <2>1. /\ p.arrived > 0 => p.dt = ScheduledDt(h)
        /\ p.arrived > ForecastPosition => p.rbuf = FullLambda(Lag(h + ForecastPosition))
        /\ p.agg = [pass |-> h, zones |-> ZonesAt(h, {i \in Zones : Rank(i) < e})]
    BY DEF PassShape, DataShape
  <2>2. ZonesAt(h, {i \in Zones : Rank(i) < e + 1})
          = ZonesAt(h, {i \in Zones : Rank(i) < e}) \cup {s.zone}
    <3>1. {i \in Zones : Rank(i) < e + 1} = {i \in Zones : Rank(i) < e} \cup {j}
      <4>1. \A i \in Zones : Rank(i) < e + 1 <=> Rank(i) < e \/ i = j
        BY <1>1, <1>4
      <4>2. QED
        BY <1>1, <4>1
    <3>2. s.zone = ZoneAt(h, j)
      BY <1>6 DEF Placed
    <3>3. QED
      BY <3>1, <3>2 DEF ZonesAt
  <2>3. q.agg = [pass |-> h, zones |-> ZonesAt(h, {i \in Zones : Rank(i) < e + 1})]
    <3> DEFINE X == ZonesAt(h, {i \in Zones : Rank(i) < e})
               Y == ZonesAt(h, {i \in Zones : Rank(i) < e + 1})
    <3>1. p.agg = [pass |-> h, zones |-> X] /\ Y = X \cup {s.zone}
      BY <2>1, <2>2
    <3> HIDE DEF X, Y
    <3>2. q.agg = [pass |-> h, zones |-> Y]
      <4>1. \A z : [[pass |-> h, zones |-> X] EXCEPT !.zones = @ \cup {z}]
                     = [pass |-> h, zones |-> X \cup {z}]
        OBVIOUS
      <4>2. q.agg = [[pass |-> h, zones |-> X] EXCEPT !.zones = @ \cup {s.zone}]
        BY <1>10, <3>1
      <4>3. QED
        BY <3>1, <4>1, <4>2
    <3>3. QED
      BY <3>2 DEF Y
  <2>4. QED
    BY <1>10, <2>1, <2>3 DEF DataShape
<1>15. s.zone = ZoneAt(h, j)
  BY <1>6 DEF Placed
<1>16. QED
  BY <1>6, <1>7, <1>11, <1>12, <1>13, <1>14, <1>15 DEF PassShape, q, s, j

\* The next zone to leave: ended, whole, and allowed to be sent.
LEMMA QueueHead ==
  ASSUME NEW p \in PassStates, NEW h \in Passes, NEW c, NEW e, NEW l,
         PassShape(p, h, c, e, l), p.outq # <<>>
  PROVE  /\ l \in Zones /\ l < e /\ e \in 0 .. N /\ c \in 0 .. N
         /\ Head(p.outq) = Order(l) /\ Order(l) \in Zones /\ Rank(Order(l)) = l
         /\ Order(l) < c /\ Order(l) < p.arrived
         /\ p.slot[Order(l)] \in Slots
         /\ Placed(p.slot[Order(l)], Order(l), h)
         /\ p.slot[Order(l)].owned /\ p.slot[Order(l)].computed
         /\ p.slot[Order(l)].fsm.type = "p"
         /\ p.slot[Order(l)].body = CompleteBody(p.slot[Order(l)].zone, h)
<1> DEFINE j == Order(l)
           s == p.slot[j]
<1>1. /\ p.outq \in Seq(Zones) /\ p.slot \in [Zones -> Slots] /\ p.arrived \in 0 .. N
      /\ N \in Nat \ {0}
  BY ZonesFacts DEF PassStates
<1>2. /\ Len(p.outq) = e - l
      /\ \A r \in 1 .. e - l : p.outq[r] = Order(l + r - 1)
      /\ c \in 0 .. N /\ e \in 0 .. N /\ l \in 0 .. e
      /\ \A i \in Zones : Rank(i) < e => i < c
      /\ c = N => p.arrived = N
      /\ c \in 1 .. N - 1 => p.arrived > c
  BY DEF PassShape, Counters, QueueShape
<1>3. Len(p.outq) > 0
  BY <1>1, EmptySeq
<1>4. l \in Zones /\ l < e /\ l \in Nat
  BY <1>1, <1>2, <1>3 DEF Zones
<1>5. Head(p.outq) = j
  <2>1. p.outq[1] = Order(l + 1 - 1)
    BY <1>2, <1>3, <1>4
  <2>2. l + 1 - 1 = l
    BY <1>4
  <2>3. QED
    BY <1>1, <2>1, <2>2, HeadTailProperties
<1>6. j \in Zones /\ Rank(j) = l
  BY <1>4, OrderFacts
<1>7. j < c /\ j < p.arrived
  <2>1. j < c /\ j \in 0 .. N - 1
    BY <1>2, <1>4, <1>6 DEF Zones
  <2>2. QED
    BY <1>1, <1>2, <2>1
<1>8. s \in Slots /\ SlotShape(s, j, h, c, e, l)
  BY <1>1, <1>6, <1>7 DEF PassShape, SlotsShape
<1>9. QED
  BY <1>2, <1>4, <1>5, <1>6, <1>7, <1>8 DEF SlotShape

\* A zone leaves the pass, on the ring or to the result.
LEMMA LeaveShape ==
  ASSUME NEW p \in PassStates, NEW h \in Passes, NEW c, NEW e, NEW l,
         PassShape(p, h, c, e, l), p.outq # <<>>, NEW t, NEW q,
         t.zone = p.slot[Order(l)].zone, t.lam = p.slot[Order(l)].lam,
         t.computed = p.slot[Order(l)].computed, ~t.owned,
         q.slot = [p.slot EXCEPT ![Order(l)] = t], q.outq = Tail(p.outq),
         h < Steps => q.sent = p.sent + 1,
         q.arrived = p.arrived, q.dt = p.dt, q.agg = p.agg, q.rbuf = p.rbuf
  PROVE  PassShape(q, h, c, e, l + 1)
<1> DEFINE j == Order(l)
<1>1. /\ l \in Zones /\ l < e /\ e \in 0 .. N /\ j \in Zones /\ Rank(j) = l
      /\ j < c /\ j < p.arrived /\ Placed(p.slot[j], j, h)
      /\ p.slot[j].computed /\ c \in 0 .. N
  BY QueueHead
<1>2. /\ p.outq \in Seq(Zones) /\ p.slot \in [Zones -> Slots] /\ l \in 0 .. N - 1
      /\ N \in Nat \ {0}
  BY <1>1, ZonesFacts DEF PassStates, Zones
<1>3. \A i \in Zones : i \in 0 .. N - 1 /\ Rank(i) \in 0 .. N - 1 /\ (Rank(i) = l <=> i = j)
  BY <1>1, OrderFacts, ZonesFacts DEF Zones
<1> HIDE DEF j
<1>4. Counters(q, c, e, l + 1)
  BY <1>1, <1>2 DEF PassShape, Counters
<1>5. SlotsShape(q, h, c, e, l + 1)
  <2>1. SlotShape(t, j, h, c, e, l + 1)
    <3>1. Placed(t, j, h) /\ t.computed
      BY <1>1 DEF Placed, j
    <3>2. /\ ~(l + 1 <= Rank(j)) /\ ~(j > c) /\ ~(j = c) /\ ~(e <= Rank(j))
      BY <1>1, <1>2, <1>3
    <3>3. QED
      BY <3>1, <3>2 DEF SlotShape
  <2>2. ASSUME NEW i \in Zones
        PROVE  IF i < q.arrived THEN SlotShape(q.slot[i], i, h, c, e, l + 1)
               ELSE ~q.slot[i].owned
    <3>0. q.slot = [p.slot EXCEPT ![j] = t]
      BY DEF j
    <3>1. CASE i = j
      BY <1>1, <1>2, <2>1, <3>0, <3>1
    <3>2. CASE i # j
      <4>1. q.slot[i] = p.slot[i]
        BY <1>2, <3>0, <3>2
      <4>2. (l + 1 <= Rank(i) <=> l <= Rank(i))
        BY <1>2, <1>3, <3>2
      <4>3. SlotShape(p.slot[i], i, h, c, e, l) => SlotShape(p.slot[i], i, h, c, e, l + 1)
        BY <4>2 DEF SlotShape
      <4>4. QED
        BY <4>1, <4>3 DEF PassShape, SlotsShape
    <3>3. QED
      BY <3>1, <3>2
  <2>3. QED
    BY <2>2 DEF SlotsShape
<1>6. QueueShape(q, h, e, l + 1)
  <2>1. /\ Len(p.outq) = e - l
        /\ \A r \in 1 .. e - l : p.outq[r] = Order(l + r - 1)
        /\ h < Steps => p.sent = l
    BY DEF PassShape, QueueShape
  <2>2. /\ Len(q.outq) = e - l - 1
        /\ \A r \in 1 .. e - l - 1 : q.outq[r] = p.outq[r + 1]
    BY <1>1, <1>2, <2>1, HeadTailProperties
  <2>3. \A r \in 1 .. e - (l + 1) : q.outq[r] = Order((l + 1) + r - 1)
    <3> TAKE r \in 1 .. e - (l + 1)
    <3>1. r + 1 \in 1 .. e - l /\ r \in 1 .. e - l - 1 /\ l + (r + 1) - 1 = (l + 1) + r - 1
      BY <1>1, <1>2
    <3>2. p.outq[r + 1] = Order(l + (r + 1) - 1)
      BY <2>1, <3>1
    <3>3. QED
      BY <2>2, <3>1, <3>2
  <2>4. Len(q.outq) = e - (l + 1) /\ (h < Steps => q.sent = l + 1)
    BY <1>1, <1>2, <2>1, <2>2
  <2>5. QED
    BY <2>3, <2>4 DEF QueueShape
<1>7. DataShape(q, h, e)
  BY DEF PassShape, DataShape
<1>8. QED
  BY <1>4, <1>5, <1>6, <1>7 DEF PassShape

\* Once every zone ended, the aggregate of the pass is complete.
LEMMA AggregateFull ==
  ASSUME NEW p, NEW h \in Passes, NEW c, NEW e, NEW l,
         PassShape(p, h, c, e, l), e = N
  PROVE  p.agg = FullLambda(h)
<1>1. {i \in Zones : Rank(i) < e} = Zones
  <2>1. \A i \in Zones : Rank(i) < N
    BY OrderFacts, ZonesFacts DEF Zones
  <2>2. QED
    BY <2>1
<1>2. ZonesAt(h, Zones) = Zones
  <2>1. h \in Nat \ {0}
    BY ZonesFacts DEF Passes
  <2>2. \A i \in Zones : ZoneAt(h, i) \in Zones
    BY <2>1, ZoneAtForm
  <2>3. \A z \in Zones : \E i \in Zones : ZoneAt(h, i) = z
    BY <2>1, ZoneAtOnto
  <2>4. QED
    BY <2>2, <2>3 DEF ZonesAt
<1>3. p.agg = [pass |-> h, zones |-> ZonesAt(h, {i \in Zones : Rank(i) < e})]
  BY DEF PassShape, DataShape
<1>4. QED
  BY <1>1, <1>2, <1>3 DEF FullLambda

-----------------------------------------------------------------------------
(* The zones in flight.                                                      *)

\* A zone between two passes: whole, at its place in the next pass, with the
\* aggregate and the time step of that pass.
MessageShape(m) ==
  /\ m.step \in 1 .. Steps - 1 /\ m.pos \in Zones
  /\ m.zone = ZoneAt(m.step + 1, m.pos)
  /\ m.body = CompleteBody(m.zone, m.step)
  /\ m.lam = FullLambda(Lag(m.step + 1 + m.pos))
  /\ m.pos = 0 => m.dt = ScheduledDt(m.step + 1)

LEMMA OutMessageShape ==
  ASSUME TypeOK, NEW k \in Nodes, pass[k] \in Passes, pass[k] # Steps,
         NEW c, NEW e, NEW l, PassShape(loc[k], pass[k], c, e, l),
         loc[k].outq # <<>>
  PROVE  /\ MessageShape(OutMessage(k))
         /\ OutMessage(k).step = pass[k] /\ OutMessage(k).pos = l /\ loc[k].sent = l
         /\ OutMessage(k).zone = ZoneAt(pass[k], Order(l))
<1> DEFINE p == loc[k]
           h == pass[k]
           j == Order(l)
           m == OutMessage(k)
<1>1. /\ p \in PassStates /\ h \in Nat \ {0} /\ h < Steps /\ Steps \in Nat
      /\ h + 1 \in Nat \ {0}
  BY ZonesFacts DEF TypeOK, Passes
<1>2. /\ l \in Zones /\ l < e /\ e \in 0 .. N /\ c \in 0 .. N
      /\ Head(p.outq) = j /\ j \in Zones /\ j < c /\ j < p.arrived
      /\ Placed(p.slot[j], j, h)
      /\ p.slot[j].body = CompleteBody(p.slot[j].zone, h)
  BY <1>1, QueueHead
<1>3. /\ l \in 0 .. N - 1 /\ j \in 0 .. N - 1 /\ N \in Nat \ {0} /\ p.arrived \in 0 .. N
  BY <1>1, <1>2, ZonesFacts DEF Zones, PassStates
<1>4. p.sent = l
  BY <1>1 DEF PassShape, QueueShape
<1>5. p.slot[j].zone = ZoneAt(h, j) /\ ZoneAt(h, j) = ZoneAt(h + 1, l)
  BY <1>1, <1>2, HandOver DEF Placed
<1>6. LambdaOut(p) = FullLambda(Lag(h + 1 + l))
  <2>1. CASE l + 1 < N
    <3>1. l + 1 \in Zones
      BY <1>3, <2>1 DEF Zones
    <3>2. l + 1 < p.arrived
      <4>1. j = l + 1 \/ j = l
        BY <1>3, <2>1 DEF Order
      <4>2. c = N \/ c < p.arrived
        BY <1>2, <1>3 DEF PassShape, Counters
      <4>3. c = N => p.arrived = N
        BY DEF PassShape, Counters
      <4>4. QED
        BY <1>2, <1>3, <2>1, <4>1, <4>2, <4>3
    <3>3. SlotShape(p.slot[l + 1], l + 1, h, c, e, l)
      BY <3>1, <3>2 DEF PassShape, SlotsShape
    <3>4. p.slot[l + 1].lam = FullLambda(Lag(h + (l + 1)))
      BY <3>3 DEF SlotShape, Placed
    <3>5. h + (l + 1) = h + 1 + l
      <4>1. \A x, y \in Nat : x + (y + 1) = x + 1 + y
        OBVIOUS
      <4>2. l \in Nat
        BY <1>3
      <4>3. h \in Nat
        BY <1>1
      <4>4. QED
        BY <4>1, <4>2, <4>3
    <3>6. QED
      BY <1>4, <2>1, <3>4, <3>5 DEF LambdaOut
  <2>2. CASE l + 1 = N
    <3>1. e = N
      BY <1>2, <1>3, <2>2
    <3>2. p.agg = FullLambda(h)
      BY <3>1, AggregateFull
    <3>3. Lag(h + 1 + l) = h
      BY <1>1, <1>3, <2>2 DEF Lag
    <3>4. QED
      BY <1>3, <1>4, <2>2, <3>2, <3>3 DEF LambdaOut
  <2>3. QED
    BY <1>3, <2>1, <2>2
<1>7. /\ m.zone = p.slot[j].zone /\ m.step = h /\ m.pos = p.sent
      /\ m.dt = DtOut(p) /\ m.lam = LambdaOut(p) /\ m.body = p.slot[j].body
  BY <1>2 DEF OutMessage
<1>8. l = 0 => DtOut(p) = ScheduledDt(h + 1)
  <2>1. SUFFICES ASSUME l = 0 PROVE DtOut(p) = ScheduledDt(h + 1)
    OBVIOUS
  <2>2. h + 1 + l = h + 1 /\ p.arrived > 0
    BY <1>1, <1>2, <1>3, <2>1
  <2>3. p.dt = ScheduledDt(h)
    BY <2>2 DEF PassShape, DataShape
  <2>4. ScheduledDt(h + 1) = AutoDt(FullLambda(Lag(h + 1)), ScheduledDt(h))
    BY <1>1, ScheduledNext
  <2>5. QED
    BY <1>4, <1>6, <2>1, <2>2, <2>3, <2>4 DEF DtOut
<1>9. h \in 1 .. Steps - 1
  BY <1>1
<1> HIDE DEF m, p, h, j
<1>10. MessageShape(m)
  BY <1>2, <1>4, <1>5, <1>6, <1>7, <1>8, <1>9 DEF MessageShape
<1>11. QED
  BY <1>4, <1>5, <1>7, <1>10 DEF m, p, h, j

\* The preloaded zones of pass 1.
LEMMA PreloadShape ==
  ASSUME NEW a \in Zones
  PROVE  LET m == MakePreload(a)
         IN  /\ m.zone = ZoneAt(1, a) /\ m.body = CompleteBody(m.zone, 1 - 1)
             /\ m.lam = FullLambda(Lag(1 + a)) /\ m.step = 0 /\ m.pos = a
             /\ a = 0 => m.dt = ScheduledDt(1)
<1>1. a \in 0 .. N - 1 /\ N \in Nat \ {0}
  BY ZonesFacts DEF Zones
<1>2. ZoneAt(1, a) = a
  <2>1. Rotation(1) = 0 /\ 1 \in Nat \ {0}
    BY RotationFacts
  <2>2. QED
    BY <1>1, <2>1, ZoneAtForm
<1>3. Lag(1 + a) = 0
  BY <1>1 DEF Lag
<1>4. QED
  BY <1>2, <1>3 DEF MakePreload, ScheduledDt

-----------------------------------------------------------------------------
(* From one control point of a pass to the next.                             *)

LEMMA WorkIntro ==
  ASSUME NEW point, NEW p, NEW h \in Passes, PointShape(point, p),
         NEW c, NEW e, NEW l, PassShape(p, h, c, e, l),
         c = NumComputed(point, p.pos), e = NumEnded(point, p.pos)
  PROVE  WorkShape(point, p, h)
<1>1. Len(p.outq) = e - l /\ e \in 0 .. N /\ l \in 0 .. e
  BY DEF PassShape, QueueShape, Counters
<1>2. NumLeft(point, p) = l
  <2>1. e - (e - l) = l
    BY <1>1, ZonesFacts
  <2>2. QED
    BY <1>1, <2>1 DEF NumLeft
<1>3. QED
  BY <1>2 DEF WorkShape

LEMMA WorkFresh ==
  ASSUME NEW h \in Passes
  PROVE  WorkShape("io", FreshPass(h), h)
<1>1. PassShape(FreshPass(h), h, 0, 0, 0) /\ FreshPass(h).pos = 0
  BY FreshShape DEF FreshPass
<1>2. NumComputed("io", 0) = 0 /\ NumEnded("io", 0) = 0 /\ PointShape("io", FreshPass(h))
  BY DEF NumComputed, NumEnded, PointShape
<1>3. QED
  BY <1>1, <1>2, WorkIntro

\* The locals are the same but for the transfer of the subinterval.
LEMMA WorkShift ==
  ASSUME NEW point, NEW p, NEW h, WorkShape(point, p, h), NEW next, NEW q,
         \/ point = "io" /\ next \in {"io", "check"}
         \/ point = "check" /\ next = "compute"
         \/ point = "flush" /\ next = "record" /\ p.outq = <<>>,
         q.pos = p.pos, q.slot = p.slot, q.outq = p.outq, q.sent = p.sent,
         q.arrived = p.arrived, q.dt = p.dt, q.agg = p.agg, q.rbuf = p.rbuf
  PROVE  WorkShape(next, q, h)
<1> DEFINE c == NumComputed(point, p.pos)
           e == NumEnded(point, p.pos)
           l == NumLeft(point, p)
<1>1. h \in Passes /\ PassShape(p, h, c, e, l)
  BY DEF WorkShape
<1>2. PassShape(q, h, c, e, l)
  BY <1>1, SameShape
<1>3. c = NumComputed(next, q.pos) /\ e = NumEnded(next, q.pos)
  BY DEF NumComputed, NumEnded
<1>4. PointShape(next, q)
  BY DEF WorkShape, PointShape
<1> HIDE DEF c, e, l
<1>5. QED
  BY <1>1, <1>2, <1>3, <1>4, WorkIntro

LEMMA WorkAccept ==
  ASSUME TypeOK, NEW k \in Nodes, WorkShape(pc[k], loc[k], pass[k]),
         loc[k].arrived \in Zones, NEW m \in Messages, pc[k] # "record",
         m.zone = ZoneAt(pass[k], loc[k].arrived),
         m.body = CompleteBody(m.zone, pass[k] - 1),
         m.lam = FullLambda(Lag(pass[k] + loc[k].arrived)),
         loc[k].arrived = 0 => m.dt = ScheduledDt(pass[k])
  PROVE  WorkShape(pc[k], Accept(k, m), pass[k])
<1> DEFINE p == loc[k]
           q == Accept(k, m)
           c == NumComputed(pc[k], p.pos)
           e == NumEnded(pc[k], p.pos)
           l == NumLeft(pc[k], p)
<1>1. pass[k] \in Passes /\ PassShape(p, pass[k], c, e, l) /\ PointShape(pc[k], p)
  BY DEF WorkShape
<1>2. q.pos = p.pos
  BY DEF Accept, TypeOK, PassStates
<1>3. PassShape(q, pass[k], c, e, l)
  <2> HIDE DEF c, e, l, q
  <2>1. QED
    BY <1>1, AcceptShape DEF q
<1>4. PointShape(pc[k], q)
  BY <1>1, <1>2 DEF PointShape
<1>5. c = NumComputed(pc[k], q.pos) /\ e = NumEnded(pc[k], q.pos)
  BY <1>2
<1> HIDE DEF c, e, l, q
<1>6. QED
  BY <1>1, <1>3, <1>4, <1>5, WorkIntro DEF q

\* The head of a periodic ring is held back, and nothing ends.
LEMMA WorkCompute ==
  ASSUME NEW p \in PassStates, NEW h, WorkShape("compute", p, h),
         p.arrived > LastNeeded(p.pos),
         NEW q, q = [p EXCEPT !.slot = ComputedSlots(p)]
  PROVE  /\ ComputeLegal(p)
         /\ DeferHead /\ p.pos = 0 => WorkShape(AfterPosition(p), NextPosition(q), h)
         /\ ~(DeferHead /\ p.pos = 0) => WorkShape("end", q, h)
<1> DEFINE e == NumEnded("compute", p.pos)
           l == NumLeft("compute", p)
<1>1. h \in Passes /\ p.pos \in Zones /\ p.pos \in Nat /\ N \in Nat \ {0}
  BY ZonesFacts DEF WorkShape, PassStates, Zones
<1>2. NumComputed("compute", p.pos) = p.pos
  BY DEF NumComputed
<1>3. PassShape(p, h, p.pos, e, l)
  BY <1>2 DEF WorkShape
<1> HIDE DEF l
<1>4. ComputeLegal(p) /\ PassShape(q, h, p.pos + 1, e, l)
  BY <1>1, <1>3, ComputeShape
<1>5. q \in PassStates /\ q.pos = p.pos
  BY ComputedSlotsType, PassUpdateTypes DEF PassStates
<1>6. ASSUME DeferHead, p.pos = 0
      PROVE  WorkShape(AfterPosition(p), NextPosition(q), h)
  <2>1. N >= 3 /\ p.pos + 1 < N /\ p.pos + 1 = 1
    BY <1>1, <1>6, DeferFacts
  <2>2. AfterPosition(p) = "io" /\ NextPosition(q) = [q EXCEPT !.pos = 1, !.op = 1]
    BY <1>5, <1>6, <2>1 DEF AfterPosition, NextPosition
  <2> DEFINE r == NextPosition(q)
  <2>3. /\ r.pos = 1 /\ r.slot = q.slot /\ r.outq = q.outq /\ r.sent = q.sent
        /\ r.arrived = q.arrived /\ r.dt = q.dt /\ r.agg = q.agg /\ r.rbuf = q.rbuf
    BY <1>5, <2>2 DEF PassStates
  <2> HIDE DEF r
  <2>4. PassShape(r, h, p.pos + 1, e, l)
    BY <1>4, <2>3, SameShape
  <2>5. p.pos + 1 = NumComputed("io", r.pos) /\ e = NumEnded("io", r.pos)
    BY <1>6, <2>1, <2>3 DEF NumComputed, NumEnded
  <2>6. PointShape("io", r)
    BY DEF PointShape
  <2> HIDE DEF e
  <2>7. WorkShape("io", r, h)
    BY <1>1, <2>4, <2>5, <2>6, WorkIntro
  <2>8. QED
    BY <2>2, <2>7 DEF r
<1>7. ASSUME ~(DeferHead /\ p.pos = 0)
      PROVE  WorkShape("end", q, h)
  <2>1. p.pos + 1 = NumComputed("end", q.pos) /\ e = NumEnded("end", q.pos)
    BY <1>5 DEF NumComputed, NumEnded
  <2>2. PointShape("end", q)
    BY <1>1, <1>5, <1>7 DEF PointShape
  <2> HIDE DEF e
  <2>3. QED
    BY <1>1, <1>4, <2>1, <2>2, WorkIntro
<1>8. QED
  BY <1>4, <1>6, <1>7

\* The position end_zone works on is the next in the order, and it is computed.
LEMMA EndPoint ==
  ASSUME NEW p \in PassStates, NEW h, NEW point \in {"end", "endhead"},
         WorkShape(point, p, h),
         NEW j, j = IF point = "end" THEN p.pos ELSE 0
  PROVE  /\ h \in Passes /\ NumEnded(point, p.pos) \in Zones
         /\ Order(NumEnded(point, p.pos)) = j
         /\ j < NumComputed(point, p.pos)
         /\ DeferHead /\ j = 0 => NumComputed(point, p.pos) = N
<1>1. /\ h \in Passes /\ p.pos \in Zones /\ p.pos \in 0 .. N - 1 /\ N \in Nat \ {0}
      /\ PointShape(point, p)
  BY ZonesFacts DEF WorkShape, PassStates, Zones
<1>2. CASE point = "end"
  <2>1. NumComputed(point, p.pos) = p.pos + 1 /\ j = p.pos
    BY <1>2 DEF NumComputed
  <2>2. NumEnded(point, p.pos) = IF DeferHead THEN p.pos - 1 ELSE p.pos
    BY <1>1, <1>2 DEF NumEnded, PointShape
  <2>3. DeferHead => p.pos > 0
    BY <1>1, <1>2 DEF PointShape
  <2>4. QED
    BY <1>1, <2>1, <2>2, <2>3 DEF Order, Zones
<1>3. CASE point = "endhead"
  <2>1. NumComputed(point, p.pos) = N /\ NumEnded(point, p.pos) = N - 1 /\ j = 0
    BY <1>3 DEF NumComputed, NumEnded
  <2>2. DeferHead
    BY <1>1, <1>3 DEF PointShape
  <2>3. QED
    BY <1>1, <2>1, <2>2 DEF Order, Zones
<1>4. QED
  BY <1>2, <1>3

LEMMA WorkEnd ==
  ASSUME NEW p \in PassStates, NEW h, NEW point \in {"end", "endhead"},
         WorkShape(point, p, h),
         NEW j, j = IF point = "end" THEN p.pos ELSE 0,
         NEW more, more <=> point = "end" /\ DeferHead /\ j = N - 1
  PROVE  /\ EndLegal(p.slot[j].fsm, j)
         /\ j \in Zones /\ p.slot[j].zone = ZoneAt(h, j) /\ p.slot[j].owned
         /\ more => WorkShape("endhead", EndedPass(p, j), h)
         /\ ~more => WorkShape(AfterPosition(p), NextPosition(EndedPass(p, j)), h)
<1> DEFINE c == NumComputed(point, p.pos)
           e == NumEnded(point, p.pos)
           l == NumLeft(point, p)
           q == EndedPass(p, j)
<1>1. /\ h \in Passes /\ p.pos \in Zones /\ p.pos \in 0 .. N - 1 /\ N \in Nat \ {0}
      /\ PointShape(point, p) /\ PassShape(p, h, c, e, l)
  BY ZonesFacts DEF WorkShape, PassStates, Zones
<1>2. e \in Zones /\ Order(e) = j /\ j < c /\ (DeferHead /\ j = 0 => c = N)
  BY EndPoint
<1>3. j \in Zones
  BY <1>2, OrderFacts
<1>4. q \in PassStates /\ q.pos = p.pos
  <2>1. q.pos = p.pos
    BY DEF EndedPass, PassStates
  <2>2. QED
    BY <1>3, <2>1, EndedPassType
<1>5. /\ EndLegal(p.slot[j].fsm, j) /\ p.slot[j].zone = ZoneAt(h, j) /\ p.slot[j].owned
      /\ PassShape(q, h, c, e + 1, l)
  <2> HIDE DEF c, e, l
  <2>1. QED
    BY <1>1, <1>2, EndShape
<1> HIDE DEF q, l
<1>6. ASSUME more
      PROVE  WorkShape("endhead", q, h)
  <2>1. /\ point = "end" /\ DeferHead /\ p.pos = N - 1 /\ p.pos > 0
    BY <1>1, <1>6 DEF PointShape
  <2>2. c = NumComputed("endhead", q.pos) /\ e + 1 = NumEnded("endhead", q.pos)
    BY <1>1, <2>1 DEF NumComputed, NumEnded
  <2>3. PointShape("endhead", q)
    BY <1>4, <2>1 DEF PointShape
  <2> HIDE DEF c, e
  <2>4. QED
    BY <1>1, <1>5, <2>2, <2>3, WorkIntro
<1>7. ASSUME ~more
      PROVE  WorkShape(AfterPosition(p), NextPosition(q), h)
  <2> DEFINE r == NextPosition(q)
             next == AfterPosition(p)
  <2>1. /\ r.slot = q.slot /\ r.outq = q.outq /\ r.sent = q.sent
        /\ r.arrived = q.arrived /\ r.dt = q.dt /\ r.agg = q.agg /\ r.rbuf = q.rbuf
        /\ r.pos = IF p.pos + 1 < N THEN p.pos + 1 ELSE p.pos
    BY <1>4 DEF PassStates, NextPosition
  <2>2. PassShape(r, h, c, e + 1, l)
    <3> HIDE DEF c, e, r
    <3>1. QED
      BY <1>5, <2>1, SameShape
  <2>3. c = NumComputed(next, r.pos) /\ e + 1 = NumEnded(next, r.pos)
    <3>1. CASE p.pos + 1 < N
      <4>1. next = "io" /\ r.pos = p.pos + 1
        BY <2>1, <3>1 DEF AfterPosition
      <4>2. point = "end" /\ (DeferHead => p.pos > 0)
        BY <1>1, <3>1 DEF PointShape
      <4> HIDE DEF r, next
      <4>3. QED
        BY <1>1, <4>1, <4>2 DEF NumComputed, NumEnded
    <3>2. CASE p.pos + 1 = N
      <4>1. next = "flush"
        BY <1>1, <3>2 DEF AfterPosition
      <4>2. point = "end" => ~DeferHead
        BY <1>1, <1>7, <3>2
      <4> HIDE DEF r, next
      <4>3. QED
        BY <1>1, <3>2, <4>1, <4>2 DEF NumComputed, NumEnded
    <3>3. QED
      BY <1>1, <3>1, <3>2
  <2>4. PointShape(next, r)
    BY DEF AfterPosition, PointShape
  <2> HIDE DEF c, e, r, next
  <2>5. WorkShape(next, r, h)
    BY <1>1, <2>2, <2>3, <2>4, WorkIntro
  <2>6. QED
    BY <2>5 DEF r, next
<1>8. QED
  BY <1>3, <1>5, <1>6, <1>7 DEF q

LEMMA WorkLeave ==
  ASSUME NEW point \in {"io", "flush"}, NEW p \in PassStates, NEW h,
         WorkShape(point, p, h), p.outq # <<>>, NEW t, NEW q,
         t.zone = p.slot[Head(p.outq)].zone, t.lam = p.slot[Head(p.outq)].lam,
         t.computed = p.slot[Head(p.outq)].computed, ~t.owned,
         q.slot = [p.slot EXCEPT ![Head(p.outq)] = t], q.outq = Tail(p.outq),
         h < Steps => q.sent = p.sent + 1, q.pos = p.pos,
         q.arrived = p.arrived, q.dt = p.dt, q.agg = p.agg, q.rbuf = p.rbuf
  PROVE  /\ WorkShape(point, q, h)
         /\ NumLeft(point, q) = NumLeft(point, p) + 1
<1> DEFINE c == NumComputed(point, p.pos)
           e == NumEnded(point, p.pos)
           l == NumLeft(point, p)
<1>1. h \in Passes /\ PassShape(p, h, c, e, l)
  BY DEF WorkShape
<1>2. Head(p.outq) = Order(l) /\ l \in Zones /\ l < e /\ e \in 0 .. N
  <2> HIDE DEF c, e, l
  <2>1. QED
    BY <1>1, QueueHead
<1>3. PassShape(q, h, c, e, l + 1)
  <2> HIDE DEF c, e, l
  <2>1. QED
    BY <1>1, <1>2, LeaveShape
<1>4. c = NumComputed(point, q.pos) /\ e = NumEnded(point, q.pos)
  OBVIOUS
<1>5. PointShape(point, q)
  BY DEF PointShape
<1>6. NumLeft(point, q) = l + 1
  <2>1. Len(q.outq) = e - (l + 1)
    BY <1>3 DEF PassShape, QueueShape
  <2>2. NumLeft(point, q) = e - (e - (l + 1))
    BY <1>4, <2>1 DEF NumLeft
  <2> HIDE DEF e, l
  <2>3. QED
    BY <1>2, <2>2, ZonesFacts DEF Zones
<1> HIDE DEF c, e, l
<1>7. WorkShape(point, q, h)
  BY <1>1, <1>3, <1>4, <1>5, WorkIntro
<1>8. QED
  BY <1>6, <1>7 DEF l

-----------------------------------------------------------------------------
(* The zones reach every node in the order it expects them, each at the      *)
(* state it must have, and so no operation of a pass is ever refused: the    *)
(* shape of the passes and the order of the zones on the edges are one       *)
(* inductive invariant.                                                      *)


\* The place of a zone in the stream of an edge: the q-th zone sent in pass h;
\* after the last zone of a pass comes the first of the sender's next pass.
Place(h, q) == IF q < N THEN <<h, q>> ELSE <<h + Z, 0>>

Idle(k) == pc[k] \in {"unborn", "loop"}
Alive(k) == Idle(k) \/ pc[k] \in Working
Sends(k) == Alive(k) /\ pass[k] < Steps

\* The zone node k sends next, and the one it receives next.
SendPlace(k) == Place(pass[k], IF Idle(k) THEN 0 ELSE loc[k].sent)
RecvPlace(k) ==
  IF pass[k] = 1 THEN Place(0, N)
  ELSE Place(pass[k] - 1, IF Idle(k) THEN 0 ELSE loc[k].arrived)
PlaceOf(m) == Place(m.step, m.pos)
AfterPlace(m) == Place(m.step, m.pos + 1)

\* The edge from node e to node r: consecutive zones, up to what e sends next
\* from what r expects next, as far as these nodes still run.
EdgeStream(e, r) ==
  /\ \A q \in 1 .. Len(chan[e]) - 1 : PlaceOf(chan[e][q + 1]) = AfterPlace(chan[e][q])
  /\ chan[e] # <<>> /\ Alive(r) => PlaceOf(chan[e][1]) = RecvPlace(r)
  /\ chan[e] # <<>> /\ Sends(e) => SendPlace(e) = AfterPlace(chan[e][Len(chan[e])])
  /\ chan[e] = <<>> /\ Sends(e) /\ Alive(r) => SendPlace(e) = RecvPlace(r)

StreamInv ==
  \A e, r \in Nodes : ~EdgeDown(e) /\ InEdge(r) = e => EdgeStream(e, r)

MessagesInv ==
  \A e \in Nodes : \A q \in 1 .. Len(chan[e]) : MessageShape(chan[e][q])

DataInv == WorkInv /\ MessagesInv /\ StreamInv

-----------------------------------------------------------------------------
(* What a step of a node does to the data, if no operation is refused.       *)

Moves(k, x, q) ==
  /\ Goto(k, x) /\ loc' = [loc EXCEPT ![k] = q]
  /\ UNCHANGED <<pass, stats>>

SentPass(p) ==
  [p EXCEPT !.outq = Tail(@), !.sent = @ + 1,
            !.slot[Head(p.outq)] = SentSlot(@)]
CollectedPass(p) ==
  [p EXCEPT !.outq = Tail(@), !.slot[Head(p.outq)] = MovedOut(@)]

Stops(k) ==
  /\ pc[k] # "unborn"
  /\ \E x \in {"closing", "done"} : Moves(k, x, loc[k])
  /\ UNCHANGED <<chan, final, level>>
Starts(k) ==
  /\ pc[k] = "loop" /\ pass[k] <= Steps
  /\ Moves(k, "io", FreshPass(pass[k]))
  /\ UNCHANGED <<chan, final, level>>
Awaits(k) == pc[k] \in {"io", "compute"} /\ loc[k].arrived \in Zones
Loads(k) ==
  /\ Awaits(k) /\ pass[k] = 1
  /\ Moves(k, pc[k], Accept(k, MakePreload(loc[k].arrived)))
  /\ UNCHANGED <<chan, final, level>>
Receives(k) ==
  LET e == InEdge(k)
  IN  /\ Awaits(k) /\ pass[k] # 1 /\ ~EdgeDown(e) /\ chan[e] # <<>>
      /\ InOrder(k, Head(chan[e]))
      /\ Moves(k, pc[k], Accept(k, Head(chan[e])))
      /\ chan' = [chan EXCEPT ![e] = Tail(@)]
      /\ UNCHANGED <<final, level>>
Shifts(k) ==
  /\ \E x \in Working, q \in {loc[k], [loc[k] EXCEPT !.op = 2]} :
       /\ Moves(k, x, q)
       /\ \/ pc[k] = "io" /\ x \in {"io", "check"}
          \/ pc[k] = "check" /\ x = "compute"
          \/ pc[k] = "flush" /\ x = "record" /\ loc[k].outq = <<>>
  /\ UNCHANGED <<chan, final, level>>
Leaving(k) == pc[k] \in {"io", "flush"} /\ loc[k].outq # <<>>
Emits(k) ==
  /\ Leaving(k) /\ pass[k] # Steps
  /\ chan' = IF EdgeDown(k) THEN chan
             ELSE [chan EXCEPT ![k] = Append(@, OutMessage(k))]
  /\ Moves(k, pc[k], SentPass(loc[k]))
  /\ UNCHANGED <<final, level>>
Collects(k) ==
  LET s == loc[k].slot[Head(loc[k].outq)]
  IN  /\ Leaving(k) /\ pass[k] = Steps
      /\ final' = [final EXCEPT ![s.zone] = s.body]
      /\ Moves(k, pc[k], CollectedPass(loc[k]))
      /\ UNCHANGED <<chan, level>>
Computes(k) ==
  LET p == loc[k]
      q == [p EXCEPT !.slot = ComputedSlots(p)]
  IN  /\ pc[k] = "compute" /\ p.arrived > LastNeeded(p.pos)
      /\ IF DeferHead /\ p.pos = 0 THEN Moves(k, AfterPosition(p), NextPosition(q))
         ELSE Moves(k, "end", q)
      /\ UNCHANGED <<chan, final, level>>
Ends(k) ==
  LET p == loc[k]
      j == EndPosition(k)
      q == EndedPass(p, j)
  IN  /\ pc[k] \in {"end", "endhead"}
      /\ IF pc[k] = "end" /\ DeferHead /\ j = N - 1 THEN Moves(k, "endhead", q)
         ELSE Moves(k, AfterPosition(p), NextPosition(q))
      /\ level' = [level EXCEPT ![p.slot[j].zone] = pass[k]]
      /\ UNCHANGED <<chan, final>>

\* The steps of a node that neither stop it nor end its pass.
Works(k) ==
  /\ \/ Starts(k) \/ Loads(k) \/ Receives(k) \/ Shifts(k) \/ Emits(k) \/ Collects(k)
     \/ Computes(k) \/ Ends(k)
  /\ UNCHANGED <<closed, haltVars, mainVars>>

LEMMA PassRange ==
  ASSUME TypeOK, PassInv, NEW k \in Nodes
  PROVE  pass[k] \in Nat \ {0}
<1>1. PICK q \in Nat : pass[k] = k + 1 + q * Z
  BY DEF PassInv, PassOf
<1>2. q * Z \in Nat /\ k \in Nat
  BY ZonesFacts DEF Nodes
<1>3. QED
  BY <1>1, <1>2

\* A zone received next is the one expected.
LEMMA NextInOrder ==
  ASSUME TypeOK, DataInv, PassInv, NEW k \in Nodes, pc[k] \in Working,
         loc[k].arrived \in Zones, pass[k] # 1,
         ~EdgeDown(InEdge(k)), chan[InEdge(k)] # <<>>
  PROVE  InOrder(k, Head(chan[InEdge(k)])) /\ MessageShape(Head(chan[InEdge(k)]))
<1> DEFINE e == InEdge(k)
           m == Head(chan[e])
<1>1. e \in Nodes /\ chan[e] \in Seq(Messages)
  BY EdgesAreNodes DEF TypeOK
<1>2. m = chan[e][1] /\ 1 \in 1 .. Len(chan[e])
  BY <1>1, HeadTailProperties, EmptySeq
<1>3. MessageShape(m)
  BY <1>1, <1>2 DEF DataInv, MessagesInv
<1>4. PlaceOf(m) = RecvPlace(k)
  BY <1>1, <1>2 DEF DataInv, StreamInv, EdgeStream, Alive
<1>5. Place(m.step, m.pos) = Place(pass[k] - 1, loc[k].arrived)
  BY <1>4 DEF PlaceOf, RecvPlace, Idle, Working
<1>6. m.step = pass[k] - 1 /\ m.pos = loc[k].arrived
  <2>1. m.pos \in 0 .. N - 1 /\ loc[k].arrived \in 0 .. N - 1 /\ N \in Nat
    BY <1>3, ZonesFacts DEF MessageShape, Zones
  <2>2. <<m.step, m.pos>> = <<pass[k] - 1, loc[k].arrived>>
    BY <1>5, <2>1 DEF Place
  <2>3. QED
    BY <2>2
<1>7. m.step + 1 = pass[k]
  BY <1>6, PassRange
<1>8. QED
  BY <1>3, <1>6, <1>7 DEF InOrder, MessageShape

\* No exception of the protocol: every step of a node is of one of these kinds.
LEMMA NodeKinds ==
  ASSUME ControlInv, PassInv, DataInv, NEW k \in Nodes, NodeStep(k)
  PROVE  /\ Stops(k) \/ Works(k) \/ RecordPass(k)
         /\ haltKind' = haltKind \/ haltKind' \in FaultKinds
         /\ closed' = closed \/ closed' = closed + 1
<1> DEFINE p == loc[k]
           Goal == /\ Stops(k) \/ Works(k) \/ RecordPass(k)
                   /\ haltKind' = haltKind \/ haltKind' \in FaultKinds
                   /\ closed' = closed \/ closed' = closed + 1
<1>0. /\ TypeOK /\ p \in PassStates /\ pass[k] \in Nat \ {0} /\ pc[k] \in NodePoints
      /\ pc \in [Nodes -> NodePoints] /\ loc \in [Nodes -> PassStates]
  BY PassRange DEF ControlInv, TypeOK
<1>1. loc = [loc EXCEPT ![k] = p] /\ pc = [pc EXCEPT ![k] = pc[k]]
  BY <1>0
<1>2. pc[k] \in Working => WorkShape(pc[k], p, pass[k])
  BY DEF DataInv, WorkInv
<1>3. /\ UNCHANGED haltVars => haltKind' = haltKind
  BY DEF haltVars
<1>4. CASE NodeReturns(k)
  <2>1. Stops(k)
    BY <1>1, <1>4 DEF NodeReturns, Stops, Moves
  <2>2. QED
    BY <1>3, <1>4, <2>1 DEF NodeReturns
<1>5. CASE StartPass(k)
  <2>1. Starts(k) /\ UNCHANGED <<closed, haltVars, mainVars>>
    BY <1>5 DEF StartPass, Starts, Moves
  <2>2. QED
    BY <1>3, <2>1 DEF Works
<1>6. CASE TakePreload(k)
  <2>1. AwaitsArrival(k) /\ p.arrived \in Zones /\ pass[k] = 1
    BY <1>0, <1>6, ArrivalIsPosition DEF TakePreload
  <2>2. InOrder(k, MakePreload(p.arrived))
    BY <2>1, PreloadShape DEF InOrder
  <2>3. Awaits(k)
    BY <2>1 DEF AwaitsArrival, Awaits
  <2>4. Loads(k)
    BY <1>1, <1>6, <2>1, <2>2, <2>3 DEF TakePreload, TakeArrival, Loads, Moves, Goto
  <2>5. UNCHANGED <<closed, haltVars, mainVars>>
    BY <1>6, <2>2 DEF TakePreload, TakeArrival
  <2>6. QED
    BY <1>3, <2>4, <2>5 DEF Works
<1>7. CASE RecvZone(k)
  <2>1. /\ AwaitsArrival(k) /\ p.arrived \in Zones /\ pass[k] # 1
        /\ ~EdgeDown(InEdge(k)) /\ chan[InEdge(k)] # <<>>
    BY <1>0, <1>7, ArrivalIsPosition DEF RecvZone
  <2>2. InOrder(k, Head(chan[InEdge(k)]))
    BY <1>0, <2>1, NextInOrder DEF AwaitsArrival, Working
  <2>3. Awaits(k)
    BY <2>1 DEF AwaitsArrival, Awaits
  <2>4. Receives(k)
    BY <1>1, <1>7, <2>1, <2>2, <2>3 DEF RecvZone, TakeArrival, Receives, Moves, Goto
  <2>5. UNCHANGED <<closed, haltVars, mainVars>>
    BY <1>7, <2>2 DEF RecvZone, TakeArrival
  <2>6. QED
    BY <1>3, <2>4, <2>5 DEF Works
<1>8. CASE RecvShutDown(k)
  <2>1. Stops(k)
    BY <1>1, <1>8 DEF RecvShutDown, AwaitsArrival, Stops, Moves
  <2>2. QED
    BY <1>3, <1>8, <2>1 DEF RecvShutDown
<1>9. CASE RecvDone(k)
  <2>1. Shifts(k)
    BY <1>0, <1>9 DEF RecvDone, NextOp, Shifts, Moves, Working
  <2>2. UNCHANGED <<closed, haltVars, mainVars>>
    BY <1>9 DEF RecvDone
  <2>3. QED
    BY <1>3, <2>1, <2>2 DEF Works
<1>10. CASE SendZone(k)
  <2> DEFINE j == Head(p.outq)
  <2>1. Leaving(k) /\ pass[k] # Steps /\ Flushing(k)
    BY <1>10 DEF SendZone, Flushing, Leaving
  <2>2. pc[k] \in {"io", "flush"}
    BY <2>1 DEF Leaving
  <2>3. WorkShape(pc[k], p, pass[k])
    BY <1>2, <2>2 DEF Working
  <2>4. p.slot[j].fsm.type = "p"
    <3>1. PassShape(p, pass[k], NumComputed(pc[k], p.pos), NumEnded(pc[k], p.pos),
                    NumLeft(pc[k], p)) /\ pass[k] \in Passes
      BY <2>3 DEF WorkShape
    <3>2. QED
      BY <1>0, <2>1, <3>1, QueueHead DEF Leaving
  <2>5. Allowed(p.slot[j].fsm.type, "SEND")
    BY <2>4 DEF Allowed
  <2>6. /\ chan' = IF EdgeDown(k) THEN chan
                   ELSE [chan EXCEPT ![k] = Append(@, OutMessage(k))]
        /\ loc' = [loc EXCEPT ![k].outq = Tail(@), ![k].sent = @ + 1,
                              ![k].slot[j] = SentSlot(@)]
        /\ UNCHANGED <<pc, haltVars, pass, closed, stats, final, mainVars, level>>
    BY <1>10, <2>5 DEF SendZone, OutEdge
  <2>7. loc' = [loc EXCEPT ![k] = SentPass(p)]
    BY <1>0, <2>6 DEF SentPass
  <2>8. Emits(k)
    BY <1>1, <2>1, <2>6, <2>7 DEF Emits, Moves, Goto
  <2>9. QED
    BY <1>3, <2>6, <2>8 DEF Works
<1>11. CASE CollectZone(k)
  <2>1. Leaving(k) /\ pass[k] = Steps
    BY <1>11 DEF CollectZone, Flushing, Leaving
  <2>2. loc' = [loc EXCEPT ![k] = CollectedPass(p)]
    BY <1>0, <1>11 DEF CollectZone, CollectedPass
  <2>3. Collects(k) /\ UNCHANGED <<closed, haltVars, mainVars>>
    BY <1>1, <1>11, <2>1, <2>2 DEF CollectZone, Collects, Moves, Goto
  <2>4. QED
    BY <1>3, <2>3 DEF Works
<1>12. CASE FlushDone(k)
  <2>1. Shifts(k)
    <3>1. CASE pc[k] = "flush"
      <4>1. Moves(k, "record", p) /\ p.outq = <<>>
        BY <1>1, <1>12, <3>1 DEF FlushDone, Moves
      <4>2. QED
        BY <1>12, <3>1, <4>1 DEF Shifts, FlushDone, Working
    <3>2. CASE pc[k] # "flush"
      BY <1>0, <1>12, <3>2 DEF FlushDone, Flushing, NextOp, Shifts, Moves, Working
    <3>3. QED
      BY <3>1, <3>2
  <2>2. UNCHANGED <<closed, haltVars, mainVars>>
    BY <1>12 DEF FlushDone
  <2>3. QED
    BY <1>3, <2>1, <2>2 DEF Works
<1>13. CASE FlushSeesHalt(k)
  <2>1. Stops(k)
    BY <1>1, <1>13 DEF FlushSeesHalt, Flushing, Stops, Moves
  <2>2. QED
    BY <1>3, <1>13, <2>1 DEF FlushSeesHalt
<1>14. CASE HaltCheck(k)
  <2>1. UNCHANGED <<closed, haltVars, mainVars>>
    BY <1>14 DEF HaltCheck
  <2>2. CASE HaltOn
    <3>1. Stops(k)
      BY <1>1, <1>14, <2>2 DEF HaltCheck, Stops, Moves
    <3>2. QED
      BY <1>3, <2>1, <3>1
  <2>3. CASE ~HaltOn
    <3>1. Moves(k, "compute", p) /\ pc[k] = "check" /\ UNCHANGED <<chan, final, level>>
      BY <1>1, <1>14, <2>3 DEF HaltCheck, Moves
    <3>2. Shifts(k)
      BY <3>1 DEF Shifts, Working
    <3>3. QED
      BY <1>3, <2>1, <3>2 DEF Works
  <2>4. QED
    BY <2>2, <2>3
<1>15. CASE ComputeZone(k)
  <2>1. pc[k] = "compute" /\ p.arrived > LastNeeded(p.pos)
    BY <1>15 DEF ComputeZone
  <2>2. ComputeLegal(p)
    BY <1>0, <1>2, <2>1, WorkCompute DEF Working
  <2>3. Computes(k) /\ UNCHANGED <<closed, haltVars, mainVars>>
    BY <1>15, <2>1, <2>2 DEF ComputeZone, Computes, Moves
  <2>4. QED
    BY <1>3, <2>3 DEF Works
<1>16. CASE EndZone(k)
  <2> DEFINE j == EndPosition(k)
  <2>1. pc[k] \in {"end", "endhead"} /\ j = IF pc[k] = "end" THEN p.pos ELSE 0
    BY <1>16 DEF EndZone, EndPosition
  <2>2. EndLegal(p.slot[j].fsm, j)
    <3>1. WorkShape(pc[k], p, pass[k])
      BY <1>2, <2>1, SMTT(30) DEF Working
    <3>2. QED
      BY <1>0, <2>1, <3>1, WorkEnd
  <2>3. Ends(k) /\ UNCHANGED <<closed, haltVars, mainVars>>
    BY <1>16, <2>1, <2>2 DEF EndZone, Ends, Moves
  <2>4. QED
    BY <1>3, <2>3 DEF Works
<1>17. CASE NodeFault(k)
  <2>1. PICK kind \in FaultsAt(pc[k]) : SetHalt(k, kind)
    BY <1>17 DEF NodeFault
  <2>2. kind \in FaultKinds /\ pc[k] # "unborn"
    BY <2>1, ConveyorAssumption DEF FaultsAt, ConveyorAssumption
  <2>3. \E x \in {"closing", "done"} : Goto(k, x)
    BY <2>1 DEF SetHalt
  <2>4. haltKind' = haltKind \/ haltKind' = kind
    BY <2>1 DEF SetHalt, haltVars
  <2>5. Stops(k)
    BY <1>1, <1>17, <2>2, <2>3 DEF NodeFault, Stops, Moves
  <2>6. QED
    BY <1>17, <2>2, <2>4, <2>5 DEF NodeFault
<1>18. CASE RecordPass(k)
  BY <1>3, <1>18 DEF RecordPass
<1>19. CASE CloseEdge(k)
  <2>1. Stops(k)
    BY <1>1, <1>19 DEF CloseEdge, Stops, Moves, Goto
  <2>2. QED
    BY <1>3, <1>19, <2>1 DEF CloseEdge
<1>20. QED
  BY <1>4, <1>5, <1>6, <1>7, <1>8, <1>9, <1>10, <1>11, <1>12, <1>13, <1>14, <1>15,
     <1>16, <1>17, <1>18, <1>19 DEF NodeStep

-----------------------------------------------------------------------------
(* The shape of the passes and of the zones in flight is kept.               *)

LEMMA MovesFacts ==
  ASSUME TypeOK, NEW k \in Nodes, NEW x, NEW q, Moves(k, x, q)
  PROVE  /\ pc'[k] = x /\ loc'[k] = q
         /\ \A l \in Nodes : l # k => pc'[l] = pc[l] /\ loc'[l] = loc[l]
         /\ pass' = pass /\ stats' = stats
BY DEF Moves, Goto, TypeOK

LEMMA WorkKeeps ==
  ASSUME TypeOK, WorkInv, NEW k \in Nodes, NEW x, NEW q, Moves(k, x, q),
         x \in Working => WorkShape(x, q, pass[k])
  PROVE  WorkInv'
<1>1. /\ pc'[k] = x /\ loc'[k] = q /\ pass' = pass
      /\ \A l \in Nodes : l # k => pc'[l] = pc[l] /\ loc'[l] = loc[l]
  BY MovesFacts
<1>2. \A l \in Nodes : pc'[l] \in Working => WorkShape(pc'[l], loc'[l], pass'[l])
  BY <1>1 DEF WorkInv
<1>3. QED
  BY <1>2 DEF WorkInv

LEMMA WorkWorks ==
  ASSUME TypeOK, PassInv, DataInv, NEW k \in Nodes, Works(k)
  PROVE  WorkInv'
<1> DEFINE p == loc[k]
<1>0. /\ WorkInv /\ p \in PassStates /\ pass[k] \in Nat \ {0}
      /\ pc[k] \in Working => WorkShape(pc[k], p, pass[k])
  BY PassRange DEF DataInv, WorkInv, TypeOK
<1>1. CASE Starts(k)
  <2>1. pass[k] \in Passes
    BY <1>0, <1>1, ZonesFacts DEF Starts, Passes
  <2>2. WorkShape("io", FreshPass(pass[k]), pass[k])
    BY <2>1, WorkFresh
  <2>3. QED
    BY <1>0, <1>1, <2>2, WorkKeeps DEF Starts
<1>2. CASE Loads(k)
  <2> DEFINE a == p.arrived
             m == MakePreload(a)
  <2>1. pc[k] \in {"io", "compute"} /\ a \in Zones /\ pass[k] = 1 /\ Moves(k, pc[k], Accept(k, m))
    BY <1>2 DEF Loads, Awaits
  <2>2. /\ m.zone = ZoneAt(1, a) /\ m.body = CompleteBody(m.zone, 1 - 1)
        /\ m.lam = FullLambda(Lag(1 + a)) /\ (a = 0 => m.dt = ScheduledDt(1))
        /\ m \in Messages
    BY <2>1, PreloadShape, PreloadType
  <2> HIDE DEF m
  <2>3. WorkShape(pc[k], Accept(k, m), pass[k])
    BY <1>0, <2>1, <2>2, WorkAccept DEF Working
  <2>4. QED
    BY <1>0, <2>1, <2>3, WorkKeeps
<1>3. CASE Receives(k)
  <2> DEFINE a == p.arrived
             e == InEdge(k)
             m == Head(chan[e])
  <2>1. /\ pc[k] \in {"io", "compute"} /\ a \in Zones /\ pass[k] # 1
        /\ ~EdgeDown(e) /\ chan[e] # <<>> /\ Moves(k, pc[k], Accept(k, m))
    BY <1>3 DEF Receives, Awaits
  <2>2. InOrder(k, m) /\ MessageShape(m)
    BY <2>1, NextInOrder DEF Working
  <2>3. m \in Messages
    <3>1. chan[e] \in Seq(Messages)
      BY EdgesAreNodes DEF TypeOK
    <3>2. QED
      BY <2>1, <3>1, HeadTailProperties
  <2> HIDE DEF m
  <2>4. m.step = pass[k] - 1 /\ m.step + 1 = pass[k] /\ m.pos = a
    BY <1>0, <2>2 DEF InOrder
  <2>5. /\ m.zone = ZoneAt(pass[k], a) /\ m.body = CompleteBody(m.zone, pass[k] - 1)
        /\ m.lam = FullLambda(Lag(pass[k] + a)) /\ (a = 0 => m.dt = ScheduledDt(pass[k]))
    BY <2>2, <2>4 DEF MessageShape
  <2>6. WorkShape(pc[k], Accept(k, m), pass[k])
    BY <1>0, <2>1, <2>3, <2>5, WorkAccept DEF Working
  <2>7. QED
    BY <1>0, <2>1, <2>6, WorkKeeps
<1>4. CASE Shifts(k)
  <2>1. PICK x \in Working, q \in {p, [p EXCEPT !.op = 2]} :
          /\ Moves(k, x, q)
          /\ \/ pc[k] = "io" /\ x \in {"io", "check"}
             \/ pc[k] = "check" /\ x = "compute"
             \/ pc[k] = "flush" /\ x = "record" /\ p.outq = <<>>
    BY <1>4 DEF Shifts
  <2>2. /\ q.pos = p.pos /\ q.slot = p.slot /\ q.outq = p.outq /\ q.sent = p.sent
        /\ q.arrived = p.arrived /\ q.dt = p.dt /\ q.agg = p.agg /\ q.rbuf = p.rbuf
    BY <1>0 DEF PassStates
  <2>3. WorkShape(pc[k], p, pass[k])
    BY <1>0, <2>1 DEF Working
  <2>4. WorkShape(x, q, pass[k])
    BY <2>1, <2>2, <2>3, WorkShift
  <2>5. QED
    BY <1>0, <2>1, <2>4, WorkKeeps
<1>5. CASE Emits(k) \/ Collects(k)
  <2> DEFINE j == Head(p.outq)
  <2>1. /\ pc[k] \in {"io", "flush"} /\ p.outq # <<>>
        /\ \/ pass[k] # Steps /\ Moves(k, pc[k], SentPass(p))
           \/ pass[k] = Steps /\ Moves(k, pc[k], CollectedPass(p))
    BY <1>5 DEF Emits, Collects, Leaving
  <2>2. j \in Zones /\ p.slot[j] \in Slots /\ WorkShape(pc[k], p, pass[k])
    BY <1>0, <2>1, TailType DEF PassStates, Working
  <2>3. CASE pass[k] # Steps
    <3> DEFINE q == SentPass(p)
               t == SentSlot(p.slot[j])
    <3>1. t.zone = p.slot[j].zone /\ t.lam = p.slot[j].lam
          /\ t.computed = p.slot[j].computed /\ ~t.owned
      BY <2>2 DEF SentSlot, MovedOut, Slots
    <3>2. /\ q.slot = [p.slot EXCEPT ![j] = t] /\ q.outq = Tail(p.outq)
          /\ q.sent = p.sent + 1 /\ q.pos = p.pos
          /\ q.arrived = p.arrived /\ q.dt = p.dt /\ q.agg = p.agg /\ q.rbuf = p.rbuf
      BY <1>0 DEF SentPass, PassStates
    <3> HIDE DEF q, t
    <3>3. WorkShape(pc[k], q, pass[k])
      BY <1>0, <2>1, <2>2, <3>1, <3>2, WorkLeave
    <3>4. QED
      BY <1>0, <2>1, <2>3, <3>3, WorkKeeps DEF q
  <2>4. CASE pass[k] = Steps
    <3> DEFINE q == CollectedPass(p)
               t == MovedOut(p.slot[j])
    <3>1. t.zone = p.slot[j].zone /\ t.lam = p.slot[j].lam
          /\ t.computed = p.slot[j].computed /\ ~t.owned
      BY <2>2 DEF MovedOut, Slots
    <3>2. /\ q.slot = [p.slot EXCEPT ![j] = t] /\ q.outq = Tail(p.outq)
          /\ q.pos = p.pos
          /\ q.arrived = p.arrived /\ q.dt = p.dt /\ q.agg = p.agg /\ q.rbuf = p.rbuf
      BY <1>0 DEF CollectedPass, PassStates
    <3>3. ~(pass[k] < Steps)
      BY <2>4, ZonesFacts
    <3> HIDE DEF q, t
    <3>4. WorkShape(pc[k], q, pass[k])
      BY <1>0, <2>1, <2>2, <3>1, <3>2, <3>3, WorkLeave
    <3>5. QED
      BY <1>0, <2>1, <2>4, <3>4, WorkKeeps DEF q
  <2>5. QED
    BY <2>3, <2>4
<1>6. CASE Computes(k)
  <2> DEFINE q == [p EXCEPT !.slot = ComputedSlots(p)]
  <2>1. pc[k] = "compute" /\ p.arrived > LastNeeded(p.pos) /\ WorkShape("compute", p, pass[k])
    BY <1>0, <1>6 DEF Computes, Working
  <2>2. /\ DeferHead /\ p.pos = 0 => WorkShape(AfterPosition(p), NextPosition(q), pass[k])
        /\ ~(DeferHead /\ p.pos = 0) => WorkShape("end", q, pass[k])
    BY <1>0, <2>1, WorkCompute
  <2>3. IF DeferHead /\ p.pos = 0 THEN Moves(k, AfterPosition(p), NextPosition(q))
        ELSE Moves(k, "end", q)
    BY <1>6 DEF Computes
  <2> HIDE DEF q
  <2>4. QED
    BY <1>0, <2>2, <2>3, WorkKeeps
<1>7. CASE Ends(k)
  <2> DEFINE j == EndPosition(k)
             q == EndedPass(p, j)
             more == pc[k] = "end" /\ DeferHead /\ j = N - 1
  <2>1. /\ pc[k] \in {"end", "endhead"} /\ j = IF pc[k] = "end" THEN p.pos ELSE 0
        /\ WorkShape(pc[k], p, pass[k])
    BY <1>0, <1>7 DEF Ends, EndPosition, Working
  <2>2. IF more THEN Moves(k, "endhead", q) ELSE Moves(k, AfterPosition(p), NextPosition(q))
    BY <1>7 DEF Ends
  <2>3. /\ more => WorkShape("endhead", q, pass[k])
        /\ ~more => WorkShape(AfterPosition(p), NextPosition(q), pass[k])
    <3> HIDE DEF j
    <3>1. QED
      BY <1>0, <2>1, WorkEnd, SMTT(30)
  <2> HIDE DEF q, more
  <2>4. QED
    BY <1>0, <2>2, <2>3, WorkKeeps
<1>8. QED
  BY <1>1, <1>2, <1>3, <1>4, <1>5, <1>6, <1>7 DEF Works

LEMMA MessagesWorks ==
  ASSUME TypeOK, PassInv, DataInv, NEW k \in Nodes, Works(k)
  PROVE  MessagesInv'
<1>0. MessagesInv /\ chan \in [Nodes -> Seq(Messages)]
  BY DEF DataInv, TypeOK
<1>1. CASE Receives(k)
  <2> DEFINE e == InEdge(k)
  <2>1. e \in Nodes /\ chan[e] \in Seq(Messages) /\ chan[e] # <<>>
        /\ chan' = [chan EXCEPT ![e] = Tail(@)]
    BY <1>0, <1>1, EdgesAreNodes DEF Receives
  <2>2. /\ Len(chan'[e]) = Len(chan[e]) - 1 /\ Len(chan[e]) \in Nat
        /\ \A q \in 1 .. Len(chan[e]) - 1 : chan'[e][q] = chan[e][q + 1]
    BY <1>0, <2>1, HeadTailProperties, LenProperties
  <2>3. \A d \in Nodes : d # e => chan'[d] = chan[d]
    BY <1>0, <2>1
  <2>4. \A q \in 1 .. Len(chan'[e]) : MessageShape(chan'[e][q])
    <3> TAKE q \in 1 .. Len(chan'[e])
    <3>1. q + 1 \in 1 .. Len(chan[e]) /\ chan'[e][q] = chan[e][q + 1]
      BY <2>2
    <3>2. QED
      BY <1>0, <2>1, <3>1 DEF MessagesInv
  <2> HIDE DEF e
  <2>5. QED
    BY <1>0, <2>1, <2>3, <2>4 DEF MessagesInv
<1>2. CASE Emits(k)
  <2> DEFINE m == OutMessage(k)
  <2>1. /\ pc[k] \in {"io", "flush"} /\ loc[k].outq # <<>> /\ pass[k] # Steps
        /\ chan' = chan \/ chan' = [chan EXCEPT ![k] = Append(@, m)]
    BY <1>2 DEF Emits, Leaving
  <2>2. MessageShape(m) /\ m \in Messages
    <3>1. WorkShape(pc[k], loc[k], pass[k])
      BY <2>1 DEF DataInv, WorkInv, Working
    <3>2. QED
      BY <2>1, <3>1, OutMessageShape, OutMessageType DEF WorkShape
  <2>3. CASE chan' = chan
    BY <1>0, <2>3 DEF MessagesInv
  <2>4. CASE chan' = [chan EXCEPT ![k] = Append(@, m)]
    <3> HIDE DEF m
    <3>1. /\ Len(chan'[k]) = Len(chan[k]) + 1 /\ Len(chan[k]) \in Nat
          /\ \A q \in 1 .. Len(chan[k]) : chan'[k][q] = chan[k][q]
          /\ chan'[k][Len(chan[k]) + 1] = m
      BY <1>0, <2>2, <2>4, AppendProperties, LenProperties
    <3>2. \A d \in Nodes : d # k => chan'[d] = chan[d]
      BY <1>0, <2>4
    <3>3. \A q \in 1 .. Len(chan'[k]) : MessageShape(chan'[k][q])
      <4> TAKE q \in 1 .. Len(chan'[k])
      <4>1. q \in 1 .. Len(chan[k]) \/ q = Len(chan[k]) + 1
        BY <3>1
      <4>2. QED
        BY <1>0, <2>2, <3>1, <4>1 DEF MessagesInv
    <3>4. QED
      BY <1>0, <3>2, <3>3 DEF MessagesInv
  <2>5. QED
    BY <2>1, <2>3, <2>4
<1>3. CASE chan' = chan
  BY <1>0, <1>3 DEF MessagesInv
<1>4. QED
  BY <1>1, <1>2, <1>3
     DEF Works, Starts, Loads, Shifts, Collects, Computes, Ends

-----------------------------------------------------------------------------
(* The order of the zones on the edges is kept.                              *)

LEMMA PlaceFacts ==
  ASSUME NEW h \in Nat
  PROVE  /\ Place(h, N) = Place(h + Z, 0)
         /\ \A q \in Zones : Place(h, q) = <<h, q>>
BY ZonesFacts DEF Place, Zones

\* Steps that touch no edge and no place only lose nodes and edges.
LEMMA StreamKept ==
  ASSUME TypeOK, StreamInv, closed' \in Nat, closed' >= closed, chan' = chan,
         \A l \in Nodes :
           Alive(l)' => /\ Alive(l) /\ RecvPlace(l)' = RecvPlace(l)
                        /\ Sends(l)' => Sends(l) /\ SendPlace(l)' = SendPlace(l)
  PROVE  StreamInv'
<1> SUFFICES ASSUME NEW e \in Nodes, NEW r \in Nodes, ~EdgeDown(e)', InEdge(r) = e
             PROVE  EdgeStream(e, r)'
  BY DEF StreamInv, InEdge
<1>1. EdgeStream(e, r)
  <2>1. ~EdgeDown(e)
    BY DEF EdgeDown, TypeOK, Nodes
  <2>2. QED
    BY <2>1 DEF StreamInv
<1>2. /\ \A q \in 1 .. Len(chan[e]) - 1 : PlaceOf(chan[e][q + 1]) = AfterPlace(chan[e][q])
      /\ chan[e] # <<>> /\ Alive(r) => PlaceOf(chan[e][1]) = RecvPlace(r)
      /\ chan[e] # <<>> /\ Sends(e) => SendPlace(e) = AfterPlace(chan[e][Len(chan[e])])
      /\ chan[e] = <<>> /\ Sends(e) /\ Alive(r) => SendPlace(e) = RecvPlace(r)
  BY <1>1 DEF EdgeStream
<1>3. Sends(e)' => Alive(e)'
  BY DEF Sends
<1>4. /\ \A q \in 1 .. Len(chan[e]) - 1 : PlaceOf(chan[e][q + 1]) = AfterPlace(chan[e][q])
      /\ chan[e] # <<>> /\ Alive(r)' => PlaceOf(chan[e][1]) = RecvPlace(r)'
      /\ chan[e] # <<>> /\ Sends(e)' => SendPlace(e)' = AfterPlace(chan[e][Len(chan[e])])
      /\ chan[e] = <<>> /\ Sends(e)' /\ Alive(r)' => SendPlace(e)' = RecvPlace(r)'
  BY <1>2, <1>3
<1>5. QED
  BY <1>4 DEF EdgeStream, PlaceOf, AfterPlace, Place

LEMMA InEdgeForm ==
  /\ \A k \in Nodes : InEdge(k) = IF k = 0 THEN Z - 1 ELSE k - 1
  /\ \A k, l \in Nodes : InEdge(k) = InEdge(l) => k = l
<1>1. ASSUME NEW k \in Nodes
      PROVE  InEdge(k) = IF k = 0 THEN Z - 1 ELSE k - 1
  <2>1. k \in 0 .. Z - 1 /\ Z \in Nat \ {0}
    BY ZonesFacts DEF Nodes
  <2>2. CASE k = 0
    <3>1. k - 1 + Z = Z - 1 /\ (Z - 1) % Z = Z - 1
      BY <2>1, <2>2
    <3>2. QED
      BY <2>2, <3>1 DEF InEdge
  <2>3. CASE k # 0
    <3>1. (k - 1 + Z) % Z = k - 1
      BY <2>1, <2>3
    <3>2. QED
      BY <2>3, <3>1 DEF InEdge
  <2>4. QED
    BY <2>2, <2>3
<1>2. ASSUME NEW k \in Nodes, NEW l \in Nodes, InEdge(k) = InEdge(l)
      PROVE  k = l
  <2>1. k \in 0 .. Z - 1 /\ l \in 0 .. Z - 1 /\ Z \in Nat \ {0}
    BY ZonesFacts DEF Nodes
  <2>2. (IF k = 0 THEN Z - 1 ELSE k - 1) = (IF l = 0 THEN Z - 1 ELSE l - 1)
    BY <1>1, <1>2
  <2>3. QED
    BY <2>1, <2>2
<1>3. QED
  BY <1>1, <1>2

\* The places of a node that moves on without sending or receiving.
LEMMA PlacesKept ==
  ASSUME TypeOK, NEW k \in Nodes, NEW x, NEW q, Moves(k, x, q), Alive(k),
         x \notin {"unborn", "loop"},
         x \in Working =>
           /\ q.sent = IF Idle(k) THEN 0 ELSE loc[k].sent
           /\ pass[k] # 1 => q.arrived = IF Idle(k) THEN 0 ELSE loc[k].arrived
  PROVE  \A l \in Nodes :
           Alive(l)' => /\ Alive(l) /\ RecvPlace(l)' = RecvPlace(l)
                        /\ Sends(l)' => Sends(l) /\ SendPlace(l)' = SendPlace(l)
<1> TAKE l \in Nodes
<1>1. /\ pc'[k] = x /\ loc'[k] = q /\ pass' = pass
      /\ l # k => pc'[l] = pc[l] /\ loc'[l] = loc[l]
  BY MovesFacts
<1>2. CASE l # k
  <2>1. /\ Alive(l)' <=> Alive(l)
        /\ Idle(l)' <=> Idle(l)
    BY <1>1, <1>2 DEF Alive, Idle
  <2>2. RecvPlace(l)' = RecvPlace(l) /\ SendPlace(l)' = SendPlace(l)
    BY <1>1, <1>2, <2>1 DEF RecvPlace, SendPlace, Place
  <2>3. Sends(l)' <=> Sends(l)
    BY <1>1, <2>1 DEF Sends
  <2>4. QED
    BY <2>1, <2>2, <2>3
<1>3. CASE l = k
  <2> SUFFICES ASSUME Alive(k)'
               PROVE  /\ Alive(k) /\ RecvPlace(k)' = RecvPlace(k)
                      /\ Sends(k)' => Sends(k) /\ SendPlace(k)' = SendPlace(k)
    BY <1>3
  <2>1. x \in Working /\ ~Idle(k)'
    BY <1>1 DEF Alive, Idle, Working
  <2>2. RecvPlace(k)' = RecvPlace(k) /\ SendPlace(k)' = SendPlace(k)
    BY <1>1, <2>1 DEF RecvPlace, SendPlace, Place
  <2>3. QED
    BY <1>1, <2>2 DEF Sends
<1>4. QED
  BY <1>2, <1>3

\* The receiver takes the head of its edge.
LEMMA StreamReceives ==
  ASSUME TypeOK, PassInv, DataInv, NEW k \in Nodes, Receives(k), closed' = closed
  PROVE  StreamInv'
<1> DEFINE e == InEdge(k)
           m == Head(chan[e])
           a == loc[k].arrived
<1>1. /\ pc[k] \in {"io", "compute"} /\ a \in Zones /\ pass[k] # 1 /\ ~EdgeDown(e)
      /\ chan[e] # <<>> /\ InOrder(k, m)
      /\ Moves(k, pc[k], Accept(k, m)) /\ chan' = [chan EXCEPT ![e] = Tail(@)]
  BY DEF Receives, Awaits
<1>2. e \in Nodes /\ chan[e] \in Seq(Messages) /\ chan \in [Nodes -> Seq(Messages)]
  BY EdgesAreNodes DEF TypeOK
<1>3. /\ Len(chan'[e]) = Len(chan[e]) - 1 /\ Len(chan[e]) \in Nat \ {0}
      /\ \A q \in 1 .. Len(chan[e]) - 1 : chan'[e][q] = chan[e][q + 1]
      /\ m = chan[e][1] /\ (chan'[e] = <<>> <=> Len(chan[e]) = 1)
  <2>1. chan'[e] = Tail(chan[e])
    BY <1>1, <1>2
  <2>2. Tail(chan[e]) \in Seq(Messages) /\ Len(chan[e]) \in Nat \ {0}
        /\ Len(Tail(chan[e])) = Len(chan[e]) - 1
        /\ \A q \in 1 .. Len(chan[e]) - 1 : Tail(chan[e])[q] = chan[e][q + 1]
        /\ m = chan[e][1]
    BY <1>1, <1>2, HeadTailProperties, EmptySeq, LenProperties
  <2>3. Tail(chan[e]) = <<>> <=> Len(Tail(chan[e])) = 0
    BY <2>2, EmptySeq
  <2>4. QED
    BY <2>1, <2>2, <2>3
<1>4. /\ pc'[k] = pc[k] /\ loc'[k] = Accept(k, m) /\ pass' = pass
      /\ \A l \in Nodes : l # k => pc'[l] = pc[l] /\ loc'[l] = loc[l]
  BY <1>1, MovesFacts
<1>5. Accept(k, m).arrived = a + 1 /\ Accept(k, m).sent = loc[k].sent
  BY DEF Accept, TypeOK, PassStates
<1>6. \A l \in Nodes : /\ Alive(l)' <=> Alive(l)
                       /\ Idle(l)' <=> Idle(l)
                       /\ Sends(l)' <=> Sends(l)
  BY <1>4 DEF Alive, Idle, Sends
<1>7. \A l \in Nodes : SendPlace(l)' = SendPlace(l)
  BY <1>4, <1>5, <1>6 DEF SendPlace, Place
<1>8. \A l \in Nodes : l # k => RecvPlace(l)' = RecvPlace(l)
  BY <1>4, <1>6 DEF RecvPlace, Place
<1>9. ~Idle(k) /\ Alive(k)
  BY <1>1 DEF Idle, Alive, Working
<1>10. RecvPlace(k)' = AfterPlace(m)
  <2>1. RecvPlace(k)' = Place(pass[k] - 1, a + 1)
    BY <1>1, <1>4, <1>5, <1>6, <1>9 DEF RecvPlace, Place
  <2>2. m.step = pass[k] - 1 /\ m.pos = a
    BY <1>1 DEF InOrder
  <2>3. QED
    BY <2>1, <2>2 DEF AfterPlace
<1> SUFFICES ASSUME NEW d \in Nodes, NEW r \in Nodes, ~EdgeDown(d)', InEdge(r) = d
             PROVE  EdgeStream(d, r)'
  BY DEF StreamInv, InEdge
<1>11. EdgeStream(d, r)
  BY DEF DataInv, StreamInv, EdgeDown
<1>12. /\ \A q \in 1 .. Len(chan[d]) - 1 : PlaceOf(chan[d][q + 1]) = AfterPlace(chan[d][q])
       /\ chan[d] # <<>> /\ Alive(r) => PlaceOf(chan[d][1]) = RecvPlace(r)
       /\ chan[d] # <<>> /\ Sends(d) => SendPlace(d) = AfterPlace(chan[d][Len(chan[d])])
       /\ chan[d] = <<>> /\ Sends(d) /\ Alive(r) => SendPlace(d) = RecvPlace(r)
  BY <1>11 DEF EdgeStream
<1> HIDE DEF e, m, a
<1>13. CASE r # k
  <2>1. d # e
    BY <1>13, InEdgeForm DEF e
  <2>2. chan'[d] = chan[d]
    BY <1>1, <1>2, <2>1
  <2>3. /\ \A q \in 1 .. Len(chan'[d]) - 1 : PlaceOf(chan'[d][q + 1]) = AfterPlace(chan'[d][q])
        /\ chan'[d] # <<>> /\ Alive(r)' => PlaceOf(chan'[d][1]) = RecvPlace(r)'
        /\ chan'[d] # <<>> /\ Sends(d)' => SendPlace(d)' = AfterPlace(chan'[d][Len(chan'[d])])
        /\ chan'[d] = <<>> /\ Sends(d)' /\ Alive(r)' => SendPlace(d)' = RecvPlace(r)'
    BY <1>6, <1>7, <1>8, <1>12, <1>13, <2>2
  <2>4. QED
    BY <2>3 DEF EdgeStream, PlaceOf, AfterPlace, Place
<1>14. CASE r = k
  <2>1. d = e
    BY <1>14 DEF e
  <2>2. \A q \in 1 .. Len(chan'[d]) - 1 : PlaceOf(chan'[d][q + 1]) = AfterPlace(chan'[d][q])
    <3> TAKE q \in 1 .. Len(chan'[d]) - 1
    <3>1. Len(chan[d]) \in Nat \ {0} /\ Len(chan'[d]) = Len(chan[d]) - 1
      BY <1>3, <2>1
    <3>2. /\ q \in Nat /\ q \in 1 .. Len(chan[d]) - 1
          /\ q + 1 \in 1 .. Len(chan[d]) - 1
      BY <3>1
    <3>3. chan'[d][q] = chan[d][q + 1]
      BY <1>3, <2>1, <3>2
    <3>4. chan'[d][q + 1] = chan[d][(q + 1) + 1]
      BY <1>3, <2>1, <3>2
    <3>5. QED
      BY <1>12, <3>2, <3>3, <3>4
  <2>3. chan'[d] # <<>> => PlaceOf(chan'[d][1]) = RecvPlace(r)'
    <3>1. SUFFICES ASSUME chan'[d] # <<>>
                   PROVE  PlaceOf(chan'[d][1]) = RecvPlace(r)'
      OBVIOUS
    <3>2. 1 \in 1 .. Len(chan[d]) - 1
      BY <1>3, <2>1, <3>1
    <3>3. chan'[d][1] = chan[d][1 + 1]
      BY <1>3, <2>1, <3>2
    <3>4. PlaceOf(chan[d][1 + 1]) = AfterPlace(chan[d][1])
      BY <1>12, <3>2
    <3>5. QED
      BY <1>3, <1>10, <1>14, <2>1, <3>3, <3>4
  <2>4. chan'[d] # <<>> /\ Sends(d)' => SendPlace(d)' = AfterPlace(chan'[d][Len(chan'[d])])
    <3>1. SUFFICES ASSUME chan'[d] # <<>>, Sends(d)'
                   PROVE  SendPlace(d)' = AfterPlace(chan'[d][Len(chan'[d])])
      OBVIOUS
    <3>2. chan'[d][Len(chan'[d])] = chan[d][Len(chan[d])]
      BY <1>3, <2>1, <3>1
    <3>3. QED
      BY <1>1, <1>6, <1>7, <1>12, <2>1, <3>1, <3>2
  <2>5. chan'[d] = <<>> /\ Sends(d)' => SendPlace(d)' = RecvPlace(r)'
    <3>1. SUFFICES ASSUME chan'[d] = <<>>, Sends(d)'
                   PROVE  SendPlace(d)' = RecvPlace(r)'
      OBVIOUS
    <3>2. Len(chan[d]) = 1
      BY <1>3, <2>1, <3>1
    <3>3. SendPlace(d) = AfterPlace(m)
      BY <1>1, <1>3, <1>6, <1>12, <2>1, <3>1, <3>2
    <3>4. QED
      BY <1>7, <1>10, <1>14, <3>3
  <2>6. QED
    BY <2>2, <2>3, <2>4, <2>5 DEF EdgeStream, PlaceOf, AfterPlace, Place
<1>15. QED
  BY <1>13, <1>14

\* The sender appends to its edge, if the edge is not down.
LEMMA StreamEmits ==
  ASSUME TypeOK, PassInv, DataInv, NEW k \in Nodes, Emits(k), closed' = closed
  PROVE  StreamInv'
<1> DEFINE m == OutMessage(k)
           s == loc[k].sent
<1>1. /\ pc[k] \in {"io", "flush"} /\ loc[k].outq # <<>> /\ pass[k] # Steps
      /\ chan' = IF EdgeDown(k) THEN chan ELSE [chan EXCEPT ![k] = Append(@, m)]
      /\ Moves(k, pc[k], SentPass(loc[k]))
  BY DEF Emits, Leaving
<1>2. WorkShape(pc[k], loc[k], pass[k]) /\ pass[k] \in Passes
  BY <1>1 DEF DataInv, WorkInv, Working, WorkShape
<1>3. m.step = pass[k] /\ m.pos = s /\ m \in Messages /\ s \in Nat
  <2>1. m \in Messages /\ s \in Nat
    BY <1>1, OutMessageType DEF TypeOK, PassStates
  <2>2. QED
    BY <1>1, <1>2, <2>1, OutMessageShape DEF WorkShape
<1>4. /\ pc'[k] = pc[k] /\ loc'[k] = SentPass(loc[k]) /\ pass' = pass
      /\ \A l \in Nodes : l # k => pc'[l] = pc[l] /\ loc'[l] = loc[l]
  BY <1>1, MovesFacts
<1>5. SentPass(loc[k]).arrived = loc[k].arrived /\ SentPass(loc[k]).sent = s + 1
  BY DEF SentPass, TypeOK, PassStates
<1>6. \A l \in Nodes : /\ Alive(l)' <=> Alive(l)
                       /\ Idle(l)' <=> Idle(l)
                       /\ Sends(l)' <=> Sends(l)
  BY <1>4 DEF Alive, Idle, Sends
<1>7. \A l \in Nodes : RecvPlace(l)' = RecvPlace(l)
  BY <1>4, <1>5, <1>6 DEF RecvPlace, Place
<1>8. \A l \in Nodes : l # k => SendPlace(l)' = SendPlace(l)
  BY <1>4, <1>6 DEF SendPlace, Place
<1>9. ~Idle(k) /\ Sends(k)
  BY <1>1, <1>2, ZonesFacts DEF Idle, Alive, Sends, Working, Passes
<1>10. SendPlace(k) = PlaceOf(m) /\ SendPlace(k)' = AfterPlace(m)
  BY <1>3, <1>4, <1>5, <1>6, <1>9 DEF SendPlace, PlaceOf, AfterPlace, Place
<1> SUFFICES ASSUME NEW d \in Nodes, NEW r \in Nodes, ~EdgeDown(d)', InEdge(r) = d
             PROVE  EdgeStream(d, r)'
  BY DEF StreamInv, InEdge
<1>11. ~EdgeDown(d) /\ EdgeStream(d, r)
  BY DEF DataInv, StreamInv, EdgeDown
<1>12. /\ \A q \in 1 .. Len(chan[d]) - 1 : PlaceOf(chan[d][q + 1]) = AfterPlace(chan[d][q])
       /\ chan[d] # <<>> /\ Alive(r) => PlaceOf(chan[d][1]) = RecvPlace(r)
       /\ chan[d] # <<>> /\ Sends(d) => SendPlace(d) = AfterPlace(chan[d][Len(chan[d])])
       /\ chan[d] = <<>> /\ Sends(d) /\ Alive(r) => SendPlace(d) = RecvPlace(r)
  BY <1>11 DEF EdgeStream
<1>13. chan \in [Nodes -> Seq(Messages)]
  BY DEF TypeOK
<1> HIDE DEF m, s
<1>14. CASE d # k
  <2>1. chan'[d] = chan[d]
    BY <1>1, <1>13, <1>14
  <2>2. /\ \A q \in 1 .. Len(chan'[d]) - 1 : PlaceOf(chan'[d][q + 1]) = AfterPlace(chan'[d][q])
        /\ chan'[d] # <<>> /\ Alive(r)' => PlaceOf(chan'[d][1]) = RecvPlace(r)'
        /\ chan'[d] # <<>> /\ Sends(d)' => SendPlace(d)' = AfterPlace(chan'[d][Len(chan'[d])])
        /\ chan'[d] = <<>> /\ Sends(d)' /\ Alive(r)' => SendPlace(d)' = RecvPlace(r)'
    BY <1>6, <1>7, <1>8, <1>12, <1>14, <2>1
  <2>3. QED
    BY <2>2 DEF EdgeStream, PlaceOf, AfterPlace, Place
<1>15. CASE d = k
  <2> DEFINE n == Len(chan[d])
  <2>1. /\ Len(chan'[d]) = n + 1 /\ n \in Nat /\ chan'[d] # <<>>
        /\ \A q \in 1 .. n : chan'[d][q] = chan[d][q]
        /\ chan'[d][n + 1] = m
        /\ (chan[d] = <<>> <=> n = 0)
    <3>1. chan'[d] = Append(chan[d], m) /\ chan[d] \in Seq(Messages)
      BY <1>1, <1>11, <1>13, <1>15
    <3>2. /\ Len(Append(chan[d], m)) = n + 1 /\ n \in Nat
          /\ \A q \in 1 .. n : Append(chan[d], m)[q] = chan[d][q]
          /\ Append(chan[d], m)[n + 1] = m
      BY <1>3, <3>1, AppendProperties, LenProperties
    <3>3. Append(chan[d], m) # <<>> /\ (chan[d] = <<>> <=> n = 0)
      BY <1>3, <3>1, <3>2, AppendProperties, EmptySeq
    <3>4. QED
      BY <3>1, <3>2, <3>3
  <2> HIDE DEF n
  <2>2. \A q \in 1 .. Len(chan'[d]) - 1 : PlaceOf(chan'[d][q + 1]) = AfterPlace(chan'[d][q])
    <3> TAKE q \in 1 .. Len(chan'[d]) - 1
    <3>1. q \in 1 .. n
      BY <2>1
    <3>2. CASE q = n
      <4>1. chan[d] # <<>> /\ chan'[d][q] = chan[d][n] /\ chan'[d][q + 1] = m
        BY <2>1, <3>1, <3>2
      <4>2. SendPlace(d) = AfterPlace(chan[d][n])
        BY <1>9, <1>12, <1>15, <4>1 DEF n
      <4>3. QED
        BY <1>10, <1>15, <4>1, <4>2
    <3>3. CASE q # n
      <4>1. q \in 1 .. n - 1 /\ q + 1 \in 1 .. n
        BY <2>1, <3>1, <3>3
      <4>2. chan'[d][q] = chan[d][q] /\ chan'[d][q + 1] = chan[d][q + 1]
        BY <2>1, <3>1, <4>1
      <4>3. PlaceOf(chan[d][q + 1]) = AfterPlace(chan[d][q])
        BY <1>12, <4>1 DEF n
      <4>4. QED
        BY <4>2, <4>3
    <3>4. QED
      BY <3>2, <3>3
  <2>3. Alive(r)' => PlaceOf(chan'[d][1]) = RecvPlace(r)'
    <3>1. SUFFICES ASSUME Alive(r) PROVE PlaceOf(chan'[d][1]) = RecvPlace(r)
      BY <1>6, <1>7
    <3>2. CASE n = 0
      <4>1. chan'[d][1] = m /\ SendPlace(d) = RecvPlace(r)
        BY <1>9, <1>12, <1>15, <2>1, <3>1, <3>2
      <4>2. QED
        BY <1>10, <1>15, <4>1
    <3>3. CASE n # 0
      <4>1. chan'[d][1] = chan[d][1] /\ chan[d] # <<>>
        BY <2>1, <3>3
      <4>2. QED
        BY <1>12, <3>1, <4>1
    <3>4. QED
      BY <3>2, <3>3
  <2>4. SendPlace(d)' = AfterPlace(chan'[d][Len(chan'[d])])
    BY <1>10, <1>15, <2>1
  <2>5. QED
    BY <2>1, <2>2, <2>3, <2>4 DEF EdgeStream, PlaceOf, AfterPlace, Place
<1>16. QED
  BY <1>14, <1>15

LEMMA StreamWorks ==
  ASSUME TypeOK, PassInv, DataInv, NEW k \in Nodes, Works(k)
  PROVE  StreamInv'
<1> DEFINE p == loc[k]
<1>0. /\ closed' = closed /\ closed \in Nat /\ p \in PassStates /\ StreamInv
      /\ closed' \in Nat /\ closed' >= closed
  BY ZonesFacts DEF Works, DataInv, TypeOK
<1>1. CASE Receives(k)
  BY <1>0, <1>1, StreamReceives
<1>2. CASE Emits(k)
  BY <1>0, <1>2, StreamEmits
<1>3. ASSUME chan' = chan, Alive(k), NEW x, NEW q, Moves(k, x, q),
             x \notin {"unborn", "loop"},
             q.sent = IF Idle(k) THEN 0 ELSE p.sent,
             pass[k] # 1 => q.arrived = IF Idle(k) THEN 0 ELSE p.arrived
      PROVE  StreamInv'
  BY <1>0, <1>3, PlacesKept, StreamKept
<1>4. pc[k] \in Working => Alive(k) /\ ~Idle(k)
  BY DEF Alive, Idle, Working
<1>5. CASE Starts(k)
  <2>1. /\ chan' = chan /\ Idle(k) /\ Alive(k) /\ Moves(k, "io", FreshPass(pass[k]))
        /\ FreshPass(pass[k]).sent = 0 /\ FreshPass(pass[k]).arrived = 0
    BY <1>5 DEF Starts, Idle, Alive, FreshPass
  <2>2. QED
    BY <1>3, <2>1
<1>6. CASE Loads(k)
  <2> DEFINE q == Accept(k, MakePreload(p.arrived))
  <2>1. chan' = chan /\ pc[k] \in {"io", "compute"} /\ pass[k] = 1 /\ Moves(k, pc[k], q)
    BY <1>6 DEF Loads, Awaits
  <2>2. q.sent = p.sent
    BY <1>0 DEF Accept, PassStates
  <2> HIDE DEF q
  <2>3. QED
    BY <1>3, <1>4, <2>1, <2>2 DEF Working
<1>7. CASE Shifts(k)
  <2>1. PICK x \in Working, q \in {p, [p EXCEPT !.op = 2]} : Moves(k, x, q) /\ pc[k] \in Working
    BY <1>7 DEF Shifts, Working
  <2>2. q.sent = p.sent /\ q.arrived = p.arrived /\ chan' = chan
    BY <1>0, <1>7 DEF PassStates, Shifts
  <2>3. QED
    BY <1>3, <1>4, <2>1, <2>2 DEF Working
<1>8. CASE Collects(k)
  <2> DEFINE q == CollectedPass(p)
  <2>1. chan' = chan /\ pc[k] \in {"io", "flush"} /\ Moves(k, pc[k], q)
    BY <1>8 DEF Collects, Leaving
  <2>2. q.sent = p.sent /\ q.arrived = p.arrived
    BY <1>0 DEF CollectedPass, PassStates
  <2> HIDE DEF q
  <2>3. QED
    BY <1>3, <1>4, <2>1, <2>2 DEF Working
<1>9. CASE Computes(k)
  <2> DEFINE q == [p EXCEPT !.slot = ComputedSlots(p)]
             r == NextPosition(q)
  <2>1. /\ chan' = chan /\ pc[k] = "compute"
        /\ Moves(k, AfterPosition(p), r) \/ Moves(k, "end", q)
    BY <1>9 DEF Computes
  <2>2. q.sent = p.sent /\ q.arrived = p.arrived
    BY <1>0 DEF PassStates
  <2>3. r.sent = p.sent /\ r.arrived = p.arrived
    BY <1>0 DEF PassStates, NextPosition
  <2>4. AfterPosition(p) \in {"io", "flush"}
    BY DEF AfterPosition
  <2> HIDE DEF q, r
  <2>5. QED
    BY <1>3, <1>4, <2>1, <2>2, <2>3, <2>4 DEF Working
<1>10. CASE Ends(k)
  <2> DEFINE q == EndedPass(p, EndPosition(k))
             r == NextPosition(q)
  <2>1. /\ chan' = chan /\ pc[k] \in {"end", "endhead"}
        /\ Moves(k, AfterPosition(p), r) \/ Moves(k, "endhead", q)
    BY <1>10 DEF Ends
  <2>2. q.sent = p.sent /\ q.arrived = p.arrived
    BY <1>0 DEF PassStates, EndedPass
  <2>3. r.sent = p.sent /\ r.arrived = p.arrived
    BY <1>0 DEF PassStates, EndedPass, NextPosition
  <2>4. AfterPosition(p) \in {"io", "flush"}
    BY DEF AfterPosition
  <2> HIDE DEF q, r
  <2>5. QED
    BY <1>3, <1>4, <2>1, <2>2, <2>3, <2>4 DEF Working
<1>11. QED
  BY <1>1, <1>2, <1>5, <1>6, <1>7, <1>8, <1>9, <1>10 DEF Works

-----------------------------------------------------------------------------
(* The steps that stop a node, end its pass or belong to run().              *)

LEMMA DataStops ==
  ASSUME TypeOK, DataInv, NEW k \in Nodes, Stops(k),
         closed' = closed \/ closed' = closed + 1
  PROVE  DataInv'
<1>1. PICK x \in {"closing", "done"} : Moves(k, x, loc[k])
  BY DEF Stops
<1>2. chan' = chan /\ closed' \in Nat /\ closed' >= closed
  BY ZonesFacts DEF Stops, TypeOK
<1>3. /\ pc'[k] = x /\ pass' = pass
      /\ \A l \in Nodes : l # k => pc'[l] = pc[l] /\ loc'[l] = loc[l]
  BY <1>1, MovesFacts
<1>4. WorkInv'
  BY <1>1, WorkKeeps DEF DataInv, Working
<1>5. MessagesInv'
  BY <1>2 DEF DataInv, MessagesInv
<1>6. ASSUME NEW l \in Nodes, Alive(l)'
      PROVE  /\ Alive(l) /\ RecvPlace(l)' = RecvPlace(l)
             /\ Sends(l)' => Sends(l) /\ SendPlace(l)' = SendPlace(l)
  <2>1. l # k
    BY <1>3, <1>6 DEF Alive, Idle, Working
  <2>2. (Alive(l)' <=> Alive(l)) /\ (Idle(l)' <=> Idle(l)) /\ (Sends(l)' <=> Sends(l))
    BY <1>3, <2>1 DEF Alive, Idle, Sends
  <2>3. RecvPlace(l)' = RecvPlace(l) /\ SendPlace(l)' = SendPlace(l)
    BY <1>3, <2>1, <2>2 DEF RecvPlace, SendPlace, Place
  <2>4. QED
    BY <1>6, <2>2, <2>3
<1>7. StreamInv'
  BY <1>2, <1>6, StreamKept DEF DataInv
<1>8. QED
  BY <1>4, <1>5, <1>7 DEF DataInv

\* A finished pass has taken every zone from the in edge and, unless it is the
\* last one, put every zone on the out edge.
LEMMA FinishedPass ==
  ASSUME TypeOK, PassInv, DataInv, NEW k \in Nodes, pc[k] = "record"
  PROVE  /\ loc[k].arrived = N
         /\ pass[k] \in Passes
         /\ pass[k] < Steps => loc[k].sent = N
         /\ loc[k].agg = FullLambda(pass[k]) /\ loc[k].dt = ScheduledDt(pass[k])
         /\ NumLeft("record", loc[k]) = N
         /\ PassShape(loc[k], pass[k], N, N, N)
<1> DEFINE p == loc[k]
<1>1. WorkShape("record", p, pass[k]) /\ p \in PassStates
  BY DEF DataInv, WorkInv, Working, TypeOK
<1>2. NumLeft("record", p) = N
  <2>1. p.outq = <<>> /\ Len(p.outq) = 0
    BY <1>1, EmptySeq DEF WorkShape, PointShape
  <2>2. QED
    BY <2>1, ZonesFacts DEF NumLeft, NumEnded
<1>3. PassShape(p, pass[k], N, N, N) /\ pass[k] \in Passes
  BY <1>1, <1>2 DEF WorkShape, NumComputed, NumEnded
<1>4. p.arrived = N /\ (pass[k] < Steps => p.sent = N)
  BY <1>3 DEF PassShape, Counters, QueueShape
<1>5. p.dt = ScheduledDt(pass[k])
  BY <1>3, <1>4, ZonesFacts DEF PassShape, DataShape
<1>6. p.agg = FullLambda(pass[k])
  BY <1>3, AggregateFull
<1>7. QED
  BY <1>2, <1>3, <1>4, <1>5, <1>6

LEMMA DataRecord ==
  ASSUME TypeOK, PassInv, DataInv, NEW k \in Nodes, RecordPass(k)
  PROVE  DataInv'
<1> DEFINE p == loc[k]
<1>1. /\ pc[k] = "record" /\ pc'[k] = "loop" /\ pass'[k] = pass[k] + Z
      /\ \A l \in Nodes : l # k => pc'[l] = pc[l] /\ pass'[l] = pass[l]
      /\ loc' = loc /\ chan' = chan /\ closed' = closed
  BY DEF RecordPass, Goto, TypeOK
<1>2. /\ p.arrived = N /\ pass[k] \in Nat \ {0} /\ (pass[k] < Steps => p.sent = N)
      /\ Z \in Nat \ {0} /\ Steps \in Nat
  BY <1>1, FinishedPass, PassRange, ZonesFacts
<1>3. WorkInv'
  <2>1. \A l \in Nodes : pc'[l] \in Working => WorkShape(pc'[l], loc'[l], pass'[l])
    BY <1>1 DEF DataInv, WorkInv, Working
  <2>2. QED
    BY <2>1 DEF WorkInv
<1>4. MessagesInv'
  BY <1>1 DEF DataInv, MessagesInv
<1>5. Alive(k) /\ ~Idle(k) /\ Idle(k)'
  BY <1>1 DEF Alive, Idle, Working
<1>6. RecvPlace(k)' = RecvPlace(k)
  <2>1. RecvPlace(k)' = Place(pass[k] + Z - 1, 0)
    <3>1. pass'[k] # 1 /\ pass'[k] - 1 = pass[k] + Z - 1
      BY <1>1, <1>2
    <3>2. RecvPlace(k)' = Place(pass'[k] - 1, 0)
      BY <1>5, <3>1 DEF RecvPlace, Place
    <3>3. QED
      BY <3>1, <3>2
  <2>2. RecvPlace(k) = IF pass[k] = 1 THEN Place(0, N) ELSE Place(pass[k] - 1, N)
    BY <1>2, <1>5 DEF RecvPlace
  <2>3. /\ Place(0, N) = Place(0 + Z, 0) /\ Place(pass[k] - 1, N) = Place(pass[k] - 1 + Z, 0)
    <3>1. 0 \in Nat /\ pass[k] - 1 \in Nat
      BY <1>2
    <3>2. QED
      BY <3>1, PlaceFacts
  <2>4. pass[k] + Z - 1 = pass[k] - 1 + Z /\ (pass[k] = 1 => pass[k] + Z - 1 = 0 + Z)
    BY <1>2
  <2>5. QED
    BY <2>1, <2>2, <2>3, <2>4
<1>7. ASSUME Sends(k)'
      PROVE  Sends(k) /\ SendPlace(k)' = SendPlace(k)
  <2>1. pass[k] + Z < Steps
    BY <1>1, <1>7 DEF Sends
  <2>2. pass[k] < Steps /\ p.sent = N
    BY <1>2, <2>1
  <2>3. SendPlace(k)' = Place(pass[k] + Z, 0) /\ SendPlace(k) = Place(pass[k], N)
    BY <1>1, <1>5, <2>2 DEF SendPlace, Place
  <2>4. QED
    BY <1>2, <1>5, <2>2, <2>3, PlaceFacts DEF Sends
<1>8. ASSUME NEW l \in Nodes, Alive(l)'
      PROVE  /\ Alive(l) /\ RecvPlace(l)' = RecvPlace(l)
             /\ Sends(l)' => Sends(l) /\ SendPlace(l)' = SendPlace(l)
  <2>1. CASE l = k
    BY <1>5, <1>6, <1>7, <2>1
  <2>2. CASE l # k
    <3>1. (Alive(l)' <=> Alive(l)) /\ (Idle(l)' <=> Idle(l)) /\ (Sends(l)' <=> Sends(l))
      BY <1>1, <2>2 DEF Alive, Idle, Sends
    <3>2. RecvPlace(l)' = RecvPlace(l) /\ SendPlace(l)' = SendPlace(l)
      BY <1>1, <2>2, <3>1 DEF RecvPlace, SendPlace, Place
    <3>3. QED
      BY <1>8, <3>1, <3>2
  <2>3. QED
    BY <2>1, <2>2
<1>9. closed' \in Nat /\ closed' >= closed
  BY <1>1, ZonesFacts DEF TypeOK
<1>10. StreamInv'
  BY <1>1, <1>8, <1>9, StreamKept DEF DataInv
<1>11. QED
  BY <1>3, <1>4, <1>10 DEF DataInv

\* A step of run() touches no pass, no zone and no edge but its shutdown flag.
Spawns(l) ==
  main = "spawn" /\ pc[l] = "unborn" /\ Goto(l, "loop") /\ UNCHANGED haltVars

LEMMA MainKinds ==
  ASSUME ControlInv, MainStep
  PROVE  /\ UNCHANGED <<pass, loc, chan, stats, final, level>>
         /\ pc' = pc \/ \E l \in Nodes : Spawns(l)
         /\ closed' = closed \/ closed' = closed + 1
         /\ haltKind' = haltKind \/ haltKind' \in FaultKinds
<1>1. CASE SpawnNode
  <2>1. born \in Nodes
    BY <1>1, ZonesFacts DEF SpawnNode, ControlInv, SpawnInv, TypeOK, Nodes
  <2>2. pc[born] = "unborn"
    BY <2>1, ZonesFacts DEF ControlInv, SpawnInv, TypeOK, Nodes
  <2>3. Spawns(born)
    BY <1>1, <2>2 DEF SpawnNode, Spawns
  <2>4. QED
    BY <1>1, <2>1, <2>3 DEF SpawnNode, haltVars
<1>2. CASE SpawnFails
  BY <1>2 DEF SpawnFails, haltVars, FaultKinds
<1>3. CASE MainClosesEdge
  BY <1>3 DEF MainClosesEdge, haltVars
<1>4. CASE Join
  BY <1>4 DEF Join, haltVars
<1>5. QED
  BY <1>1, <1>2, <1>3, <1>4 DEF MainStep

LEMMA DataMain ==
  ASSUME TypeOK, DataInv, UNCHANGED <<pass, loc, chan, stats, final, level>>,
         pc' = pc \/ \E l \in Nodes : Spawns(l),
         closed' = closed \/ closed' = closed + 1
  PROVE  DataInv'
<1>1. /\ pass' = pass /\ loc' = loc /\ chan' = chan
      /\ closed' \in Nat /\ closed' >= closed
  BY ZonesFacts DEF TypeOK
<1>2. \A l \in Nodes : pc'[l] = pc[l] \/ (pc[l] = "unborn" /\ pc'[l] = "loop")
  <2>1. CASE pc' = pc
    BY <2>1
  <2>2. ASSUME NEW l \in Nodes, Spawns(l)
        PROVE  \A k \in Nodes : pc'[k] = pc[k] \/ (pc[k] = "unborn" /\ pc'[k] = "loop")
    BY <2>2 DEF Spawns, Goto, TypeOK
  <2>3. QED
    BY <2>1, <2>2
<1>3. WorkInv'
  <2>1. \A l \in Nodes : pc'[l] \in Working => WorkShape(pc'[l], loc'[l], pass'[l])
    BY <1>1, <1>2 DEF DataInv, WorkInv, Working
  <2>2. QED
    BY <2>1 DEF WorkInv
<1>4. MessagesInv'
  BY <1>1 DEF DataInv, MessagesInv
<1>5. ASSUME NEW l \in Nodes, Alive(l)'
      PROVE  /\ Alive(l) /\ RecvPlace(l)' = RecvPlace(l)
             /\ Sends(l)' => Sends(l) /\ SendPlace(l)' = SendPlace(l)
  <2>1. (Alive(l)' <=> Alive(l)) /\ (Idle(l)' <=> Idle(l)) /\ (Sends(l)' <=> Sends(l))
    BY <1>1, <1>2 DEF Alive, Idle, Sends, Working
  <2>2. RecvPlace(l)' = RecvPlace(l) /\ SendPlace(l)' = SendPlace(l)
    BY <1>1, <2>1 DEF RecvPlace, SendPlace, Place
  <2>3. QED
    BY <1>5, <2>1, <2>2
<1>6. StreamInv'
  BY <1>1, <1>5, StreamKept DEF DataInv
<1>7. QED
  BY <1>3, <1>4, <1>6 DEF DataInv

LEMMA DataInit == Init => DataInv
<1> SUFFICES ASSUME Init PROVE DataInv
  OBVIOUS
<1>1. \A k \in Nodes : pc[k] = "unborn" /\ pass[k] = k + 1 /\ chan[k] = <<>>
  BY DEF Init
<1>2. \A k \in Nodes : Idle(k) /\ pc[k] \notin Working
  BY <1>1 DEF Idle, Working
<1>3. WorkInv
  BY <1>2 DEF WorkInv
<1>4. MessagesInv
  <2>1. \A e \in Nodes : Len(chan[e]) = 0
    BY <1>1, EmptySeq
  <2>2. QED
    BY <2>1 DEF MessagesInv
<1>5. ASSUME NEW e \in Nodes, NEW r \in Nodes, InEdge(r) = e
      PROVE  SendPlace(e) = RecvPlace(r)
  <2>1. e = IF r = 0 THEN Z - 1 ELSE r - 1
    BY <1>5, InEdgeForm
  <2>2. Z \in Nat \ {0} /\ e \in 0 .. Z - 1 /\ r \in 0 .. Z - 1
    BY ZonesFacts DEF Nodes
  <2>3. SendPlace(e) = Place(e + 1, 0)
    BY <1>1, <1>2 DEF SendPlace
  <2>4. CASE r = 0
    <3>1. RecvPlace(r) = Place(0, N)
      BY <1>1, <2>2, <2>4 DEF RecvPlace
    <3>2. Place(0, N) = Place(0 + Z, 0)
      BY PlaceFacts
    <3>3. 0 + Z = e + 1
      BY <2>1, <2>2, <2>4
    <3>4. QED
      BY <2>3, <3>1, <3>2, <3>3
  <2>5. CASE r # 0
    <3>1. pass[r] # 1 /\ pass[r] - 1 = r
      BY <1>1, <2>2, <2>5
    <3>2. RecvPlace(r) = Place(r, 0)
      BY <1>2, <3>1 DEF RecvPlace
    <3>3. r = e + 1
      BY <2>1, <2>2, <2>5
    <3>4. QED
      BY <2>3, <3>2, <3>3
  <2>6. QED
    BY <2>4, <2>5
<1>6. StreamInv
  <2> SUFFICES ASSUME NEW e \in Nodes, NEW r \in Nodes, InEdge(r) = e
               PROVE  EdgeStream(e, r)
    BY DEF StreamInv
  <2>1. chan[e] = <<>> /\ 1 .. Len(chan[e]) - 1 = {}
    BY <1>1, EmptySeq
  <2>2. QED
    BY <1>5, <2>1 DEF EdgeStream
<1>7. QED
  BY <1>3, <1>4, <1>6 DEF DataInv

\* Every step of the conveyor but that of run() is a step of a node that stops,
\* works on its pass or records it.
LEMMA StepKinds ==
  ASSUME ControlInv, RecordInv, DataInv, Next
  PROVE  \/ MainStep
         \/ \E k \in Nodes : NodeStep(k) /\ (Stops(k) \/ Works(k) \/ RecordPass(k))
         \/ UNCHANGED vars
BY NodeKinds DEF RecordInv, Next, Returned

LEMMA DataStep == ControlInv /\ RecordInv /\ DataInv /\ [Next]_vars => DataInv'
<1> SUFFICES ASSUME ControlInv, RecordInv, DataInv, [Next]_vars PROVE DataInv'
  OBVIOUS
<1>0. TypeOK /\ PassInv
  BY DEF ControlInv, RecordInv
<1>1. CASE UNCHANGED vars
  <2>1. UNCHANGED <<pass, loc, chan, stats, final, level>> /\ pc' = pc /\ closed' = closed
    BY <1>1 DEF vars
  <2>2. QED
    BY <1>0, <2>1, DataMain
<1>2. CASE MainStep
  BY <1>0, <1>2, MainKinds, DataMain
<1>3. ASSUME NEW k \in Nodes, NodeStep(k)
      PROVE  DataInv'
  <2>1. /\ Stops(k) \/ Works(k) \/ RecordPass(k)
        /\ closed' = closed \/ closed' = closed + 1
    BY <1>0, <1>3, NodeKinds
  <2>2. CASE Stops(k)
    BY <1>0, <2>1, <2>2, DataStops
  <2>3. CASE Works(k)
    BY <1>0, <2>3, WorkWorks, MessagesWorks, StreamWorks DEF DataInv
  <2>4. CASE RecordPass(k)
    BY <1>0, <2>4, DataRecord
  <2>5. QED
    BY <2>1, <2>2, <2>3, <2>4
<1>4. QED
  BY <1>1, <1>2, <1>3 DEF Next, Returned

\* The invariant the theorems about the zones rest on.
ConveyorInv == ControlInv /\ RecordInv /\ DataInv

LEMMA ConveyorAlways == Spec => []ConveyorInv
<1>1. Init => ConveyorInv
  BY ControlInit, RecordInit, DataInit DEF ConveyorInv
<1>2. ConveyorInv /\ [Next]_vars => ConveyorInv'
  BY ControlStep, RecordStep, DataStep DEF ConveyorInv
<1>3. QED
  BY <1>1, <1>2, PTL DEF Spec

-----------------------------------------------------------------------------
(* The theorems.                                                             *)

\* No step of any thread ever throws an exception of the protocol: no zone
\* arrives out of order at recv, no event is forbidden by the zone's state, and
\* INV-1 and the masks of INV-3 hold at every START and END, in every
\* interleaving and while a halt unwinds the ring.
THEOREM NoLogicErrorEver == Spec => []NoLogicError
<1> DEFINE Inv == haltKind = "None" \/ haltKind \in FaultKinds
<1>1. Init => Inv
  BY DEF Init
<1>2. Inv /\ ConveyorInv /\ [Next]_vars => Inv'
  <2> SUFFICES ASSUME Inv, ConveyorInv, [Next]_vars PROVE Inv'
    OBVIOUS
  <2>1. haltKind' = haltKind \/ haltKind' \in FaultKinds
    <3>1. CASE UNCHANGED vars
      BY <3>1 DEF vars
    <3>2. CASE MainStep
      BY <3>2, MainKinds DEF ConveyorInv
    <3>3. CASE \E k \in Nodes : NodeStep(k)
      BY <3>3, NodeKinds DEF ConveyorInv, RecordInv
    <3>4. QED
      BY <3>1, <3>2, <3>3 DEF Next, Returned
  <2>2. QED
    BY <2>1
<1>3. Inv => NoLogicError
  BY DEF NoLogicError, FaultKinds
<1> HIDE DEF Inv
<1>4. QED
  BY <1>1, <1>2, <1>3, ConveyorAlways, PTL DEF Spec

\* The Lambda-chain of transport.hpp: with every zone travels the aggregate of
\* the pass n-1-j passes back, folded from all zones, whatever the number of
\* nodes.
THEOREM LambdaChainHolds == Spec => []LambdaChain
<1>1. ConveyorInv => LambdaChain
  BY DEF ConveyorInv, DataInv, MessagesInv, LambdaChain, MessageShape
<1>2. QED
  BY <1>1, ConveyorAlways, PTL

\* The forecast of end_zone's buffer check is made before the first zone of the
\* pass ends, from a complete aggregate, no older than the cover assumes.
THEOREM ForecastInTime == Spec => []ForecastCoversAge
<1>1. ConveyorInv => ForecastCoversAge
  <2> SUFFICES ASSUME ConveyorInv, NEW k \in Nodes, pc[k] \in {"end", "endhead"}
               PROVE  /\ loc[k].rbuf.zones = Zones
                      /\ pass[k] - loc[k].rbuf.pass <= (IF N = 1 THEN 1 ELSE N - 1)
    BY DEF ForecastCoversAge
  <2> DEFINE p == loc[k]
             h == pass[k]
             c == NumComputed(pc[k], p.pos)
  <2>1. WorkShape(pc[k], p, h) /\ p.pos \in 0 .. N - 1 /\ p.arrived \in 0 .. N
    BY DEF ConveyorInv, ControlInv, TypeOK, DataInv, WorkInv, Working, PassStates, Zones
  <2>2. /\ h \in Passes /\ c \in 0 .. N
        /\ c = N => p.arrived = N
        /\ c \in 1 .. N - 1 => p.arrived > c
        /\ p.arrived > ForecastPosition => p.rbuf = FullLambda(Lag(h + ForecastPosition))
    BY <2>1 DEF WorkShape, PassShape, Counters, DataShape
  <2>3. c >= 1 /\ N \in Nat \ {0}
    BY <2>1, ZonesFacts DEF NumComputed
  <2>4. p.arrived > ForecastPosition
    <3> HIDE DEF p, h, c
    <3>1. CASE N = 1
      BY <2>2, <2>3, <3>1 DEF ForecastPosition
    <3>2. CASE N > 1
      BY <2>1, <2>2, <2>3, <3>2 DEF ForecastPosition, p
    <3>3. QED
      BY <2>3, <3>1, <3>2
  <2>5. p.rbuf.zones = Zones /\ p.rbuf.pass = Lag(h + ForecastPosition)
    BY <2>2, <2>4 DEF FullLambda
  <2>6. h - Lag(h + ForecastPosition) <= (IF N = 1 THEN 1 ELSE N - 1)
    <3>1. h \in Nat \ {0} /\ (N = 1 \/ N > 1)
      BY <2>2, <2>3, ZonesFacts DEF Passes
    <3> HIDE DEF p, h, c
    <3>2. CASE N = 1
      BY <2>3, <3>1, <3>2 DEF Lag, ForecastPosition
    <3>3. CASE N > 1
      BY <2>3, <3>1, <3>3 DEF Lag, ForecastPosition
    <3>4. QED
      BY <3>1, <3>2, <3>3
  <2>7. QED
    BY <2>5, <2>6
<1>2. QED
  BY <1>1, ConveyorAlways, PTL

-----------------------------------------------------------------------------
(* Where the zones are and how far they are: every zone has one holder, its  *)
(* level is that of its place, every pass before the one a node is in is     *)
(* recorded, and what run() returns agrees with the records.  The last part  *)
(* of the inductive invariant, and the refinement of the causal stencil.     *)

\* The holders of a zone: a slot (node, position), a queue (edge, index), the
\* preload of node 0 and the result.
Kinds == {"slot", "queue", "preload", "final"}
InSlot(k, j, i) == j \in Zones /\ loc[k].slot[j].owned /\ loc[k].slot[j].zone = i
InQueue(e, q, i) == q \in 1 .. Len(chan[e]) /\ chan[e][q].zone = i
Holds(t, a, b, i) ==
  \/ t = "slot" /\ InSlot(a, b, i)
  \/ t = "queue" /\ InQueue(a, b, i)
  \/ t = "preload" /\ a = 0 /\ b = 0 /\ InPreload(i)
  \/ t = "final" /\ a = 0 /\ b = 0 /\ Collected(i)

OneHolder ==
  \A i \in Zones, t, u \in Kinds, a, c \in Nodes, b, d \in Nat :
    Holds(t, a, b, i) /\ Holds(u, c, d, i) => t = u /\ a = c /\ b = d
AHolder ==
  ~HaltOn => \A i \in Zones : \E t \in Kinds, a \in Nodes, b \in Nat : Holds(t, a, b, i)

\* A node outside its passes holds nothing and has loaded nothing.
IdleInv ==
  \A k \in Nodes : Idle(k) =>
    /\ \A j \in Zones : ~loc[k].slot[j].owned
    /\ pass[k] = 1 => loc[k].arrived = 0

\* How far the zone in slot j of pass p is known to be.
SlotBase(p, h, j) == IF p.slot[j].zone \in p.agg.zones THEN h ELSE h - 1
SlotLevel(p, h, j) ==
  /\ level[p.slot[j].zone] >= SlotBase(p, h, j)
  /\ p.slot[j].owned => level[p.slot[j].zone] = SlotBase(p, h, j)
SlotLevels ==
  \A k \in Nodes : pc[k] \in Working =>
    \A j \in Zones : j < loc[k].arrived => SlotLevel(loc[k], pass[k], j)
QueueLevels ==
  \A e \in Nodes : \A q \in 1 .. Len(chan[e]) :
    level[chan[e][q].zone] = chan[e][q].step
PreloadLevels == \A i \in Zones : InPreload(i) => level[i] = 0
\* No zone is more than one time step ahead of a neighbour.
SpreadInv == \A i \in Zones : \A b \in Adjacent(i) : level[b] <= level[i] + 1
LevelInv == SlotLevels /\ QueueLevels /\ PreloadLevels /\ SpreadInv

StatsInv ==
  /\ RecordedPassesExact
  /\ \A k \in Nodes, h \in Passes : PassOf(k, h) /\ h < pass[k] => Recorded(h)

FinalInv ==
  /\ \A i \in Zones : Collected(i) => final[i] = CompleteBody(i, Steps)
  /\ \A k \in Nodes : pc[k] \in Working /\ pass[k] = Steps =>
       \A j \in Zones : j < loc[k].arrived =>
         loc[k].slot[j].owned \/ Collected(loc[k].slot[j].zone)
  /\ Recorded(Steps) => \A i \in Zones : Collected(i)

\* The end of a run: who stopped, and what is reported.
StopInv ==
  /\ \A k \in Nodes : pc[k] = "done" => HaltOn \/ pass[k] > Steps
  /\ main \in {"join", "returned"} => HaltOn \/ born = Z
  /\ \A k \in Nodes : k < born => pc[k] # "unborn"
  /\ HaltOn => closed = Z \/ main = "closing" \/ \E k \in Nodes : pc[k] = "closing"
ReportInv ==
  main = "returned" =>
    /\ result.halt = haltKind /\ (result.has_final <=> ~HaltOn)
    /\ HaltOn => closed = Z /\ \A h \in 1 .. result.steps_done : Recorded(h)
-----------------------------------------------------------------------------
(* What the steps of a node do to the holders of the zones.                  *)

SameHold(p, q, j) ==
  q.slot[j].zone = p.slot[j].zone /\ (q.slot[j].owned <=> p.slot[j].owned)

LEMMA HoldTags ==
  /\ \A s \in Slots : Drift(s).zone = s.zone /\ (Drift(s).owned <=> s.owned)
  /\ \A s, t \in Slots :
       CountPairs(s, t).zone = s.zone /\ (CountPairs(s, t).owned <=> s.owned)
  /\ \A s \in Slots, j \in Zones :
       StartZone(s, j).zone = s.zone /\ (StartZone(s, j).owned <=> s.owned)
  /\ \A s \in Slots :
            /\ TakeSphere(s).zone = s.zone /\ (TakeSphere(s).owned <=> s.owned)
            /\ TakeClosure(s).zone = s.zone /\ (TakeClosure(s).owned <=> s.owned)
            /\ EndedSlot(s).zone = s.zone /\ (EndedSlot(s).owned <=> s.owned)
<1>1. ASSUME NEW s \in Slots
      PROVE  Drift(s).zone = s.zone /\ (Drift(s).owned <=> s.owned)
  <2> DEFINE b == [s.body EXCEPT !.x = @ + 1, !.v = @ + 1]
  <2>1. s.drifted \/ Drift(s) = [s EXCEPT !.body = b, !.acc = NoForces, !.drifted = TRUE]
    BY DEF Drift, Slots, Bodies
  <2> HIDE DEF b
  <2>2. QED
    BY <2>1 DEF Drift, Slots
<1>2. ASSUME NEW s \in Slots, NEW t \in Slots
      PROVE  CountPairs(s, t).zone = s.zone /\ (CountPairs(s, t).owned <=> s.owned)
  BY DEF CountPairs, Slots
<1>3. ASSUME NEW s \in Slots, NEW j \in Zones
      PROVE  StartZone(s, j).zone = s.zone /\ (StartZone(s, j).owned <=> s.owned)
  <2>1. CountPairs(s, s) \in Slots
    BY CountPairsType
  <2>2. StartZone(s, j).zone = CountPairs(s, s).zone
        /\ (StartZone(s, j).owned <=> CountPairs(s, s).owned)
    BY <2>1 DEF StartZone, Slots
  <2>3. QED
    BY <1>2, <2>2
<1>4. ASSUME NEW s \in Slots
      PROVE  /\ TakeSphere(s).zone = s.zone /\ (TakeSphere(s).owned <=> s.owned)
             /\ TakeClosure(s).zone = s.zone /\ (TakeClosure(s).owned <=> s.owned)
             /\ EndedSlot(s).zone = s.zone /\ (EndedSlot(s).owned <=> s.owned)
  BY DEF TakeSphere, TakeClosure, EndedSlot, Slots
<1>5. QED
  BY <1>1, <1>2, <1>3, <1>4

LEMMA ComputedTags ==
  ASSUME NEW p \in PassStates, NEW j \in Zones
  PROVE  /\ ComputedSlots(p)[j].zone = p.slot[j].zone
         /\ ComputedSlots(p)[j].owned <=> p.slot[j].owned
<1> DEFINE c == p.pos
           own == Drift(p.slot[c])
           next == Drift(p.slot[c + 1])
           head == p.slot[0]
           Tag(s, t) == s.zone = t.zone /\ (s.owned <=> t.owned)
<1>1. c \in Zones /\ p.slot \in [Zones -> Slots] /\ 0 \in Zones
  BY ZonesFacts DEF PassStates
<1>2. own \in Slots /\ Tag(own, p.slot[c]) /\ StartZone(own, c) \in Slots
      /\ Tag(StartZone(own, c), p.slot[c])
  BY <1>1, HoldTags, DriftType, StartZoneType
<1>3. CASE c + 1 < N
  <2>1. c + 1 \in Zones
    BY <1>1, <1>3, ZonesFacts DEF Zones
  <2>2. next \in Slots /\ Tag(next, p.slot[c + 1])
    BY <1>1, <2>1, HoldTags, DriftType
  <2>3. CountPairs(next, own) \in Slots /\ Tag(CountPairs(next, own), next)
    BY <1>2, <2>2, HoldTags, CountPairsType
  <2>4. Tag(TakeSphere(CountPairs(next, own)), p.slot[c + 1])
    BY <2>2, <2>3, HoldTags
  <2>5. Tag(CountPairs(StartZone(own, c), next), p.slot[c])
    BY <1>2, <2>2, HoldTags
  <2>6. ComputedSlots(p) =
          [p.slot EXCEPT ![c] = CountPairs(StartZone(own, c), next),
                         ![c + 1] = TakeSphere(CountPairs(next, own))]
    BY <1>3 DEF ComputedSlots
  <2> HIDE DEF c, own, next
  <2>7. QED
    BY <1>1, <2>1, <2>4, <2>5, <2>6
<1>4. CASE ~(c + 1 < N) /\ DeferHead
  <2>1. CountPairs(head, own) \in Slots /\ Tag(CountPairs(head, own), head)
    <3>1. head \in Slots
      BY <1>1
    <3>2. CountPairs(head, own) \in Slots
      BY <1>2, <3>1, CountPairsType
    <3>3. QED
      BY <1>2, <3>1, <3>2, HoldTags
  <2>2. Tag(TakeClosure(CountPairs(head, own)), head)
    BY <2>1, HoldTags
  <2>3. Tag(CountPairs(StartZone(own, c), head), p.slot[c])
    BY <1>1, <1>2, HoldTags
  <2>4. ComputedSlots(p) =
          [p.slot EXCEPT ![c] = CountPairs(StartZone(own, c), head),
                         ![0] = TakeClosure(CountPairs(head, own))]
    BY <1>4 DEF ComputedSlots
  <2>5. QED
    <3> HIDE DEF c, own
    <3>1. QED
      BY <1>1, <2>2, <2>3, <2>4
<1>5. CASE ~(c + 1 < N) /\ ~DeferHead
  <2>1. ComputedSlots(p) = [p.slot EXCEPT ![c] = StartZone(own, c)]
    BY <1>5 DEF ComputedSlots
  <2> HIDE DEF c, own
  <2>2. QED
    BY <1>1, <1>2, <2>1
<1>6. QED
  BY <1>3, <1>4, <1>5

\* The positions that ended are those whose zones are in the aggregate.
LEMMA EndedZones ==
  ASSUME NEW p \in PassStates, NEW h \in Passes, NEW c, NEW e, NEW l,
         PassShape(p, h, c, e, l), NEW i \in Zones, i < p.arrived
  PROVE  /\ p.slot[i].zone = ZoneAt(h, i)
         /\ p.slot[i].zone \in p.agg.zones <=> Rank(i) < e
         /\ p.slot[i].owned <=> l <= Rank(i)
         /\ p.slot[i].owned \/ p.slot[i].zone \in p.agg.zones
<1>1. SlotShape(p.slot[i], i, h, c, e, l) /\ h \in Nat \ {0}
  BY DEF PassShape, SlotsShape, Passes
<1>2. p.slot[i].zone = ZoneAt(h, i) /\ (p.slot[i].owned <=> l <= Rank(i))
  BY <1>1 DEF SlotShape, Placed
<1>3. p.agg.zones = ZonesAt(h, {b \in Zones : Rank(b) < e})
  BY DEF PassShape, DataShape
<1>4. ZoneAt(h, i) \in p.agg.zones <=> Rank(i) < e
  BY <1>1, <1>3, ZoneAtInjective DEF ZonesAt
<1>5. l <= Rank(i) \/ Rank(i) < e
  <2>1. l \in 0 .. e /\ e \in 0 .. N
    BY DEF PassShape, Counters
  <2>2. Rank(i) \in 0 .. N - 1 /\ N \in Nat
    BY OrderFacts, ZonesFacts DEF Zones
  <2>3. QED
    BY <2>1, <2>2
<1>6. QED
  BY <1>2, <1>4, <1>5

LEMMA ShapeNow ==
  ASSUME ConveyorInv, NEW k \in Nodes, pc[k] \in Working
  PROVE  /\ WorkShape(pc[k], loc[k], pass[k])
         /\ PassShape(loc[k], pass[k], NumComputed(pc[k], loc[k].pos),
                      NumEnded(pc[k], loc[k].pos), NumLeft(pc[k], loc[k]))
         /\ pass[k] \in Passes /\ pass[k] \in Nat \ {0} /\ loc[k] \in PassStates
BY DEF ConveyorInv, ControlInv, TypeOK, DataInv, WorkInv, WorkShape, Passes

\* A step that only changes the state of zones in its slots.
Tidies(k) ==
  /\ pc[k] \in Working
  /\ \E x \in Working, q \in PassStates :
       /\ Moves(k, x, q)
       /\ \A j \in Zones : SameHold(loc[k], q, j)
       /\ q.arrived = loc[k].arrived /\ q.agg = loc[k].agg
  /\ UNCHANGED <<chan, final, level>>

LEMMA TidyKinds ==
  ASSUME ConveyorInv, NEW k \in Nodes, Shifts(k) \/ Computes(k)
  PROVE  Tidies(k)
<1> DEFINE p == loc[k]
<1>1. p \in PassStates
  BY DEF ConveyorInv, ControlInv, TypeOK
<1>2. CASE Shifts(k)
  <2>1. PICK x \in Working, q \in {p, [p EXCEPT !.op = 2]} : Moves(k, x, q)
    BY <1>2 DEF Shifts
  <2>2. q \in PassStates
    BY <1>1, <2>1, OpUpdateTypes
  <2>3. q.slot = p.slot /\ q.arrived = p.arrived /\ q.agg = p.agg
    BY <1>1, <2>1 DEF PassStates
  <2>4. pc[k] \in Working /\ UNCHANGED <<chan, final, level>>
    BY <1>2 DEF Shifts, Working
  <2>5. QED
    BY <2>1, <2>2, <2>3, <2>4 DEF Tidies, SameHold
<1>3. CASE Computes(k)
  <2> DEFINE q == [p EXCEPT !.slot = ComputedSlots(p)]
             r == NextPosition(q)
  <2>1. q \in PassStates
    BY <1>1, ComputedSlotsType, PassUpdateTypes
  <2>2. r \in PassStates
    BY <2>1, NextPositionType
  <2>3. q.slot = ComputedSlots(p) /\ q.arrived = p.arrived /\ q.agg = p.agg
    BY <1>1 DEF PassStates
  <2>4. r.slot = q.slot /\ r.arrived = q.arrived /\ r.agg = q.agg
    <3> HIDE DEF q
    <3>1. QED
      BY <2>1 DEF NextPosition, PassStates
  <2>5. /\ pc[k] \in Working /\ UNCHANGED <<chan, final, level>>
        /\ Moves(k, AfterPosition(p), r) \/ Moves(k, "end", q)
    BY <1>3 DEF Computes, Working
  <2>6. AfterPosition(p) \in Working /\ "end" \in Working
    BY DEF AfterPosition, Working
  <2>7. \A j \in Zones : SameHold(p, q, j) /\ SameHold(p, r, j)
    BY <1>1, <2>3, <2>4, ComputedTags DEF SameHold
  <2> HIDE DEF q, r
  <2>8. QED
    BY <2>1, <2>2, <2>3, <2>4, <2>5, <2>6, <2>7 DEF Tidies
<1>4. QED
  BY <1>2, <1>3

\* A zone ends its time step: no holder changes, the aggregate and the level do,
\* and each neighbour is in a slot or has ended this time step already.
Completes(k, z) ==
  LET p == loc[k]
  IN  /\ pc[k] \in Working
      /\ \E x \in Working, q \in PassStates :
           /\ Moves(k, x, q)
           /\ \A j \in Zones : SameHold(p, q, j)
           /\ q.arrived = p.arrived /\ q.agg.zones = p.agg.zones \cup {z}
      /\ z \in Zones /\ z \notin p.agg.zones
      /\ \E j \in Zones : j < p.arrived /\ p.slot[j].owned /\ p.slot[j].zone = z
      /\ \A b \in Adjacent(z) :
           \E i \in Zones : /\ i < p.arrived /\ p.slot[i].zone = b
                            /\ p.slot[i].owned \/ b \in p.agg.zones
      /\ level' = [level EXCEPT ![z] = pass[k]]
      /\ UNCHANGED <<chan, final>>

LEMMA EndsKind ==
  ASSUME ConveyorInv, NEW k \in Nodes, Ends(k)
  PROVE  \E z \in Zones : Completes(k, z)
<1> DEFINE p == loc[k]
           h == pass[k]
           j == EndPosition(k)
           z == p.slot[j].zone
           c == NumComputed(pc[k], p.pos)
           e == NumEnded(pc[k], p.pos)
           l == NumLeft(pc[k], p)
           q == EndedPass(p, j)
           r == NextPosition(q)
<1>1. /\ pc[k] \in {"end", "endhead"} /\ pc[k] \in Working
      /\ j = IF pc[k] = "end" THEN p.pos ELSE 0
  BY DEF Ends, EndPosition, Working
<1>2. /\ WorkShape(pc[k], p, h) /\ PassShape(p, h, c, e, l)
      /\ h \in Passes /\ h \in Nat \ {0} /\ p \in PassStates
  BY <1>1, ShapeNow
<1>3. j \in Zones /\ z = ZoneAt(h, j) /\ p.slot[j].owned
  <2> DEFINE more == pc[k] = "end" /\ DeferHead /\ j = N - 1
  <2>1. more <=> pc[k] = "end" /\ DeferHead /\ j = N - 1
    OBVIOUS
  <2> HIDE DEF more, j
  <2>2. QED
    BY <1>1, <1>2, <2>1, WorkEnd
<1>4. /\ e \in Zones /\ Order(e) = j /\ j < c
      /\ DeferHead /\ j = 0 => c = N
  <2> HIDE DEF j
  <2>1. QED
    BY <1>1, <1>2, EndPoint
<1>5. /\ c \in 0 .. N /\ p.arrived \in 0 .. N /\ N \in Nat \ {0} /\ j \in 0 .. N - 1
      /\ c = N => p.arrived = N
      /\ c \in 1 .. N - 1 => p.arrived > c
  BY <1>2, <1>3, ZonesFacts DEF PassShape, Counters, PassStates, Zones
<1>6. j < p.arrived
  BY <1>4, <1>5
<1>7. z \in Zones /\ z \notin p.agg.zones
  <2>1. Rank(j) = e
    BY <1>4, OrderFacts
  <2>2. z \in p.agg.zones <=> Rank(j) < e
    BY <1>2, <1>3, <1>6, EndedZones
  <2>3. e \in Nat
    BY <1>4, ZonesFacts DEF Zones
  <2>4. QED
    BY <1>2, <1>3, <2>1, <2>2, <2>3, ZoneAtForm
<1>8. ASSUME NEW b \in Adjacent(z)
      PROVE  \E i \in Zones : /\ i < p.arrived /\ p.slot[i].zone = b
                              /\ p.slot[i].owned \/ b \in p.agg.zones
  <2>1. b \in Zones
    <3>1. CrossPartner(z) \subseteq Zones
      BY <1>7, ZonesFacts DEF CrossPartner, Zones
    <3>2. QED
      BY <3>1 DEF Adjacent
  <2>2. PICK i \in Zones : ZoneAt(h, i) = b
    BY <1>2, <2>1, ZoneAtOnto
  <2>3. Beside(j, i)
    BY <1>2, <1>3, <2>2, AdjacentPositions
  <2>4. i < p.arrived
    <3>1. i \in 0 .. N - 1 /\ (i = j + 1 \/ j = i + 1 \/ (DeferHead /\ {j, i} = {0, N - 1}))
      BY <2>3 DEF Beside, Zones
    <3>2. CASE i = j + 1 \/ j = i + 1
      BY <1>4, <1>5, <3>1, <3>2
    <3>3. CASE DeferHead /\ {j, i} = {0, N - 1}
      <4>1. (j = 0 /\ i = N - 1) \/ (j = N - 1 /\ i = 0)
        BY <3>3
      <4>2. QED
        BY <1>4, <1>5, <3>1, <3>3, <4>1
    <3>4. QED
      BY <3>1, <3>2, <3>3
  <2>5. p.slot[i].zone = b /\ (p.slot[i].owned \/ p.slot[i].zone \in p.agg.zones)
    BY <1>2, <2>2, <2>4, EndedZones
  <2>6. QED
    BY <2>4, <2>5
<1>9. /\ q \in PassStates /\ r \in PassStates
      /\ q.arrived = p.arrived /\ q.agg.zones = p.agg.zones \cup {z}
      /\ q.slot = [p.slot EXCEPT ![j] = EndedSlot(@)]
  <2>1. q \in PassStates
    BY <1>2, <1>3, EndedPassType
  <2>2. r \in PassStates
    BY <2>1, NextPositionType
  <2>3. p.agg \in Lambdas
    BY <1>2 DEF PassStates
  <2>4. QED
    BY <1>2, <2>1, <2>2, <2>3 DEF EndedPass, PassStates, Lambdas
<1>10. r.slot = q.slot /\ r.arrived = q.arrived /\ r.agg = q.agg
  <2> HIDE DEF q
  <2>1. QED
    BY <1>9 DEF NextPosition, PassStates
<1>11. \A i \in Zones : SameHold(p, q, i) /\ SameHold(p, r, i)
  <2>1. p.slot \in [Zones -> Slots]
    BY <1>2 DEF PassStates
  <2>2. EndedSlot(p.slot[j]).zone = p.slot[j].zone
        /\ (EndedSlot(p.slot[j]).owned <=> p.slot[j].owned)
    BY <1>3, <2>1, HoldTags
  <2> HIDE DEF q, r, j
  <2>3. QED
    BY <1>3, <1>9, <1>10, <2>1, <2>2 DEF SameHold
<1>12. \E x \in Working, u \in {q, r} : Moves(k, x, u)
  BY DEF Ends, AfterPosition, Working
<1>13. level' = [level EXCEPT ![z] = pass[k]] /\ UNCHANGED <<chan, final>>
  BY DEF Ends
<1> HIDE DEF q, r, z, h, c, e, l, j
<1>14. Completes(k, z)
  <2>1. \E x \in Working, u \in PassStates :
           /\ Moves(k, x, u)
           /\ \A i \in Zones : SameHold(p, u, i)
           /\ u.arrived = p.arrived /\ u.agg.zones = p.agg.zones \cup {z}
    BY <1>9, <1>10, <1>11, <1>12
  <2>2. \E i \in Zones : i < p.arrived /\ p.slot[i].owned /\ p.slot[i].zone = z
    BY <1>3, <1>6 DEF z
  <2>3. QED
    BY <1>1, <1>7, <1>8, <1>13, <2>1, <2>2 DEF Completes, h
<1>15. QED
  BY <1>7, <1>14

\* A zone arrives in slot a, from the preload or from the in edge.
Takes(k, m, a) ==
  LET p == loc[k]
  IN  /\ pc[k] \in Working /\ a = p.arrived /\ a \in Zones
      /\ ~p.slot[a].owned /\ m.zone \in Zones /\ m.zone \notin p.agg.zones
      /\ \E q \in PassStates :
           /\ Moves(k, pc[k], q)
           /\ \A j \in Zones \ {a} : q.slot[j] = p.slot[j]
           /\ q.slot[a].owned /\ q.slot[a].zone = m.zone
           /\ q.arrived = a + 1 /\ q.agg = p.agg
      /\ UNCHANGED <<final, level>>

LEMMA TakesKind ==
  ASSUME ConveyorInv, NEW k \in Nodes, pc[k] \in {"io", "compute"},
         loc[k].arrived \in Zones, NEW m \in Messages, InOrder(k, m),
         Moves(k, pc[k], Accept(k, m)), UNCHANGED <<final, level>>
  PROVE  Takes(k, m, loc[k].arrived)
<1> DEFINE p == loc[k]
           h == pass[k]
           a == p.arrived
           c == NumComputed(pc[k], p.pos)
           e == NumEnded(pc[k], p.pos)
           l == NumLeft(pc[k], p)
           q == Accept(k, m)
<1>1. /\ PassShape(p, h, c, e, l) /\ h \in Passes /\ h \in Nat \ {0} /\ p \in PassStates
      /\ pc[k] \in Working /\ TypeOK
  BY ShapeNow DEF Working, ConveyorInv, ControlInv
<1>2. a \in 0 .. N - 1 /\ N \in Nat \ {0} /\ m.zone = ZoneAt(h, a)
  BY ZonesFacts DEF Zones, InOrder
<1>3. m.zone \in Zones
  BY <1>1, <1>2, ZoneAtForm
<1>4. ~p.slot[a].owned
  BY <1>1, <1>2 DEF PassShape, SlotsShape
<1>5. m.zone \notin p.agg.zones
  <2>1. p.agg.zones = ZonesAt(h, {b \in Zones : Rank(b) < e})
    BY <1>1 DEF PassShape, DataShape
  <2>2. Rank(a) < e => a < c
    BY <1>1 DEF PassShape, Counters
  <2>3. c \in 0 .. N /\ (c = N => p.arrived = N) /\ (c \in 1 .. N - 1 => p.arrived > c)
    BY <1>1 DEF PassShape, Counters
  <2>4. ~(a < c)
    BY <1>2, <2>3
  <2>5. ASSUME NEW b \in Zones, Rank(b) < e
        PROVE  ZoneAt(h, b) # ZoneAt(h, a)
    <3>1. b # a
      BY <2>2, <2>4, <2>5
    <3>2. QED
      BY <1>1, <3>1, ZoneAtInjective
  <2>6. QED
    BY <1>2, <2>1, <2>5 DEF ZonesAt
<1>6. q \in PassStates
  BY <1>1, AcceptType
<1>7. /\ q.arrived = a + 1 /\ q.agg = p.agg
      /\ q.slot = [p.slot EXCEPT ![a] = [EmptySlot EXCEPT !.zone = m.zone,
                     !.fsm = ArrivedZone(k), !.owned = TRUE, !.body = m.body,
                     !.lam = m.lam]]
  BY <1>1 DEF Accept, PassStates
<1>8. q.slot[a].owned /\ q.slot[a].zone = m.zone /\ \A j \in Zones \ {a} : q.slot[j] = p.slot[j]
  BY <1>1, <1>7 DEF EmptySlot, PassStates
<1> HIDE DEF q
<1>9. QED
  BY <1>1, <1>3, <1>4, <1>5, <1>6, <1>7, <1>8 DEF Takes, q

\* A zone leaves slot j.
Leaves(k, j) ==
  LET p == loc[k]
  IN  /\ pc[k] \in Working
      /\ j \in Zones /\ j < p.arrived /\ p.slot[j].owned
      /\ p.slot[j].zone \in Zones /\ p.slot[j].zone \in p.agg.zones
      /\ \E q \in PassStates :
           /\ Moves(k, pc[k], q)
           /\ \A i \in Zones \ {j} : q.slot[i] = p.slot[i]
           /\ ~q.slot[j].owned /\ q.slot[j].zone = p.slot[j].zone
           /\ q.arrived = p.arrived /\ q.agg = p.agg
      /\ level' = level

LEMMA LeavesKind ==
  ASSUME ConveyorInv, NEW k \in Nodes, Emits(k) \/ Collects(k)
  PROVE  /\ Leaves(k, Head(loc[k].outq))
         /\ loc[k].slot[Head(loc[k].outq)].body
              = CompleteBody(loc[k].slot[Head(loc[k].outq)].zone, pass[k])
         /\ pass[k] # Steps =>
              /\ OutMessage(k).zone = loc[k].slot[Head(loc[k].outq)].zone
              /\ OutMessage(k).step = pass[k] /\ OutMessage(k) \in Messages
<1> DEFINE p == loc[k]
           h == pass[k]
           j == Head(p.outq)
           s == p.slot[j]
           c == NumComputed(pc[k], p.pos)
           e == NumEnded(pc[k], p.pos)
           l == NumLeft(pc[k], p)
           q == IF h = Steps THEN CollectedPass(p) ELSE SentPass(p)
           t == IF h = Steps THEN MovedOut(s) ELSE SentSlot(s)
<1>1. /\ pc[k] \in {"io", "flush"} /\ pc[k] \in Working /\ p.outq # <<>>
      /\ Moves(k, pc[k], q) /\ level' = level
  BY DEF Emits, Collects, Leaving, Working
<1>2. /\ PassShape(p, h, c, e, l) /\ h \in Passes /\ h \in Nat \ {0} /\ p \in PassStates
      /\ TypeOK
  BY <1>1, ShapeNow DEF ConveyorInv, ControlInv
<1>3. /\ l \in Zones /\ l < e /\ j = Order(l) /\ j \in Zones /\ Rank(j) = l
      /\ j < p.arrived /\ s \in Slots /\ Placed(s, j, h) /\ s.owned
      /\ s.body = CompleteBody(s.zone, h)
  <2> HIDE DEF c, e, l
  <2>1. QED
    BY <1>1, <1>2, QueueHead, SMTT(30)
<1>4. s.zone \in Zones /\ s.zone \in p.agg.zones
  BY <1>2, <1>3, EndedZones DEF Slots
<1>5. q \in PassStates
  <2>1. CollectedPass(p) \in PassStates
    <3>1. Tail(p.outq) \in Seq(Zones)
      BY <1>1, <1>2, HeadTailProperties DEF PassStates
    <3>2. CollectedPass(p) = [p EXCEPT !.outq = Tail(p.outq), !.slot = [p.slot EXCEPT ![j] = MovedOut(s)]]
      BY <1>2, <1>3 DEF CollectedPass, PassStates
    <3>3. [p.slot EXCEPT ![j] = MovedOut(s)] \in [Zones -> Slots]
      BY <1>2, <1>3, MovedOutType DEF PassStates
    <3>4. QED
      BY <1>2, <3>1, <3>2, <3>3 DEF PassStates
  <2>2. SentPass(p) \in PassStates
    <3>1. Tail(p.outq) \in Seq(Zones) /\ p.sent + 1 \in Nat
      BY <1>1, <1>2, HeadTailProperties DEF PassStates
    <3>2. SentPass(p) = [p EXCEPT !.outq = Tail(p.outq), !.sent = p.sent + 1,
                                  !.slot = [p.slot EXCEPT ![j] = SentSlot(s)]]
      BY <1>2, <1>3 DEF SentPass, PassStates
    <3>3. [p.slot EXCEPT ![j] = SentSlot(s)] \in [Zones -> Slots]
      BY <1>2, <1>3, SentSlotType DEF PassStates
    <3>4. QED
      BY <1>2, <3>1, <3>2, <3>3 DEF PassStates
  <2>3. QED
    BY <2>1, <2>2
<1>6. q.slot = [p.slot EXCEPT ![j] = t] /\ q.arrived = p.arrived /\ q.agg = p.agg
  BY <1>2 DEF CollectedPass, SentPass, PassStates
<1>7. ~t.owned /\ t.zone = s.zone
  BY <1>3 DEF MovedOut, SentSlot, Slots
<1>8. p.slot \in [Zones -> Slots]
  BY <1>2 DEF PassStates
<1>9. pass[k] # Steps =>
        OutMessage(k).zone = s.zone /\ OutMessage(k).step = h /\ OutMessage(k) \in Messages
  <2>1. OutMessage(k) \in Messages
    BY <1>1, <1>2, OutMessageType
  <2> HIDE DEF c, e, l
  <2>2. pass[k] # Steps => OutMessage(k).step = h
    BY <1>1, <1>2, OutMessageShape
  <2>3. OutMessage(k).zone = s.zone
    BY DEF OutMessage
  <2>4. QED
    BY <2>1, <2>2, <2>3
<1>10. Leaves(k, j)
  <2>1. /\ \A i \in Zones \ {j} : q.slot[i] = p.slot[i]
        /\ ~q.slot[j].owned /\ q.slot[j].zone = s.zone
    <3> HIDE DEF q, t, s, j
    <3>1. QED
      BY <1>3, <1>6, <1>7, <1>8
  <2> HIDE DEF q, t, j
  <2>2. QED
    BY <1>1, <1>3, <1>4, <1>5, <1>6, <2>1 DEF Leaves
<1>11. QED
  BY <1>3, <1>9, <1>10

\* A node begins a pass with empty slots.
Begins(k) ==
  /\ Idle(k) /\ \E x, q : /\ x \in Working /\ q \in PassStates /\ Moves(k, x, q)
                          /\ \A j \in Zones : ~q.slot[j].owned
                          /\ q.arrived = 0
  /\ UNCHANGED <<chan, final, level>>

LEMMA StartsKind ==
  ASSUME ConveyorInv, NEW k \in Nodes, Starts(k)
  PROVE  Begins(k)
<1>1. Idle(k) /\ Moves(k, "io", FreshPass(pass[k])) /\ UNCHANGED <<chan, final, level>>
  BY DEF Starts, Idle
<1>2. FreshPass(pass[k]) \in PassStates
  BY FreshPassType DEF ConveyorInv, ControlInv, TypeOK
<1>3. (\A j \in Zones : ~FreshPass(pass[k]).slot[j].owned) /\ FreshPass(pass[k]).arrived = 0
  BY DEF FreshPass, EmptySlot
<1>4. "io" \in Working
  BY DEF Working
<1>5. QED
  BY <1>1, <1>2, <1>3, <1>4 DEF Begins

-----------------------------------------------------------------------------
(* Every zone has one holder (INV-6).                                        *)

\* A step that moves no zone.
LEMMA HoldersQuiet ==
  ASSUME OneHolder, AHolder, HaltOn => HaltOn', chan' = chan, final' = final,
         \A i \in Zones : InPreload(i)' <=> InPreload(i),
         \A l \in Nodes, b \in Zones, i \in Zones : InSlot(l, b, i)' <=> InSlot(l, b, i)
  PROVE  OneHolder' /\ AHolder'
<1>1. ASSUME NEW i \in Zones, NEW t \in Kinds, NEW a \in Nodes, NEW b \in Nat
      PROVE  Holds(t, a, b, i)' <=> Holds(t, a, b, i)
  <2>1. InSlot(a, b, i)' <=> InSlot(a, b, i)
    BY DEF InSlot
  <2>2. InQueue(a, b, i)' <=> InQueue(a, b, i)
    BY DEF InQueue
  <2>3. (InPreload(i)' <=> InPreload(i)) /\ (Collected(i)' <=> Collected(i))
    BY DEF Collected
  <2>4. QED
    BY <2>1, <2>2, <2>3 DEF Holds
<1>2. OneHolder'
  BY <1>1 DEF OneHolder
<1>3. AHolder'
  BY <1>1 DEF AHolder
<1>4. QED
  BY <1>2, <1>3

\* A step that moves zone z from one holder to another.
Transfers(z, t0, a0, b0, t1, a1, b1) ==
  /\ z \in Zones
  /\ t0 \in Kinds /\ a0 \in Nodes /\ b0 \in Nat /\ Holds(t0, a0, b0, z)
  /\ t1 \in Kinds /\ a1 \in Nodes /\ b1 \in Nat /\ Holds(t1, a1, b1, z)'
  /\ \A i \in Zones, t \in Kinds, a \in Nodes, b \in Nat :
       /\ Holds(t, a, b, i)' =>
            \/ i = z /\ t = t1 /\ a = a1 /\ b = b1
            \/ Holds(t, a, b, i) /\ ~(i = z /\ t = t0 /\ a = a0 /\ b = b0)
       /\ Holds(t, a, b, i) /\ i # z => Holds(t, a, b, i)'

LEMMA HoldersTransfer ==
  ASSUME OneHolder, AHolder, HaltOn => HaltOn',
         NEW z, NEW t0, NEW a0, NEW b0, NEW t1, NEW a1, NEW b1,
         Transfers(z, t0, a0, b0, t1, a1, b1)
  PROVE  OneHolder' /\ AHolder'
<1>0. /\ z \in Zones
      /\ t0 \in Kinds /\ a0 \in Nodes /\ b0 \in Nat /\ Holds(t0, a0, b0, z)
      /\ t1 \in Kinds /\ a1 \in Nodes /\ b1 \in Nat /\ Holds(t1, a1, b1, z)'
      /\ \A i \in Zones, t \in Kinds, a \in Nodes, b \in Nat :
           /\ Holds(t, a, b, i)' =>
                \/ i = z /\ t = t1 /\ a = a1 /\ b = b1
                \/ Holds(t, a, b, i) /\ ~(i = z /\ t = t0 /\ a = a0 /\ b = b0)
           /\ Holds(t, a, b, i) /\ i # z => Holds(t, a, b, i)'
  BY DEF Transfers
<1>1. ASSUME NEW i \in Zones, NEW t \in Kinds, NEW a \in Nodes, NEW b \in Nat,
             Holds(t, a, b, i)'
      PROVE  IF i = z THEN t = t1 /\ a = a1 /\ b = b1 ELSE Holds(t, a, b, i)
  <2>1. \/ i = z /\ t = t1 /\ a = a1 /\ b = b1
        \/ Holds(t, a, b, i) /\ ~(i = z /\ t = t0 /\ a = a0 /\ b = b0)
    BY <1>0, <1>1
  <2>2. Holds(t, a, b, i) /\ i = z => t = t0 /\ a = a0 /\ b = b0
    BY <1>0 DEF OneHolder
  <2>3. QED
    BY <2>1, <2>2
<1>2. OneHolder'
  <2> SUFFICES ASSUME NEW i \in Zones, NEW t \in Kinds, NEW u \in Kinds,
                      NEW a \in Nodes, NEW c \in Nodes, NEW b \in Nat, NEW d \in Nat,
                      Holds(t, a, b, i)', Holds(u, c, d, i)'
               PROVE  t = u /\ a = c /\ b = d
    BY DEF OneHolder
  <2>1. CASE i = z
    BY <1>1, <2>1
  <2>2. CASE i # z
    BY <1>1, <2>2 DEF OneHolder
  <2>3. QED
    BY <2>1, <2>2
<1>3. AHolder'
  <2> SUFFICES ASSUME ~HaltOn', NEW i \in Zones
               PROVE  \E t \in Kinds, a \in Nodes, b \in Nat : Holds(t, a, b, i)'
    BY DEF AHolder
  <2>1. PICK t \in Kinds, a \in Nodes, b \in Nat : Holds(t, a, b, i)
    BY DEF AHolder
  <2>2. CASE i = z
    BY <1>0, <2>2
  <2>3. CASE i # z
    BY <1>0, <2>1, <2>3
  <2>4. QED
    BY <2>2, <2>3
<1>4. QED
  BY <1>2, <1>3

LEMMA HoldersTidy ==
  ASSUME ConveyorInv, OneHolder, AHolder, IdleInv, HaltOn => HaltOn', NEW k \in Nodes,
         Tidies(k) \/ (\E z \in Zones : Completes(k, z)) \/ Begins(k)
  PROVE  OneHolder' /\ AHolder'
<1>1. /\ TypeOK /\ 0 \in Nodes
      /\ UNCHANGED <<chan, final>>
  BY ZonesFacts DEF ConveyorInv, ControlInv, Nodes, Tidies, Completes, Begins
<1>2. PICK x, q : /\ x \in Working /\ q \in PassStates /\ Moves(k, x, q)
                  /\ \/ /\ \A j \in Zones : SameHold(loc[k], q, j)
                        /\ q.arrived = loc[k].arrived
                     \/ /\ \A j \in Zones : ~q.slot[j].owned
                        /\ q.arrived = 0 /\ Idle(k)
  BY DEF Tidies, Completes, Begins
<1>3. /\ loc'[k] = q /\ pass' = pass
      /\ \A l \in Nodes : l # k => loc'[l] = loc[l]
  BY <1>1, <1>2, MovesFacts
<1>4. ASSUME NEW l \in Nodes, NEW b \in Zones, NEW i \in Zones
      PROVE  InSlot(l, b, i)' <=> InSlot(l, b, i)
  <2>1. CASE l = k
    BY <1>2, <1>3, <2>1 DEF InSlot, SameHold, IdleInv
  <2>2. CASE l # k
    BY <1>3, <2>2 DEF InSlot
  <2>3. QED
    BY <2>1, <2>2
<1>5. ASSUME NEW i \in Zones
      PROVE  InPreload(i)' <=> InPreload(i)
  <2>1. CASE k = 0
    <3>1. pass[0] = 1 => q.arrived = loc[0].arrived
      BY <1>2, <2>1 DEF IdleInv
    <3>2. QED
      BY <1>3, <2>1, <3>1 DEF InPreload
  <2>2. CASE k # 0
    BY <1>1, <1>3, <2>2 DEF InPreload
  <2>3. QED
    BY <2>1, <2>2
<1>6. QED
  BY <1>1, <1>4, <1>5, HoldersQuiet

LEMMA OnlyFirstLoads ==
  ASSUME PassInv, NEW k \in Nodes, pass[k] = 1
  PROVE  k = 0
<1>1. PICK q \in Nat : 1 = k + 1 + q * Z
  BY DEF PassInv, PassOf
<1>2. k \in Nat /\ q * Z \in Nat
  BY ZonesFacts DEF Nodes
<1>3. QED
  BY <1>1, <1>2

\* The arrival of a zone at node k: its slot a holds it now.
LEMMA HoldersLoads ==
  ASSUME ConveyorInv, OneHolder, AHolder, HaltOn => HaltOn', NEW k \in Nodes,
         pass[k] = 1, NEW a \in Zones, Takes(k, MakePreload(a), a), chan' = chan
  PROVE  OneHolder' /\ AHolder'
<1> DEFINE m == MakePreload(a)
<1>1. k = 0 /\ TypeOK /\ pass[0] = 1 /\ 0 \in Nodes
  BY OnlyFirstLoads DEF ConveyorInv, RecordInv, ControlInv
<1>2. m.zone = a /\ a \in Nat /\ loc[k].arrived = a /\ final' = final /\ ~loc[k].slot[a].owned
  BY ZonesFacts DEF MakePreload, Zones, Takes
<1>3. PICK q \in PassStates :
        /\ Moves(k, pc[k], q)
        /\ \A j \in Zones \ {a} : q.slot[j] = loc[k].slot[j]
        /\ q.slot[a].owned /\ q.slot[a].zone = m.zone
        /\ q.arrived = a + 1
  BY DEF Takes
<1>4. /\ loc'[k] = q /\ pass' = pass
      /\ \A l \in Nodes : l # k => loc'[l] = loc[l]
  BY <1>1, <1>3, MovesFacts
<1>5. Holds("preload", 0, 0, a)
  BY <1>1, <1>2 DEF Holds, InPreload
<1>6. Holds("slot", 0, a, a)'
  BY <1>1, <1>2, <1>3, <1>4 DEF Holds, InSlot
<1> HIDE DEF m
<1>7. ASSUME NEW i \in Zones, NEW t \in Kinds, NEW c \in Nodes, NEW b \in Nat
      PROVE  /\ Holds(t, c, b, i)' =>
                  \/ i = a /\ t = "slot" /\ c = 0 /\ b = a
                  \/ Holds(t, c, b, i) /\ ~(i = a /\ t = "preload" /\ c = 0 /\ b = 0)
             /\ Holds(t, c, b, i) /\ i # a => Holds(t, c, b, i)'
  <2>1. CASE t = "slot"
    <3>1. /\ Holds(t, c, b, i) <=> InSlot(c, b, i)
          /\ Holds(t, c, b, i)' <=> InSlot(c, b, i)'
      BY <2>1 DEF Holds
    <3>2. CASE c = 0 /\ b = a
      BY <1>1, <1>2, <1>3, <1>4, <2>1, <3>1, <3>2 DEF InSlot
    <3>3. CASE ~(c = 0 /\ b = a)
      <4>1. InSlot(c, b, i)' <=> InSlot(c, b, i)
        BY <1>1, <1>3, <1>4, <3>3 DEF InSlot
      <4>2. QED
        BY <2>1, <3>1, <4>1
    <3>4. QED
      BY <3>2, <3>3
  <2>2. CASE t = "queue"
    <3>1. InQueue(c, b, i)' <=> InQueue(c, b, i)
      BY DEF InQueue
    <3>2. QED
      BY <2>2, <3>1 DEF Holds
  <2>3. CASE t = "preload"
    <3>1. /\ i \in 0 .. N - 1 /\ a \in 0 .. N - 1
      BY DEF Zones
    <3>2. InPreload(i) <=> a <= i
      BY <1>1, <1>2 DEF InPreload
    <3>3. InPreload(i)' <=> a + 1 <= i
      BY <1>1, <1>3, <1>4 DEF InPreload
    <3>4. InPreload(i)' <=> InPreload(i) /\ i # a
      BY <3>1, <3>2, <3>3, ZonesFacts
    <3>5. QED
      BY <2>3, <3>4 DEF Holds
  <2>4. CASE t = "final"
    <3>1. Collected(i)' <=> Collected(i)
      BY <1>2 DEF Collected
    <3>2. QED
      BY <2>4, <3>1 DEF Holds
  <2>5. QED
    BY <2>1, <2>2, <2>3, <2>4 DEF Kinds
<1>8. "slot" \in Kinds /\ "preload" \in Kinds /\ 0 \in Nat
  BY DEF Kinds
<1>9. \A i \in Zones, t \in Kinds, c \in Nodes, b \in Nat :
        /\ Holds(t, c, b, i)' =>
             \/ i = a /\ t = "slot" /\ c = 0 /\ b = a
             \/ Holds(t, c, b, i) /\ ~(i = a /\ t = "preload" /\ c = 0 /\ b = 0)
        /\ Holds(t, c, b, i) /\ i # a => Holds(t, c, b, i)'
  BY <1>7
<1>10. Transfers(a, "preload", 0, 0, "slot", 0, a)
  BY <1>1, <1>2, <1>5, <1>6, <1>8, <1>9 DEF Transfers
<1>11. QED
  BY <1>10, HoldersTransfer

\* A zone received leaves the head of the in edge for slot a; the zones behind
\* it move up by one.
Before(k, a, t, c, b) ==
  IF t = "slot" /\ c = k /\ b = a THEN [kind |-> "queue", at |-> InEdge(k), ix |-> 1]
  ELSE IF t = "queue" /\ c = InEdge(k) THEN [kind |-> t, at |-> c, ix |-> b + 1]
  ELSE [kind |-> t, at |-> c, ix |-> b]

LEMMA HoldersReceives ==
  ASSUME ConveyorInv, OneHolder, AHolder, HaltOn => HaltOn', NEW k \in Nodes,
         pass[k] # 1, chan[InEdge(k)] # <<>>, NEW a \in Zones,
         Takes(k, Head(chan[InEdge(k)]), a),
         chan' = [chan EXCEPT ![InEdge(k)] = Tail(@)]
  PROVE  OneHolder' /\ AHolder'
<1> DEFINE e == InEdge(k)
           m == Head(chan[e])
           B(t, c, b) == Before(k, a, t, c, b)
<1>1. TypeOK /\ e \in Nodes /\ 0 \in Nodes /\ a \in Nat
  BY EdgesAreNodes, ZonesFacts DEF ConveyorInv, ControlInv, Nodes, Zones
<1>2. final' = final /\ loc[k].arrived = a /\ ~loc[k].slot[a].owned
  BY DEF Takes
<1>3. PICK q \in PassStates :
        /\ Moves(k, pc[k], q)
        /\ \A j \in Zones \ {a} : q.slot[j] = loc[k].slot[j]
        /\ q.slot[a].owned /\ q.slot[a].zone = m.zone
        /\ q.arrived = a + 1
  BY DEF Takes
<1>4. /\ loc'[k] = q /\ pass' = pass
      /\ \A l \in Nodes : l # k => loc'[l] = loc[l]
  BY <1>1, <1>3, MovesFacts
<1>5. chan[e] \in Seq(Messages) /\ chan[e] # <<>>
  BY <1>1 DEF TypeOK
<1>6. /\ chan'[e] = Tail(chan[e]) /\ \A d \in Nodes : d # e => chan'[d] = chan[d]
  BY <1>1 DEF TypeOK
<1>7. /\ Len(chan[e]) \in Nat /\ Len(chan'[e]) = Len(chan[e]) - 1 /\ Len(chan[e]) >= 1
      /\ m = chan[e][1]
      /\ \A i \in 1 .. Len(chan'[e]) : chan'[e][i] = chan[e][i + 1]
  <2>1. /\ Len(Tail(chan[e])) = Len(chan[e]) - 1
        /\ \A i \in 1 .. Len(Tail(chan[e])) : Tail(chan[e])[i] = chan[e][i + 1]
    BY <1>5, HeadTailProperties
  <2>2. Len(chan[e]) \in Nat /\ (chan[e] # <<>> => Len(chan[e]) # 0)
    BY <1>5, EmptySeq, LenProperties
  <2>3. m = chan[e][1]
    BY DEF m
  <2> HIDE DEF e, m
  <2>4. Len(chan[e]) >= 1
    BY <1>5, <2>2
  <2>5. QED
    BY <1>6, <2>1, <2>2, <2>3, <2>4
<1> HIDE DEF m
<1>8. ASSUME NEW c \in Nodes, NEW b \in Nat, NEW i \in Zones
      PROVE  /\ InSlot(c, b, i)' => IF c = k /\ b = a THEN InQueue(e, 1, i) ELSE InSlot(c, b, i)
             /\ InSlot(c, b, i) => InSlot(c, b, i)'
  <2>1. CASE c = k /\ b = a
    <3>1. InSlot(c, b, i)' => i = m.zone
      BY <1>3, <1>4, <2>1 DEF InSlot
    <3>2. InQueue(e, 1, m.zone)
      BY <1>7 DEF InQueue
    <3>3. ~InSlot(c, b, i)
      BY <1>2, <2>1 DEF InSlot
    <3>4. QED
      BY <2>1, <3>1, <3>2, <3>3
  <2>2. CASE ~(c = k /\ b = a)
    BY <1>3, <1>4, <2>2 DEF InSlot
  <2>3. QED
    BY <2>1, <2>2
<1>9. ASSUME NEW c \in Nodes, NEW b \in Nat, NEW i \in Zones
      PROVE  InQueue(c, b, i)' <=>
               IF c = e THEN b >= 1 /\ InQueue(e, b + 1, i) ELSE InQueue(c, b, i)
  <2>1. CASE c = e
    <3>1. b \in 1 .. Len(chan'[e]) <=> b >= 1 /\ b + 1 \in 1 .. Len(chan[e])
      BY <1>7
    <3>2. QED
      BY <1>7, <2>1, <3>1 DEF InQueue
  <2>2. CASE c # e
    BY <1>6, <2>2 DEF InQueue
  <2>3. QED
    BY <2>1, <2>2
<1>10. \A i \in Zones : (InPreload(i)' <=> InPreload(i)) /\ (Collected(i)' <=> Collected(i))
  BY <1>1, <1>2, <1>4 DEF InPreload, Collected
<1>11. ASSUME NEW i \in Zones, NEW t \in Kinds, NEW c \in Nodes, NEW b \in Nat,
              Holds(t, c, b, i)'
       PROVE  /\ Holds(B(t, c, b).kind, B(t, c, b).at, B(t, c, b).ix, i)
              /\ B(t, c, b).kind \in Kinds /\ B(t, c, b).at \in Nodes
              /\ B(t, c, b).ix \in Nat
              /\ t = "queue" => b >= 1
  <2>1. CASE t = "slot" /\ c = k /\ b = a
    <3>1. InQueue(e, 1, i)
      BY <1>8, <1>11, <2>1 DEF Holds
    <3>2. B(t, c, b) = [kind |-> "queue", at |-> e, ix |-> 1]
      BY <2>1 DEF Before
    <3> HIDE DEF B, e
    <3>3. QED
      BY <1>1, <2>1, <3>1, <3>2 DEF Holds, Kinds
  <2>2. CASE t = "queue" /\ c = e
    <3>1. b >= 1 /\ InQueue(e, b + 1, i)
      BY <1>9, <1>11, <2>2 DEF Holds
    <3>2. B(t, c, b) = [kind |-> "queue", at |-> e, ix |-> b + 1]
      BY <2>2 DEF Before
    <3> HIDE DEF B, e
    <3>3. QED
      BY <1>1, <2>2, <3>1, <3>2 DEF Holds, Kinds
  <2>3. CASE ~(t = "slot" /\ c = k /\ b = a) /\ ~(t = "queue" /\ c = e)
    <3>1. B(t, c, b) = [kind |-> t, at |-> c, ix |-> b]
      BY <2>3 DEF Before
    <3>2. t = "queue" => InQueue(c, b, i) /\ b >= 1
      <4>1. t = "queue" => InQueue(c, b, i)
        BY <1>9, <1>11, <2>3 DEF Holds
      <4>2. QED
        BY <4>1 DEF InQueue
    <3>3. t = "slot" => InSlot(c, b, i)
      BY <1>8, <1>11, <2>3 DEF Holds
    <3>4. Holds(t, c, b, i)
      BY <1>10, <1>11, <3>2, <3>3 DEF Holds, Kinds
    <3> HIDE DEF B
    <3>5. QED
      BY <3>1, <3>2, <3>4
  <2>4. QED
    BY <2>1, <2>2, <2>3
<1>12. ASSUME NEW t \in Kinds, NEW u \in Kinds, NEW c \in Nodes, NEW d \in Nodes,
              NEW b \in Nat, NEW f \in Nat, B(t, c, b) = B(u, d, f),
              t = "queue" => b >= 1, u = "queue" => f >= 1
       PROVE  t = u /\ c = d /\ b = f
  <2>1. /\ B(t, c, b).kind = B(u, d, f).kind /\ B(t, c, b).at = B(u, d, f).at
        /\ B(t, c, b).ix = B(u, d, f).ix
    BY <1>12
  <2>2. CASE t = "slot" /\ c = k /\ b = a
    BY <1>12, <2>1, <2>2 DEF Before
  <2>3. CASE u = "slot" /\ d = k /\ f = a
    BY <1>12, <2>1, <2>3 DEF Before
  <2>4. CASE ~(t = "slot" /\ c = k /\ b = a) /\ ~(u = "slot" /\ d = k /\ f = a)
    BY <1>12, <2>1, <2>4 DEF Before
  <2>5. QED
    BY <2>2, <2>3, <2>4
<1>13. OneHolder'
  <2> SUFFICES ASSUME NEW i \in Zones, NEW t \in Kinds, NEW u \in Kinds,
                      NEW c \in Nodes, NEW d \in Nodes, NEW b \in Nat, NEW f \in Nat,
                      Holds(t, c, b, i)', Holds(u, d, f, i)'
               PROVE  t = u /\ c = d /\ b = f
    BY DEF OneHolder
  <2> HIDE DEF B
  <2>1. /\ B(t, c, b).kind = B(u, d, f).kind /\ B(t, c, b).at = B(u, d, f).at
        /\ B(t, c, b).ix = B(u, d, f).ix
    BY <1>11, SMTT(30) DEF OneHolder
  <2>2. B(t, c, b) = B(u, d, f)
    BY <2>1 DEF B, Before
  <2>3. QED
    BY <1>11, <1>12, <2>2
<1>14. AHolder'
  <2> SUFFICES ASSUME ~HaltOn', NEW i \in Zones
               PROVE  \E t \in Kinds, c \in Nodes, b \in Nat : Holds(t, c, b, i)'
    BY DEF AHolder
  <2>1. PICK t \in Kinds, c \in Nodes, b \in Nat : Holds(t, c, b, i)
    BY DEF AHolder
  <2>2. CASE t = "slot"
    BY <1>8, <2>1, <2>2 DEF Holds
  <2>3. CASE t = "queue" /\ c = e /\ b = 1
    <3>1. i = m.zone
      BY <1>7, <2>1, <2>3 DEF Holds, InQueue
    <3>2. InSlot(k, a, i)'
      BY <1>3, <1>4, <3>1 DEF InSlot
    <3>3. QED
      BY <1>1, <3>2 DEF Holds, Kinds
  <2>4. CASE t = "queue" /\ c = e /\ b # 1
    <3>1. b - 1 \in Nat /\ b - 1 >= 1 /\ (b - 1) + 1 = b
      BY <2>1, <2>4 DEF Holds, InQueue
    <3>2. InQueue(e, b - 1, i)'
      BY <1>1, <1>9, <2>1, <2>4, <3>1 DEF Holds
    <3>3. QED
      BY <1>1, <2>4, <3>1, <3>2 DEF Holds
  <2>5. CASE t = "queue" /\ c # e
    BY <1>9, <2>1, <2>5 DEF Holds
  <2>6. CASE t \in {"preload", "final"}
    BY <1>10, <2>1, <2>6 DEF Holds
  <2>7. QED
    BY <2>1, <2>2, <2>3, <2>4, <2>5, <2>6 DEF Kinds
<1>15. QED
  BY <1>13, <1>14

\* What Leaves(k, j) does to the slots and the preload.
LEMMA LeavesHolders ==
  ASSUME TypeOK, NEW k \in Nodes, NEW j, Leaves(k, j)
  PROVE  /\ \A c \in Nodes, b \in Nat, i \in Zones :
              InSlot(c, b, i)' <=> InSlot(c, b, i) /\ ~(c = k /\ b = j)
         /\ \A i \in Zones : InPreload(i)' <=> InPreload(i)
         /\ j \in Zones /\ j \in Nat /\ loc[k].slot[j].zone \in Zones
         /\ InSlot(k, j, loc[k].slot[j].zone)
         /\ \A i \in Zones : InSlot(k, j, i) => i = loc[k].slot[j].zone
<1>1. PICK q \in PassStates :
        /\ Moves(k, pc[k], q)
        /\ \A i \in Zones \ {j} : q.slot[i] = loc[k].slot[i]
        /\ ~q.slot[j].owned /\ q.arrived = loc[k].arrived
  BY DEF Leaves
<1>2. /\ loc'[k] = q /\ pass' = pass
      /\ \A l \in Nodes : l # k => loc'[l] = loc[l]
  BY <1>1, MovesFacts
<1>3. j \in Zones /\ j \in Nat /\ loc[k].slot[j].zone \in Zones /\ loc[k].slot[j].owned
  BY DEF Leaves, Zones
<1>4. ASSUME NEW c \in Nodes, NEW b \in Nat, NEW i \in Zones
      PROVE  InSlot(c, b, i)' <=> InSlot(c, b, i) /\ ~(c = k /\ b = j)
  <2>1. CASE c = k
    BY <1>1, <1>2, <2>1 DEF InSlot
  <2>2. CASE c # k
    BY <1>2, <2>2 DEF InSlot
  <2>3. QED
    BY <2>1, <2>2
<1>5. \A i \in Zones : InPreload(i)' <=> InPreload(i)
  <2>1. 0 \in Nodes
    BY ZonesFacts DEF Nodes
  <2>2. loc'[0].arrived = loc[0].arrived
    BY <1>1, <1>2, <2>1
  <2>3. QED
    BY <1>2, <2>2 DEF InPreload
<1>6. QED
  BY <1>3, <1>4, <1>5 DEF InSlot

LEMMA HoldersCollects ==
  ASSUME TypeOK, OneHolder, AHolder, HaltOn => HaltOn', NEW k \in Nodes, NEW j,
         Leaves(k, j), chan' = chan, NEW h \in Nat \ {0},
         final' = [final EXCEPT ![loc[k].slot[j].zone]
                     = CompleteBody(loc[k].slot[j].zone, h)]
  PROVE  OneHolder' /\ AHolder'
<1>0. PICK z \in Zones : z = loc[k].slot[j].zone
  BY DEF Leaves
<1>1. /\ \A c \in Nodes, b \in Nat, i \in Zones :
           InSlot(c, b, i)' <=> InSlot(c, b, i) /\ ~(c = k /\ b = j)
      /\ \A i \in Zones : InPreload(i)' <=> InPreload(i)
      /\ j \in Zones /\ j \in Nat /\ z \in Zones
      /\ InSlot(k, j, z) /\ \A i \in Zones : InSlot(k, j, i) => i = z
  BY <1>0, LeavesHolders
<1>2. 0 \in Nodes
  BY ZonesFacts DEF Nodes
<1>3. CompleteBody(z, h) # NoBody
  <2>1. CompleteBody(z, h).x = h /\ NoBody.x = 0
    BY DEF CompleteBody, NoBody
  <2>2. QED
    BY <2>1
<1>4. \A i \in Zones : Collected(i)' <=> Collected(i) \/ i = z
  <2>1. final' = [final EXCEPT ![z] = CompleteBody(z, h)]
    BY <1>0
  <2>2. QED
    BY <1>1, <1>3, <2>1 DEF Collected, TypeOK
<1>5. \A c \in Nodes, b \in Nat, i \in Zones : InQueue(c, b, i)' <=> InQueue(c, b, i)
  BY DEF InQueue
<1>6. /\ Holds("slot", k, j, z) /\ Holds("final", 0, 0, z)'
      /\ "slot" \in Kinds /\ "final" \in Kinds /\ 0 \in Nat
  BY <1>1, <1>4 DEF Holds, Kinds
<1>7. ~Collected(z)
  BY <1>1, <1>2, <1>6 DEF OneHolder, Holds
<1>8. ASSUME NEW i \in Zones, NEW t \in Kinds, NEW a \in Nodes, NEW b \in Nat
      PROVE  /\ Holds(t, a, b, i)' =>
                  \/ i = z /\ t = "final" /\ a = 0 /\ b = 0
                  \/ Holds(t, a, b, i) /\ ~(i = z /\ t = "slot" /\ a = k /\ b = j)
             /\ Holds(t, a, b, i) /\ i # z => Holds(t, a, b, i)'
  <2>1. CASE t = "slot"
    BY <1>1, <2>1 DEF Holds
  <2>2. CASE t = "queue"
    BY <1>5, <2>2 DEF Holds
  <2>3. CASE t = "preload"
    BY <1>1, <2>3 DEF Holds
  <2>4. CASE t = "final"
    BY <1>4, <2>4 DEF Holds
  <2>5. QED
    BY <2>1, <2>2, <2>3, <2>4 DEF Kinds
<1>9. \A i \in Zones, t \in Kinds, a \in Nodes, b \in Nat :
        /\ Holds(t, a, b, i)' =>
             \/ i = z /\ t = "final" /\ a = 0 /\ b = 0
             \/ Holds(t, a, b, i) /\ ~(i = z /\ t = "slot" /\ a = k /\ b = j)
        /\ Holds(t, a, b, i) /\ i # z => Holds(t, a, b, i)'
  BY <1>8
<1>10. Transfers(z, "slot", k, j, "final", 0, 0)
  BY <1>1, <1>2, <1>6, <1>9 DEF Transfers
<1>11. QED
  BY <1>10, HoldersTransfer

LEMMA HoldersEmits ==
  ASSUME TypeOK, HaltInv, OneHolder, AHolder, HaltOn => HaltOn', NEW k \in Nodes, NEW j,
         Leaves(k, j), final' = final, NEW m \in Messages,
         m.zone = loc[k].slot[j].zone,
         chan' = IF EdgeDown(k) THEN chan ELSE [chan EXCEPT ![k] = Append(@, m)]
  PROVE  OneHolder' /\ AHolder'
<1>0. PICK z \in Zones : z = loc[k].slot[j].zone
  BY DEF Leaves
<1>1. /\ \A c \in Nodes, b \in Nat, i \in Zones :
           InSlot(c, b, i)' <=> InSlot(c, b, i) /\ ~(c = k /\ b = j)
      /\ \A i \in Zones : InPreload(i)' <=> InPreload(i)
      /\ j \in Zones /\ j \in Nat /\ z \in Zones
      /\ InSlot(k, j, z) /\ \A i \in Zones : InSlot(k, j, i) => i = z
  BY <1>0, LeavesHolders
<1>2. \A i \in Zones : Collected(i)' <=> Collected(i)
  BY DEF Collected
<1>3. m.zone = z
  BY <1>0
<1>4. CASE EdgeDown(k)
  <2>1. HaltOn'
    BY <1>4 DEF HaltInv, EdgeDown, Nodes
  <2>2. \A c \in Nodes, b \in Nat, i \in Zones : InQueue(c, b, i)' <=> InQueue(c, b, i)
    BY <1>4 DEF InQueue
  <2>3. ASSUME NEW i \in Zones, NEW t \in Kinds, NEW a \in Nodes, NEW b \in Nat,
               Holds(t, a, b, i)'
        PROVE  Holds(t, a, b, i)
    BY <1>1, <1>2, <2>2, <2>3 DEF Holds
  <2>4. QED
    BY <2>1, <2>3 DEF OneHolder, AHolder
<1>5. CASE ~EdgeDown(k)
  <2>0. PICK n : n = Len(chan[k]) + 1
    OBVIOUS
  <2>1. /\ chan[k] \in Seq(Messages) /\ Len(chan[k]) \in Nat /\ n \in Nat /\ n = Len(chan[k]) + 1
    <3>1. chan[k] \in Seq(Messages)
      BY DEF TypeOK
    <3>2. Len(chan[k]) \in Nat
      BY <3>1, LenProperties
    <3>3. QED
      BY <2>0, <3>1, <3>2
  <2>2. chan'[k] = Append(chan[k], m) /\ \A d \in Nodes : d # k => chan'[d] = chan[d]
    BY <1>5 DEF TypeOK
  <2>3. /\ Len(chan'[k]) = n /\ chan'[k][n] = m
        /\ \A i \in 1 .. Len(chan[k]) : chan'[k][i] = chan[k][i]
    BY <2>1, <2>2, AppendProperties
  <2>4. ASSUME NEW c \in Nodes, NEW b \in Nat, NEW i \in Zones
        PROVE  InQueue(c, b, i)' <=> InQueue(c, b, i) \/ (c = k /\ b = n /\ i = z)
    <3>1. CASE c = k /\ b = n
      <4>1. b \in 1 .. Len(chan'[k]) /\ b \notin 1 .. Len(chan[k])
        BY <2>1, <2>3, <3>1
      <4>2. QED
        BY <1>3, <2>3, <3>1, <4>1 DEF InQueue
    <3>2. CASE c = k /\ b # n
      <4>1. b \in 1 .. Len(chan'[k]) <=> b \in 1 .. Len(chan[k])
        BY <2>1, <2>3, <3>2
      <4>2. QED
        BY <2>3, <3>2, <4>1 DEF InQueue
    <3>3. CASE c # k
      BY <2>2, <3>3 DEF InQueue
    <3>4. QED
      BY <3>1, <3>2, <3>3
  <2>5. /\ Holds("slot", k, j, z) /\ Holds("queue", k, n, z)'
        /\ "slot" \in Kinds /\ "queue" \in Kinds
    <3>1. InQueue(k, n, z)'
      BY <1>1, <2>1, <2>4
    <3>2. QED
      BY <1>1, <3>1 DEF Holds, Kinds
  <2>6. ASSUME NEW i \in Zones, NEW t \in Kinds, NEW a \in Nodes, NEW b \in Nat
        PROVE  /\ Holds(t, a, b, i)' =>
                    \/ i = z /\ t = "queue" /\ a = k /\ b = n
                    \/ Holds(t, a, b, i) /\ ~(i = z /\ t = "slot" /\ a = k /\ b = j)
               /\ Holds(t, a, b, i) /\ i # z => Holds(t, a, b, i)'
    <3>1. CASE t = "slot"
      BY <1>1, <3>1 DEF Holds
    <3>2. CASE t = "queue"
      BY <2>4, <3>2 DEF Holds
    <3>3. CASE t = "preload"
      BY <1>1, <3>3 DEF Holds
    <3>4. CASE t = "final"
      BY <1>2, <3>4 DEF Holds
    <3>5. QED
      BY <3>1, <3>2, <3>3, <3>4 DEF Kinds
  <2>7. \A i \in Zones, t \in Kinds, a \in Nodes, b \in Nat :
          /\ Holds(t, a, b, i)' =>
               \/ i = z /\ t = "queue" /\ a = k /\ b = n
               \/ Holds(t, a, b, i) /\ ~(i = z /\ t = "slot" /\ a = k /\ b = j)
          /\ Holds(t, a, b, i) /\ i # z => Holds(t, a, b, i)'
    BY <2>6
  <2>8. Transfers(z, "slot", k, j, "queue", k, n)
    BY <1>1, <2>1, <2>5, <2>7 DEF Transfers
  <2>9. QED
    BY <2>8, HoldersTransfer
<1>6. QED
  BY <1>4, <1>5
-----------------------------------------------------------------------------
(* Every step of the conveyor, as what it does to the zones.                 *)

\* Threads come and go: a thread starts, stops or closes an edge, and nothing
\* moves.
Still ==
  /\ UNCHANGED <<pass, loc, chan, stats, final, level>>
  /\ \A l \in Nodes : \/ pc'[l] = pc[l]
                      \/ pc'[l] \in {"closing", "done"}
                      \/ pc[l] = "unborn" /\ pc'[l] = "loop"
TakesPreload(k) ==
  /\ pass[k] = 1 /\ chan' = chan
  /\ \E a \in Zones : Takes(k, MakePreload(a), a)
TakesQueued(k) ==
  LET e == InEdge(k)
  IN  /\ pass[k] # 1 /\ chan[e] # <<>> /\ Head(chan[e]).step = pass[k] - 1
      /\ chan' = [chan EXCEPT ![e] = Tail(@)]
      /\ \E a \in Zones : Takes(k, Head(chan[e]), a)
LeavesToQueue(k) ==
  /\ pass[k] # Steps /\ final' = final
  /\ \E j \in Zones, m \in Messages :
       /\ Leaves(k, j) /\ m.zone = loc[k].slot[j].zone /\ m.step = pass[k]
       /\ chan' = IF EdgeDown(k) THEN chan ELSE [chan EXCEPT ![k] = Append(@, m)]
LeavesToResult(k) ==
  /\ pass[k] = Steps /\ chan' = chan
  /\ \E j \in Zones :
       /\ Leaves(k, j)
       /\ final' = [final EXCEPT ![loc[k].slot[j].zone]
                      = CompleteBody(loc[k].slot[j].zone, Steps)]
ZoneStep(k) ==
  \/ Tidies(k) \/ Begins(k) \/ \E z \in Zones : Completes(k, z)
  \/ TakesPreload(k) \/ TakesQueued(k) \/ LeavesToQueue(k) \/ LeavesToResult(k)

LEMMA WorksKind ==
  ASSUME ConveyorInv, NEW k \in Nodes, Works(k)
  PROVE  ZoneStep(k)
<1>1. TypeOK /\ PassInv /\ DataInv
  BY DEF ConveyorInv, ControlInv, RecordInv
<1>2. CASE Starts(k)
  BY <1>2, StartsKind DEF ZoneStep
<1>3. CASE Shifts(k) \/ Computes(k)
  BY <1>3, TidyKinds DEF ZoneStep
<1>4. CASE Ends(k)
  BY <1>4, EndsKind DEF ZoneStep
<1>5. CASE Loads(k)
  <2>1. PICK a \in Zones : a = loc[k].arrived
    BY <1>5 DEF Loads, Awaits
  <2>2. MakePreload(a) \in Messages /\ InOrder(k, MakePreload(a))
    <3>1. MakePreload(a) \in Messages
      BY PreloadType
    <3>2. /\ MakePreload(a).zone = ZoneAt(1, a) /\ MakePreload(a).step = 0
          /\ MakePreload(a).pos = a
      BY PreloadShape
    <3>3. pass[k] = 1
      BY <1>5 DEF Loads
    <3>4. QED
      BY <2>1, <3>1, <3>2, <3>3 DEF InOrder
  <2>3. Takes(k, MakePreload(a), loc[k].arrived)
    <3>1. /\ pc[k] \in {"io", "compute"} /\ loc[k].arrived \in Zones
          /\ Moves(k, pc[k], Accept(k, MakePreload(a))) /\ UNCHANGED <<final, level>>
      BY <1>5, <2>1 DEF Loads, Awaits
    <3>2. QED
      BY <2>2, <3>1, TakesKind
  <2>4. QED
    BY <1>5, <2>1, <2>3 DEF Loads, TakesPreload, ZoneStep
<1>6. CASE Receives(k)
  <2>1. PICK m : m = Head(chan[InEdge(k)])
    OBVIOUS
  <2>2. /\ pc[k] \in {"io", "compute"} /\ loc[k].arrived \in Zones /\ pass[k] # 1
        /\ ~EdgeDown(InEdge(k)) /\ chan[InEdge(k)] # <<>>
        /\ InOrder(k, m) /\ Moves(k, pc[k], Accept(k, m))
        /\ UNCHANGED <<final, level>>
        /\ chan' = [chan EXCEPT ![InEdge(k)] = Tail(@)]
    BY <1>6, <2>1 DEF Receives, Awaits
  <2>3. m \in Messages
    <3>1. chan[InEdge(k)] \in Seq(Messages)
      BY <1>1, EdgesAreNodes DEF TypeOK
    <3>2. QED
      BY <2>1, <2>2, <3>1, HeadTailProperties
  <2>4. Takes(k, m, loc[k].arrived)
    BY <2>2, <2>3, TakesKind
  <2>5. m.step = pass[k] - 1
    BY <2>2 DEF InOrder
  <2>6. QED
    BY <2>1, <2>2, <2>4, <2>5 DEF TakesQueued, ZoneStep
<1>7. CASE Emits(k)
  <2>1. PICK j : j = Head(loc[k].outq)
    OBVIOUS
  <2>2. Leaves(k, j) /\ pass[k] # Steps
    BY <1>7, <2>1, LeavesKind DEF Emits
  <2>3. PICK m : m = OutMessage(k)
    OBVIOUS
  <2>4. m.zone = loc[k].slot[j].zone /\ m.step = pass[k] /\ m \in Messages
    BY <1>7, <2>1, <2>2, <2>3, LeavesKind
  <2>5. final' = final /\ j \in Zones
        /\ chan' = IF EdgeDown(k) THEN chan ELSE [chan EXCEPT ![k] = Append(@, m)]
    BY <1>7, <2>2, <2>3 DEF Emits, Leaves
  <2>6. LeavesToQueue(k)
    BY <2>2, <2>4, <2>5 DEF LeavesToQueue
  <2>7. QED
    BY <2>6 DEF ZoneStep
<1>8. CASE Collects(k)
  <2>1. PICK j : j = Head(loc[k].outq)
    OBVIOUS
  <2>2. Leaves(k, j) /\ pass[k] = Steps
    BY <1>8, <2>1, LeavesKind DEF Collects
  <2>3. loc[k].slot[j].body = CompleteBody(loc[k].slot[j].zone, Steps)
    BY <1>8, <2>1, <2>2, LeavesKind
  <2>4. chan' = chan /\ j \in Zones
        /\ final' = [final EXCEPT ![loc[k].slot[j].zone] = loc[k].slot[j].body]
    BY <1>8, <2>1, <2>2 DEF Collects, Leaves
  <2>5. LeavesToResult(k)
    BY <2>2, <2>3, <2>4 DEF LeavesToResult
  <2>6. QED
    BY <2>5 DEF ZoneStep
<1>9. QED
  BY <1>2, <1>3, <1>4, <1>5, <1>6, <1>7, <1>8 DEF Works

LEMMA ZoneKinds ==
  ASSUME ConveyorInv, Next
  PROVE  Still \/ \E k \in Nodes : RecordPass(k) \/ ZoneStep(k)
<1>1. TypeOK /\ ControlInv /\ RecordInv /\ DataInv
  BY DEF ConveyorInv, ControlInv
<1>2. CASE MainStep
  <2>1. /\ UNCHANGED <<pass, loc, chan, stats, final, level>>
        /\ pc' = pc \/ \E l \in Nodes : Spawns(l)
    BY <1>1, <1>2, MainKinds
  <2>2. ASSUME NEW l \in Nodes, Spawns(l)
        PROVE  \A k \in Nodes : pc'[k] = pc[k] \/ (pc[k] = "unborn" /\ pc'[k] = "loop")
    BY <1>1, <2>2 DEF Spawns, Goto, TypeOK
  <2>3. QED
    BY <2>1, <2>2 DEF Still
<1>3. CASE UNCHANGED vars
  BY <1>3 DEF vars, Still
<1>4. ASSUME NEW k \in Nodes, Stops(k)
      PROVE  Still
  <2>1. PICK x \in {"closing", "done"} : Moves(k, x, loc[k])
    BY <1>4 DEF Stops
  <2>2. /\ pc'[k] = x /\ loc'[k] = loc[k] /\ pass' = pass /\ stats' = stats
        /\ \A l \in Nodes : l # k => pc'[l] = pc[l]
    BY <1>1, <2>1, MovesFacts
  <2>3. loc' = loc
    BY <1>1, <2>1 DEF Moves, TypeOK
  <2>4. QED
    BY <1>4, <2>2, <2>3 DEF Stops, Still
<1>5. QED
  BY <1>1, <1>2, <1>3, <1>4, StepKinds, WorksKind

LEMMA HoldersStep ==
  ASSUME ConveyorInv, OneHolder, AHolder, IdleInv, [Next]_vars
  PROVE  OneHolder' /\ AHolder'
<1>1. TypeOK /\ ControlInv /\ RecordInv /\ DataInv /\ HaltInv /\ PassInv
  BY DEF ConveyorInv, ControlInv, RecordInv
<1>2. HaltOn => HaltOn'
  <2>1. CASE Next
    BY <1>1, <2>1, HaltStepWins DEF haltVars, HaltOn
  <2>2. CASE UNCHANGED vars
    BY <2>2 DEF vars, haltVars, HaltOn
  <2>3. QED
    BY <2>1, <2>2
<1>3. ASSUME UNCHANGED <<pass, loc, chan, final>>
      PROVE  OneHolder' /\ AHolder'
  BY <1>2, <1>3, HoldersQuiet DEF InSlot, InPreload
<1>4. CASE Still \/ UNCHANGED vars
  BY <1>3, <1>4 DEF Still, vars
<1>5. ASSUME NEW k \in Nodes, RecordPass(k)
      PROVE  OneHolder' /\ AHolder'
  <2>1. UNCHANGED <<loc, chan, final>> /\ pass' = [pass EXCEPT ![k] = @ + Z] /\ pc[k] = "record"
    BY <1>5 DEF RecordPass
  <2>2. loc[k].arrived = N
    BY <1>1, <2>1, FinishedPass
  <2>3. pass[k] \in Nat \ {0}
    BY <1>1, PassRange
  <2>4. ASSUME NEW i \in Zones
        PROVE  InPreload(i)' <=> InPreload(i)
    <3>1. CASE k = 0
      <4>1. ~InPreload(i)
        <5>1. i \in Nat /\ i < N /\ N \in Nat
          BY ZonesFacts DEF Zones
        <5>2. QED
          BY <2>2, <3>1, <5>1 DEF InPreload
      <4>2. pass'[0] # 1
        BY <1>1, <2>1, <2>3, <3>1, ZonesFacts DEF TypeOK
      <4>3. QED
        BY <4>1, <4>2 DEF InPreload
    <3>2. CASE k # 0
      BY <1>1, <2>1, <3>2 DEF InPreload
    <3>3. QED
      BY <3>1, <3>2
  <2>5. QED
    BY <1>2, <2>1, <2>4, HoldersQuiet DEF InSlot
<1>6. ASSUME NEW k \in Nodes, ZoneStep(k)
      PROVE  OneHolder' /\ AHolder'
  <2>1. CASE Tidies(k) \/ Begins(k) \/ \E z \in Zones : Completes(k, z)
    BY <1>2, <2>1, HoldersTidy
  <2>2. CASE TakesPreload(k)
    BY <1>2, <2>2, HoldersLoads DEF TakesPreload
  <2>3. CASE TakesQueued(k)
    BY <1>2, <2>3, HoldersReceives DEF TakesQueued
  <2>4. CASE LeavesToQueue(k)
    <3>1. PICK j \in Zones, m \in Messages :
            /\ Leaves(k, j) /\ m.zone = loc[k].slot[j].zone
            /\ chan' = IF EdgeDown(k) THEN chan ELSE [chan EXCEPT ![k] = Append(@, m)]
      BY <2>4 DEF LeavesToQueue
    <3>2. final' = final
      BY <2>4 DEF LeavesToQueue
    <3>3. QED
      BY <1>1, <1>2, <3>1, <3>2, HoldersEmits
  <2>5. CASE LeavesToResult(k)
    <3>1. PICK j \in Zones :
            /\ Leaves(k, j) /\ chan' = chan
            /\ final' = [final EXCEPT ![loc[k].slot[j].zone]
                           = CompleteBody(loc[k].slot[j].zone, Steps)]
      BY <2>5 DEF LeavesToResult
    <3>2. QED
      BY <1>1, <1>2, <3>1, ZonesFacts, HoldersCollects
  <2>6. QED
    BY <1>6, <2>1, <2>2, <2>3, <2>4, <2>5 DEF ZoneStep
<1>7. QED
  BY <1>4, <1>5, <1>6, ZoneKinds

LEMMA HoldersInit == Init => OneHolder /\ AHolder
<1> SUFFICES ASSUME Init PROVE OneHolder /\ AHolder
  OBVIOUS
<1>1. 0 \in Nodes /\ pass[0] = 1 /\ loc[0].arrived = 0
  BY ZonesFacts DEF Init, Nodes, FreshPass
<1>2. \A c \in Nodes : \A b, i : ~InSlot(c, b, i)
  BY DEF Init, InSlot, FreshPass, EmptySlot
<1>3. \A c \in Nodes : \A b, i : ~InQueue(c, b, i)
  BY DEF Init, InQueue
<1>4. \A i \in Zones : InPreload(i) /\ ~Collected(i)
  BY <1>1 DEF InPreload, Collected, Init, Zones
<1>5. ASSUME NEW i \in Zones, NEW t \in Kinds, NEW a \in Nodes, NEW b \in Nat
      PROVE  Holds(t, a, b, i) <=> t = "preload" /\ a = 0 /\ b = 0
  BY <1>2, <1>3, <1>4 DEF Holds, Kinds
<1>6. OneHolder
  BY <1>5 DEF OneHolder
<1>7. AHolder
  BY <1>1, <1>5 DEF AHolder, Kinds
<1>8. QED
  BY <1>6, <1>7

\* A node that works on a zone is, and stays, in a pass.
LEMMA ZoneStepMoves ==
  ASSUME TypeOK, NEW k \in Nodes, ZoneStep(k)
  PROVE  /\ pc[k] \in Working \/ Idle(k)
         /\ pc'[k] \in Working /\ pass' = pass /\ stats' = stats
         /\ \A l \in Nodes : l # k => pc'[l] = pc[l] /\ loc'[l] = loc[l]
<1>1. /\ pc[k] \in Working \/ Idle(k)
      /\ \E x \in Working, q \in PassStates : Moves(k, x, q)
  <2>1. CASE Tidies(k) \/ Begins(k) \/ \E z \in Zones : Completes(k, z)
    BY <2>1 DEF Tidies, Begins, Completes
  <2>2. ASSUME NEW m, NEW a, Takes(k, m, a)
        PROVE  pc[k] \in Working /\ \E q \in PassStates : Moves(k, pc[k], q)
    BY <2>2 DEF Takes
  <2>3. ASSUME NEW j, Leaves(k, j)
        PROVE  pc[k] \in Working /\ \E q \in PassStates : Moves(k, pc[k], q)
    BY <2>3 DEF Leaves
  <2>4. QED
    BY <2>1, <2>2, <2>3 DEF ZoneStep, TakesPreload, TakesQueued, LeavesToQueue, LeavesToResult
<1>2. QED
  BY <1>1, MovesFacts

LEMMA NothingOwned ==
  ASSUME ConveyorInv, NEW k \in Nodes, pc[k] = "record"
  PROVE  \A j \in Zones : ~loc[k].slot[j].owned
<1>1. /\ loc[k].arrived = N /\ pass[k] \in Passes
      /\ PassShape(loc[k], pass[k], N, N, N)
  BY FinishedPass DEF ConveyorInv, ControlInv, RecordInv
<1>2. loc[k] \in PassStates
  BY DEF ConveyorInv, ControlInv, TypeOK
<1> SUFFICES ASSUME NEW j \in Zones PROVE ~loc[k].slot[j].owned
  OBVIOUS
<1>3. j < N /\ Rank(j) < N
  BY OrderFacts, ZonesFacts DEF Zones
<1>4. loc[k].slot[j].owned <=> N <= Rank(j)
  BY <1>1, <1>2, <1>3, EndedZones
<1>5. Rank(j) \in Nat /\ N \in Nat
  BY OrderFacts, ZonesFacts DEF Zones
<1>6. QED
  BY <1>3, <1>4, <1>5

LEMMA IdleStep ==
  ASSUME ConveyorInv, IdleInv, [Next]_vars
  PROVE  IdleInv'
<1>1. TypeOK /\ PassInv
  BY DEF ConveyorInv, ControlInv, RecordInv
<1>2. CASE Still \/ UNCHANGED vars
  <2>1. loc' = loc /\ pass' = pass /\ \A l \in Nodes : Idle(l)' => Idle(l)
    BY <1>2 DEF Still, vars, Idle
  <2>2. QED
    BY <2>1 DEF IdleInv
<1>3. ASSUME NEW k \in Nodes, RecordPass(k)
      PROVE  IdleInv'
  <2>1. /\ loc' = loc /\ pass' = [pass EXCEPT ![k] = @ + Z] /\ pc[k] = "record"
        /\ pc' = [pc EXCEPT ![k] = "loop"]
    BY <1>3 DEF RecordPass, Goto
  <2>2. pass'[k] # 1
    BY <1>1, <2>1, PassRange, ZonesFacts DEF TypeOK
  <2>3. \A j \in Zones : ~loc[k].slot[j].owned
    BY <2>1, NothingOwned
  <2>4. \A l \in Nodes : l # k => (Idle(l)' <=> Idle(l)) /\ pass'[l] = pass[l]
    BY <1>1, <2>1 DEF Idle, TypeOK
  <2>5. QED
    BY <2>1, <2>2, <2>3, <2>4 DEF IdleInv
<1>4. ASSUME NEW k \in Nodes, ZoneStep(k)
      PROVE  IdleInv'
  <2>1. /\ pc'[k] \in Working /\ pass' = pass
        /\ \A l \in Nodes : l # k => pc'[l] = pc[l] /\ loc'[l] = loc[l]
    BY <1>1, <1>4, ZoneStepMoves
  <2>2. ~Idle(k)'
    BY <2>1 DEF Idle, Working
  <2>3. QED
    BY <2>1, <2>2 DEF IdleInv, Idle
<1>5. QED
  BY <1>2, <1>3, <1>4, ZoneKinds

LEMMA IdleInit == Init => IdleInv
BY DEF Init, IdleInv, FreshPass, EmptySlot

\* Where the zones are: the inductive part.
PlacesInv == ConveyorInv /\ OneHolder /\ AHolder /\ IdleInv

LEMMA PlacesAlways == Spec => []PlacesInv
<1>1. Init => OneHolder /\ AHolder /\ IdleInv
  BY HoldersInit, IdleInit
<1>2. ConveyorInv /\ (OneHolder /\ AHolder /\ IdleInv) /\ [Next]_vars
        => (OneHolder /\ AHolder /\ IdleInv)'
  BY HoldersStep, IdleStep
<1>3. QED
  BY <1>1, <1>2, ConveyorAlways, PTL DEF Spec, PlacesInv

\* An edge holds each zone at most once.
LEMMA QueueBound ==
  ASSUME TypeOK, OneHolder, NEW e \in Nodes
  PROVE  Len(chan[e]) \in Nat /\ Len(chan[e]) <= N
<1> DEFINE L == Len(chan[e])
           f == [q \in 1 .. L |-> chan[e][q].zone]
<1>1. chan[e] \in Seq(Messages) /\ L \in Nat
  <2>1. chan[e] \in Seq(Messages)
    BY DEF TypeOK
  <2>2. QED
    BY <2>1, LenProperties
<1>2. \A q \in 1 .. L : chan[e][q] \in Messages
  BY <1>1, ElementOfSeq
<1>3. \A q \in 1 .. L : f[q] \in Zones
  BY <1>2 DEF Messages
<1>4. ASSUME NEW p \in 1 .. L, NEW q \in 1 .. L, f[p] = f[q]
      PROVE  p = q
  <2>1. PICK i \in Zones : i = f[p] /\ i = f[q]
    BY <1>3, <1>4
  <2>2. Holds("queue", e, p, i) /\ Holds("queue", e, q, i)
    BY <2>1 DEF Holds, InQueue
  <2>3. "queue" \in Kinds /\ p \in Nat /\ q \in Nat
    BY DEF Kinds
  <2>4. QED
    BY <2>2, <2>3 DEF OneHolder
<1>5. f \in Injection(1 .. L, Zones)
  <2>1. f \in [1 .. L -> Zones]
    BY <1>3
  <2>2. IsInjective(f)
    BY <1>4 DEF IsInjective
  <2>3. QED
    BY <2>1, <2>2 DEF Injection
<1> HIDE DEF f, L
<1>6. IsFiniteSet(Zones) /\ Cardinality(Zones) = N
  <2>1. 0 \in Int /\ N - 1 \in Int /\ Zones = 0 .. N - 1 /\ N \in Nat \ {0}
    BY ZonesFacts DEF Zones
  <2>2. IsFiniteSet(0 .. N - 1) /\ Cardinality(0 .. N - 1)
          = IF 0 > N - 1 THEN 0 ELSE (N - 1) - 0 + 1
    BY <2>1, FS_Interval
  <2>3. QED
    BY <2>1, <2>2
<1>7. Cardinality(1 .. L) = L
  <2>1. 1 \in Int /\ L \in Int
    BY <1>1
  <2>2. Cardinality(1 .. L) = IF 1 > L THEN 0 ELSE L - 1 + 1
    BY <2>1, FS_Interval
  <2>3. QED
    BY <1>1, <2>2
<1>8. Cardinality(1 .. L) <= Cardinality(Zones)
  BY <1>5, <1>6, FS_Injection
<1>9. QED
  BY <1>1, <1>6, <1>7, <1>8 DEF L

\* While no halt is raised, the places that hold zone i are one.
LEMMA OnePlace ==
  ASSUME TypeOK, OneHolder, AHolder, ~HaltOn, NEW i \in Zones
  PROVE  Cardinality(QueuePlaces(i)) + Cardinality(SlotPlaces(i))
           + (IF InPreload(i) THEN 1 ELSE 0) + (IF Collected(i) THEN 1 ELSE 0) = 1
<1>1. PICK t \in Kinds, a \in Nodes, b \in Nat : Holds(t, a, b, i)
  BY DEF AHolder
<1>2. 0 \in Nodes /\ 0 \in Nat
  BY ZonesFacts DEF Nodes
<1>3. ASSUME NEW w \in QueuePlaces(i)
      PROVE  t = "queue" /\ w = <<a, b>>
  <2>1. w \in Nodes \X (1 .. N + 2) /\ w[2] <= Len(chan[w[1]]) /\ chan[w[1]][w[2]].zone = i
    BY DEF QueuePlaces
  <2>2. w[1] \in Nodes /\ w[2] \in Nat /\ w[2] >= 1 /\ w = <<w[1], w[2]>>
    BY <2>1
  <2>3. Len(chan[w[1]]) \in Nat
    BY <2>2, QueueBound
  <2>4. Holds("queue", w[1], w[2], i) /\ "queue" \in Kinds
    BY <2>1, <2>2, <2>3 DEF Holds, InQueue, Kinds
  <2>5. t = "queue" /\ w[1] = a /\ w[2] = b
    BY <1>1, <2>2, <2>4 DEF OneHolder
  <2>6. QED
    BY <2>2, <2>5
<1>4. ASSUME NEW w \in SlotPlaces(i)
      PROVE  t = "slot" /\ w = <<a, b>>
  <2>1. w \in Nodes \X Zones /\ loc[w[1]].slot[w[2]].owned /\ loc[w[1]].slot[w[2]].zone = i
    BY DEF SlotPlaces
  <2>2. w[1] \in Nodes /\ w[2] \in Zones /\ w[2] \in Nat /\ w = <<w[1], w[2]>>
    BY <2>1 DEF Zones
  <2>3. Holds("slot", w[1], w[2], i) /\ "slot" \in Kinds
    BY <2>1, <2>2 DEF Holds, InSlot, Kinds
  <2>4. t = "slot" /\ w[1] = a /\ w[2] = b
    BY <1>1, <2>2, <2>3 DEF OneHolder
  <2>5. QED
    BY <2>2, <2>4
<1>5. (InPreload(i) => t = "preload") /\ (Collected(i) => t = "final")
  <2>1. InPreload(i) => Holds("preload", 0, 0, i)
    BY DEF Holds
  <2>2. Collected(i) => Holds("final", 0, 0, i)
    BY DEF Holds
  <2>3. "preload" \in Kinds /\ "final" \in Kinds
    BY DEF Kinds
  <2>4. QED
    BY <1>1, <1>2, <2>1, <2>2, <2>3 DEF OneHolder
<1>6. /\ t = "preload" => InPreload(i)
      /\ t = "final" => Collected(i)
      /\ t = "slot" => <<a, b>> \in SlotPlaces(i)
  BY <1>1 DEF Holds, InSlot, SlotPlaces
<1>7. t = "queue" => <<a, b>> \in QueuePlaces(i)
  <2>1. SUFFICES ASSUME t = "queue" PROVE <<a, b>> \in QueuePlaces(i)
    OBVIOUS
  <2>2. b \in 1 .. Len(chan[a]) /\ chan[a][b].zone = i
    BY <1>1, <2>1 DEF Holds, InQueue
  <2>3. Len(chan[a]) \in Nat /\ Len(chan[a]) <= N /\ N \in Nat
    BY QueueBound, ZonesFacts
  <2>4. b \in 1 .. N + 2 /\ b <= Len(chan[a])
    BY <2>2, <2>3
  <2>5. QED
    BY <2>2, <2>4 DEF QueuePlaces
<1>8. /\ t = "queue" => QueuePlaces(i) = {<<a, b>>}
      /\ t # "queue" => QueuePlaces(i) = {}
      /\ t = "slot" => SlotPlaces(i) = {<<a, b>>}
      /\ t # "slot" => SlotPlaces(i) = {}
  BY <1>3, <1>4, <1>6, <1>7
<1>9. /\ Cardinality(QueuePlaces(i)) = IF t = "queue" THEN 1 ELSE 0
      /\ Cardinality(SlotPlaces(i)) = IF t = "slot" THEN 1 ELSE 0
  BY <1>8, FS_EmptySet, FS_Singleton
<1>10. t \in {"slot", "queue", "preload", "final"}
  BY DEF Kinds
<1>11. QED
  BY <1>5, <1>6, <1>9, <1>10
-----------------------------------------------------------------------------
(* The level of a zone is that of its place.                                 *)

LEMMA LevelsMove ==
  ASSUME TypeOK, SlotLevels, NEW k \in Nodes, NEW x, NEW q, Moves(k, x, q), level' = level,
         \A j \in Zones : j < q.arrived => SlotLevel(q, pass[k], j)
  PROVE  SlotLevels'
<1>1. /\ pc'[k] = x /\ loc'[k] = q /\ pass' = pass
      /\ \A l \in Nodes : l # k => pc'[l] = pc[l] /\ loc'[l] = loc[l]
  BY MovesFacts
<1> SUFFICES ASSUME NEW l \in Nodes, pc'[l] \in Working, NEW j \in Zones,
                    j < loc'[l].arrived
             PROVE  SlotLevel(loc[l], pass[l], j)'
  BY DEF SlotLevels
<1>2. CASE l = k
  BY <1>1, <1>2 DEF SlotLevel, SlotBase
<1>3. CASE l # k
  BY <1>1, <1>3 DEF SlotLevels, SlotLevel, SlotBase
<1>4. QED
  BY <1>2, <1>3

LEMMA QueueLevelsMove ==
  ASSUME QueueLevels, level' = level, NEW e \in Nodes,
         \A d \in Nodes : d # e => chan'[d] = chan[d],
         \A i \in 1 .. Len(chan'[e]) : level[chan'[e][i].zone] = chan'[e][i].step
  PROVE  QueueLevels'
<1> SUFFICES ASSUME NEW d \in Nodes, NEW i \in 1 .. Len(chan'[d])
             PROVE  level[chan'[d][i].zone] = chan'[d][i].step
  BY DEF QueueLevels
<1>1. CASE d = e
  BY <1>1
<1>2. CASE d # e
  BY <1>2 DEF QueueLevels
<1>3. QED
  BY <1>1, <1>2

LEMMA LevelQuiet ==
  ASSUME ConveyorInv, IdleInv, LevelInv, NEW k \in Nodes, Tidies(k) \/ Begins(k)
  PROVE  LevelInv'
<1>1. TypeOK /\ 0 \in Nodes /\ SlotLevels /\ QueueLevels /\ PreloadLevels /\ SpreadInv
  BY ZonesFacts DEF ConveyorInv, ControlInv, LevelInv, Nodes
<1>2. PICK x, q :
        /\ Moves(k, x, q) /\ UNCHANGED <<chan, level>>
        /\ \/ /\ pc[k] \in Working /\ \A j \in Zones : SameHold(loc[k], q, j)
              /\ q.arrived = loc[k].arrived /\ q.agg = loc[k].agg
           \/ Idle(k) /\ q.arrived = 0
  BY DEF Tidies, Begins
<1>3. /\ loc'[k] = q /\ pass' = pass /\ \A l \in Nodes : l # k => loc'[l] = loc[l]
  BY <1>1, <1>2, MovesFacts
<1>4. ASSUME NEW j \in Zones, j < q.arrived
      PROVE  SlotLevel(q, pass[k], j)
  <2>1. CASE Idle(k) /\ q.arrived = 0
    BY <1>4, <2>1 DEF Zones
  <2>2. CASE /\ pc[k] \in Working /\ \A i \in Zones : SameHold(loc[k], q, i)
             /\ q.arrived = loc[k].arrived /\ q.agg = loc[k].agg
    <3>1. SlotLevel(loc[k], pass[k], j)
      BY <1>1, <1>4, <2>2 DEF SlotLevels
    <3>2. QED
      BY <2>2, <3>1 DEF SlotLevel, SlotBase, SameHold
  <2>3. QED
    BY <1>2, <2>1, <2>2
<1>5. SlotLevels'
  BY <1>1, <1>2, <1>4, LevelsMove
<1>6. QueueLevels' /\ SpreadInv'
  BY <1>1, <1>2 DEF QueueLevels, SpreadInv
<1>7. PreloadLevels'
  <2>1. ASSUME NEW i \in Zones, InPreload(i)'
        PROVE  InPreload(i)
    <3>1. CASE k = 0 /\ Idle(k)
      BY <1>3, <2>1, <3>1 DEF InPreload, IdleInv, Zones
    <3>2. CASE k = 0 /\ ~Idle(k)
      BY <1>2, <1>3, <2>1, <3>2 DEF InPreload
    <3>3. CASE k # 0
      BY <1>1, <1>3, <2>1, <3>3 DEF InPreload
    <3>4. QED
      BY <3>1, <3>2, <3>3
  <2>2. QED
    BY <1>1, <1>2, <2>1 DEF PreloadLevels
<1>8. QED
  BY <1>5, <1>6, <1>7 DEF LevelInv

LEMMA LevelTakes ==
  ASSUME ConveyorInv, LevelInv, NEW k \in Nodes, TakesPreload(k) \/ TakesQueued(k)
  PROVE  LevelInv'
<1>1. /\ TypeOK /\ PassInv /\ 0 \in Nodes
      /\ SlotLevels /\ QueueLevels /\ PreloadLevels /\ SpreadInv
  BY ZonesFacts DEF ConveyorInv, ControlInv, RecordInv, LevelInv, Nodes
<1>2. PICK a \in Zones : \E m :
        /\ Takes(k, m, a)
        /\ \/ TakesPreload(k) /\ m = MakePreload(a)
           \/ TakesQueued(k) /\ m = Head(chan[InEdge(k)])
  BY DEF TakesPreload, TakesQueued
<1>2a. PICK m :
        /\ Takes(k, m, a)
        /\ \/ TakesPreload(k) /\ m = MakePreload(a)
           \/ TakesQueued(k) /\ m = Head(chan[InEdge(k)])
  BY <1>2
<1>3. /\ pc[k] \in Working /\ a = loc[k].arrived /\ m.zone \notin loc[k].agg.zones
      /\ level' = level
  BY <1>2a DEF Takes
<1>4. PICK q \in PassStates :
        /\ Moves(k, pc[k], q)
        /\ \A j \in Zones \ {a} : q.slot[j] = loc[k].slot[j]
        /\ q.slot[a].owned /\ q.slot[a].zone = m.zone
        /\ q.arrived = a + 1 /\ q.agg = loc[k].agg
  BY <1>2a DEF Takes
<1>5. /\ loc'[k] = q /\ pass' = pass /\ \A l \in Nodes : l # k => loc'[l] = loc[l]
  BY <1>1, <1>4, MovesFacts
<1>6. level[m.zone] = pass[k] - 1
  <2>1. CASE TakesPreload(k) /\ m = MakePreload(a)
    <3>1. k = 0 /\ pass[k] = 1
      BY <1>1, <2>1, OnlyFirstLoads DEF TakesPreload
    <3>2. m.zone = a /\ InPreload(a)
      BY <1>3, <2>1, <3>1 DEF MakePreload, InPreload, Zones
    <3>3. QED
      BY <1>1, <3>1, <3>2 DEF PreloadLevels
  <2>2. CASE TakesQueued(k) /\ m = Head(chan[InEdge(k)])
    <3>1. PICK e \in Nodes : e = InEdge(k)
      BY EdgesAreNodes
    <3>2. chan[e] \in Seq(Messages) /\ chan[e] # <<>> /\ m.step = pass[k] - 1
      BY <1>1, <2>2, <3>1 DEF TypeOK, TakesQueued
    <3>3. 1 \in 1 .. Len(chan[e]) /\ m = chan[e][1]
      <4>1. Len(chan[e]) \in Nat /\ Len(chan[e]) # 0
        BY <3>2, EmptySeq, LenProperties
      <4>2. QED
        BY <2>2, <3>1, <4>1
    <3>4. QED
      BY <1>1, <3>2, <3>3 DEF QueueLevels
  <2>3. QED
    BY <1>2a, <2>1, <2>2
<1>7. ASSUME NEW j \in Zones, j < q.arrived
      PROVE  SlotLevel(q, pass[k], j)
  <2>1. CASE j = a
    <3>1. pass[k] \in Nat
      BY <1>1 DEF TypeOK
    <3>2. QED
      BY <1>3, <1>4, <1>6, <2>1, <3>1 DEF SlotLevel, SlotBase
  <2>2. CASE j # a
    <3>1. j < loc[k].arrived
      BY <1>3, <1>4, <1>7, <2>2 DEF Zones
    <3>2. SlotLevel(loc[k], pass[k], j)
      BY <1>1, <1>3, <3>1 DEF SlotLevels
    <3>3. QED
      BY <1>4, <2>2, <3>2 DEF SlotLevel, SlotBase
  <2>3. QED
    BY <2>1, <2>2
<1>8. SlotLevels'
  BY <1>1, <1>3, <1>4, <1>7, LevelsMove
<1>9. QueueLevels'
  <2>1. CASE chan' = chan
    BY <1>1, <1>3, <2>1 DEF QueueLevels
  <2>2. CASE TakesQueued(k)
    <3>1. PICK e \in Nodes : e = InEdge(k)
      BY EdgesAreNodes
    <3>2. chan[e] \in Seq(Messages) /\ chan[e] # <<>>
      BY <1>1, <2>2, <3>1 DEF TypeOK, TakesQueued
    <3>3. chan'[e] = Tail(chan[e]) /\ \A d \in Nodes : d # e => chan'[d] = chan[d]
      BY <1>1, <2>2, <3>1 DEF TypeOK, TakesQueued
    <3>4. /\ Len(chan'[e]) = Len(chan[e]) - 1 /\ Len(chan[e]) \in Nat
          /\ \A i \in 1 .. Len(chan'[e]) : chan'[e][i] = chan[e][i + 1]
      BY <3>2, <3>3, HeadTailProperties, LenProperties
    <3>5. \A i \in 1 .. Len(chan'[e]) : level[chan'[e][i].zone] = chan'[e][i].step
      <4>1. \A i \in 1 .. Len(chan'[e]) : i + 1 \in 1 .. Len(chan[e])
        BY <3>4
      <4>2. QED
        BY <1>1, <3>4, <4>1 DEF QueueLevels
    <3>6. QED
      BY <1>1, <1>3, <3>3, <3>5, QueueLevelsMove
  <2>3. QED
    BY <2>1, <2>2 DEF TakesPreload
<1>10. PreloadLevels'
  <2>1. \A i \in Zones : InPreload(i)' => InPreload(i)
    <3>1. a \in Nat /\ (k = 0 => loc'[0].arrived = a + 1 /\ loc[0].arrived = a)
      BY <1>3, <1>4, <1>5 DEF Zones
    <3>2. k # 0 => loc'[0] = loc[0]
      BY <1>1, <1>5
    <3>3. \A i \in Zones : a + 1 <= i => a <= i
      BY <3>1 DEF Zones
    <3>4. QED
      BY <1>5, <3>1, <3>2, <3>3 DEF InPreload
  <2>2. QED
    BY <1>1, <1>3, <2>1 DEF PreloadLevels
<1>11. SpreadInv'
  BY <1>1, <1>3 DEF SpreadInv
<1>12. QED
  BY <1>8, <1>9, <1>10, <1>11 DEF LevelInv

LEMMA LevelLeaves ==
  ASSUME ConveyorInv, LevelInv, NEW k \in Nodes, LeavesToQueue(k) \/ LeavesToResult(k)
  PROVE  LevelInv'
<1>1. /\ TypeOK /\ SlotLevels /\ QueueLevels /\ PreloadLevels /\ SpreadInv
  BY DEF ConveyorInv, ControlInv, LevelInv
<1>2. PICK j \in Zones :
        /\ Leaves(k, j)
        /\ \/ chan' = chan
           \/ \E m \in Messages :
                /\ m.zone = loc[k].slot[j].zone /\ m.step = pass[k]
                /\ chan' = IF EdgeDown(k) THEN chan ELSE [chan EXCEPT ![k] = Append(@, m)]
  BY DEF LeavesToQueue, LeavesToResult
<1>3. /\ pc[k] \in Working /\ j < loc[k].arrived /\ loc[k].slot[j].owned
      /\ loc[k].slot[j].zone \in loc[k].agg.zones /\ level' = level
  BY <1>2 DEF Leaves
<1>4. PICK q \in PassStates :
        /\ Moves(k, pc[k], q)
        /\ \A i \in Zones \ {j} : q.slot[i] = loc[k].slot[i]
        /\ ~q.slot[j].owned /\ q.slot[j].zone = loc[k].slot[j].zone
        /\ q.arrived = loc[k].arrived /\ q.agg = loc[k].agg
  BY <1>2 DEF Leaves
<1>5. SlotLevel(loc[k], pass[k], j)
  BY <1>1, <1>3 DEF SlotLevels
<1>6. level[loc[k].slot[j].zone] = pass[k]
  BY <1>3, <1>5 DEF SlotLevel, SlotBase
<1>7. ASSUME NEW i \in Zones, i < q.arrived
      PROVE  SlotLevel(q, pass[k], i)
  <2>1. SlotLevel(loc[k], pass[k], i)
    BY <1>1, <1>3, <1>4, <1>7 DEF SlotLevels
  <2>2. CASE i = j
    BY <1>4, <2>1, <2>2 DEF SlotLevel, SlotBase
  <2>3. CASE i # j
    BY <1>4, <2>1, <2>3 DEF SlotLevel, SlotBase
  <2>4. QED
    BY <2>2, <2>3
<1>8. SlotLevels'
  BY <1>1, <1>3, <1>4, <1>7, LevelsMove
<1>9. QueueLevels'
  <2>1. CASE chan' = chan
    BY <1>1, <1>3, <2>1 DEF QueueLevels
  <2>2. CASE \E m \in Messages : /\ m.zone = loc[k].slot[j].zone /\ m.step = pass[k]
                                 /\ chan' = [chan EXCEPT ![k] = Append(@, m)]
    <3>1. PICK m \in Messages : /\ m.zone = loc[k].slot[j].zone /\ m.step = pass[k]
                                /\ chan' = [chan EXCEPT ![k] = Append(@, m)]
      BY <2>2
    <3>2. chan[k] \in Seq(Messages)
      BY <1>1 DEF TypeOK
    <3>3. chan'[k] = Append(chan[k], m) /\ \A d \in Nodes : d # k => chan'[d] = chan[d]
      BY <1>1, <3>1 DEF TypeOK
    <3>4. /\ Len(chan'[k]) = Len(chan[k]) + 1 /\ Len(chan[k]) \in Nat
          /\ chan'[k][Len(chan[k]) + 1] = m
          /\ \A i \in 1 .. Len(chan[k]) : chan'[k][i] = chan[k][i]
      BY <3>2, <3>3, AppendProperties, LenProperties
    <3>5. ASSUME NEW i \in 1 .. Len(chan'[k])
          PROVE  level[chan'[k][i].zone] = chan'[k][i].step
      <4>1. CASE i \in 1 .. Len(chan[k])
        BY <1>1, <1>3, <3>4, <4>1 DEF QueueLevels
      <4>2. CASE i \notin 1 .. Len(chan[k])
        <5>1. i = Len(chan[k]) + 1
          BY <3>4, <4>2
        <5>2. QED
          BY <1>3, <1>6, <3>1, <3>4, <5>1
      <4>3. QED
        BY <4>1, <4>2
    <3>6. QED
      BY <1>1, <1>3, <3>3, <3>5, QueueLevelsMove
  <2>3. QED
    BY <1>2, <2>1, <2>2
<1>10. PreloadLevels'
  BY <1>1, <1>2, <1>3, LeavesHolders DEF PreloadLevels
<1>11. SpreadInv'
  BY <1>1, <1>3 DEF SpreadInv
<1>12. QED
  BY <1>8, <1>9, <1>10, <1>11 DEF LevelInv

LEMMA SlotZone ==
  ASSUME TypeOK, NEW k \in Nodes, NEW j \in Zones
  PROVE  loc[k].slot[j].zone \in Zones
<1>1. loc[k] \in PassStates
  BY DEF TypeOK
<1>2. loc[k].slot[j] \in Slots
  BY <1>1 DEF PassStates
<1>3. QED
  BY <1>2 DEF Slots

\* The zone that ends and its neighbours, one time step apart.
LEMMA CompletesLevels ==
  ASSUME ConveyorInv, LevelInv, NEW k \in Nodes, NEW z, Completes(k, z)
  PROVE  /\ z \in Zones /\ pass[k] \in Passes /\ level[z] = pass[k] - 1
         /\ \A b \in Adjacent(z) : b \in Zones /\ level[b] \in {pass[k] - 1, pass[k]}
<1>1. /\ TypeOK /\ SlotLevels /\ SpreadInv /\ z \in Zones /\ pc[k] \in Working
      /\ z \notin loc[k].agg.zones
  BY DEF ConveyorInv, ControlInv, LevelInv, Completes
<1>2. pass[k] \in Passes
  BY <1>1, ShapeNow
<1>3. PICK j \in Zones : j < loc[k].arrived /\ loc[k].slot[j].owned /\ loc[k].slot[j].zone = z
  BY DEF Completes
<1>4. level[z] = pass[k] - 1
  BY <1>1, <1>3 DEF SlotLevels, SlotLevel, SlotBase
<1>5. ASSUME NEW b \in Adjacent(z)
      PROVE  b \in Zones /\ level[b] \in {pass[k] - 1, pass[k]}
  <2>1. b \in Zones
    BY <1>1, AdjacentFacts
  <2>2. PICK i \in Zones : /\ i < loc[k].arrived /\ loc[k].slot[i].zone = b
                           /\ loc[k].slot[i].owned \/ b \in loc[k].agg.zones
    BY DEF Completes
  <2>3. SlotLevel(loc[k], pass[k], i)
    BY <1>1, <2>2 DEF SlotLevels
  <2>4. level[b] >= pass[k] - 1
    <3>1. level[b] >= SlotBase(loc[k], pass[k], i)
      BY <2>2, <2>3 DEF SlotLevel
    <3>2. SlotBase(loc[k], pass[k], i) \in {pass[k] - 1, pass[k]}
      BY DEF SlotBase
    <3>3. pass[k] \in Nat /\ level[b] \in Nat
      BY <1>1, <2>1 DEF TypeOK
    <3>4. QED
      BY <3>1, <3>2, <3>3
  <2>5. level[b] <= level[z] + 1
    BY <1>1 DEF SpreadInv
  <2>6. level[b] \in Nat /\ pass[k] \in Nat
    BY <1>1, <2>1 DEF TypeOK
  <2>7. QED
    BY <1>4, <2>1, <2>4, <2>5, <2>6
<1>6. QED
  BY <1>1, <1>2, <1>4, <1>5

LEMMA LevelCompletes ==
  ASSUME ConveyorInv, OneHolder, LevelInv, NEW k \in Nodes, NEW z, Completes(k, z)
  PROVE  LevelInv'
<1>1. /\ TypeOK /\ SlotLevels /\ QueueLevels /\ PreloadLevels /\ SpreadInv
      /\ z \in Zones /\ pc[k] \in Working /\ 0 \in Nodes
  BY ZonesFacts DEF ConveyorInv, ControlInv, LevelInv, Completes, Nodes
<1>2. /\ pass[k] \in Passes /\ level[z] = pass[k] - 1 /\ pass[k] \in Nat
      /\ \A b \in Adjacent(z) : b \in Zones /\ level[b] \in {pass[k] - 1, pass[k]}
  BY CompletesLevels DEF Passes
<1>3. PICK x, q :
        /\ Moves(k, x, q)
        /\ \A j \in Zones : SameHold(loc[k], q, j)
        /\ q.arrived = loc[k].arrived /\ q.agg.zones = loc[k].agg.zones \cup {z}
  BY DEF Completes
<1>4. /\ pc'[k] = x /\ loc'[k] = q /\ pass' = pass
      /\ \A l \in Nodes : l # k => pc'[l] = pc[l] /\ loc'[l] = loc[l]
  BY <1>1, <1>3, MovesFacts
<1>5. /\ chan' = chan /\ level'[z] = pass[k] /\ \A i \in Zones \ {z} : level'[i] = level[i]
  BY <1>1, <1>2 DEF Completes, TypeOK
<1>6. PICK j \in Zones : loc[k].slot[j].owned /\ loc[k].slot[j].zone = z
  BY DEF Completes
<1>7. Holds("slot", k, j, z) /\ "slot" \in Kinds /\ j \in Nat
  BY <1>6 DEF Holds, InSlot, Kinds, Zones
<1>8. \A i \in Zones : level[i] \in Nat
  BY <1>1 DEF TypeOK
<1>9. SlotLevels'
  <2> SUFFICES ASSUME NEW l \in Nodes, pc'[l] \in Working, NEW i \in Zones,
                      i < loc'[l].arrived
               PROVE  SlotLevel(loc[l], pass[l], i)'
    BY DEF SlotLevels
  <2>1. CASE l = k
    <3>1. SlotLevel(loc[k], pass[k], i)
      BY <1>1, <1>3, <1>4, <2>1 DEF SlotLevels
    <3>2. q.slot[i].zone = loc[k].slot[i].zone /\ (q.slot[i].owned <=> loc[k].slot[i].owned)
      BY <1>3 DEF SameHold
    <3>3. loc[k].slot[i].zone \in Zones
      BY SlotZone, <1>1
    <3>4. SlotLevel(loc[k], pass[k], i)'
            <=> /\ level'[loc[k].slot[i].zone] >= SlotBase(q, pass[k], i)
                /\ q.slot[i].owned
                     => level'[loc[k].slot[i].zone] = SlotBase(q, pass[k], i)
      BY <1>4, <3>2 DEF SlotLevel, SlotBase
    <3>5. CASE loc[k].slot[i].zone = z
      <4>1. SlotBase(q, pass[k], i) = pass[k]
        BY <1>3, <3>2, <3>5 DEF SlotBase
      <4>2. QED
        BY <1>2, <1>5, <2>1, <3>4, <3>5, <4>1
    <3>6. CASE loc[k].slot[i].zone # z
      <4>1. SlotBase(q, pass[k], i) = SlotBase(loc[k], pass[k], i)
        BY <1>3, <3>2, <3>6 DEF SlotBase
      <4>2. QED
        BY <1>5, <2>1, <3>1, <3>2, <3>3, <3>4, <3>6, <4>1 DEF SlotLevel
    <3>7. QED
      BY <3>5, <3>6
  <2>2. CASE l # k
    <3>1. SlotLevel(loc[l], pass[l], i)
      BY <1>1, <1>4, <2>2 DEF SlotLevels
    <3>2. loc[l].slot[i].zone \in Zones
      BY SlotZone, <1>1
    <3>3. SlotLevel(loc[l], pass[l], i)'
            <=> /\ level'[loc[l].slot[i].zone] >= SlotBase(loc[l], pass[l], i)
                /\ loc[l].slot[i].owned
                     => level'[loc[l].slot[i].zone] = SlotBase(loc[l], pass[l], i)
      BY <1>4, <2>2 DEF SlotLevel, SlotBase
    <3>4. CASE loc[l].slot[i].zone = z
      <4>1. ~loc[l].slot[i].owned
        <5>1. loc[l].slot[i].owned => Holds("slot", l, i, z) /\ i \in Nat
          BY <3>4 DEF Holds, InSlot, Zones
        <5>2. QED
          BY <1>1, <1>7, <2>2, <5>1 DEF OneHolder
      <4>2. SlotBase(loc[l], pass[l], i) \in Int
        BY <1>1 DEF SlotBase, TypeOK
      <4>3. level'[z] = level[z] + 1
        BY <1>2, <1>5
      <4>4. level[z] >= SlotBase(loc[l], pass[l], i)
        BY <3>1, <3>4 DEF SlotLevel
      <4>5. level'[z] >= SlotBase(loc[l], pass[l], i)
        BY <1>1, <1>8, <4>2, <4>3, <4>4
      <4>6. QED
        BY <3>3, <3>4, <4>1, <4>5
    <3>5. CASE loc[l].slot[i].zone # z
      BY <1>5, <3>1, <3>2, <3>3, <3>5 DEF SlotLevel
    <3>6. QED
      BY <3>4, <3>5
  <2>3. QED
    BY <2>1, <2>2
<1>10. QueueLevels'
  <2> SUFFICES ASSUME NEW e \in Nodes, NEW i \in 1 .. Len(chan[e])
               PROVE  level'[chan[e][i].zone] = chan[e][i].step
    BY <1>5 DEF QueueLevels
  <2>1. chan[e][i].zone \in Zones
    <3>1. chan[e] \in Seq(Messages)
      BY <1>1 DEF TypeOK
    <3>2. chan[e][i] \in Messages
      BY <3>1, ElementOfSeq
    <3>3. QED
      BY <3>2 DEF Messages
  <2>2. chan[e][i].zone # z
    <3>1. chan[e][i].zone = z => Holds("queue", e, i, z)
      BY DEF Holds, InQueue
    <3>2. "queue" \in Kinds /\ "slot" # "queue" /\ i \in Nat
      BY DEF Kinds
    <3>3. QED
      BY <1>1, <1>7, <3>1, <3>2 DEF OneHolder
  <2>3. QED
    BY <1>1, <1>5, <2>1, <2>2 DEF QueueLevels
<1>11. PreloadLevels'
  <2>1. loc'[0].arrived = loc[0].arrived
    BY <1>1, <1>3, <1>4
  <2>2. \A i \in Zones : InPreload(i)' <=> InPreload(i)
    BY <1>4, <2>1 DEF InPreload
  <2>3. ~InPreload(z)
    <3>1. InPreload(z) => Holds("preload", 0, 0, z)
      BY DEF Holds
    <3>2. "preload" \in Kinds /\ "slot" # "preload" /\ 0 \in Nat
      BY DEF Kinds
    <3>3. QED
      BY <1>1, <1>7, <3>1, <3>2 DEF OneHolder
  <2>4. QED
    BY <1>1, <1>5, <2>2, <2>3 DEF PreloadLevels
<1>12. SpreadInv'
  <2> SUFFICES ASSUME NEW i \in Zones, NEW b \in Adjacent(i)
               PROVE  level'[b] <= level'[i] + 1
    BY DEF SpreadInv
  <2>1. b \in Zones /\ i \in Adjacent(b) /\ level[b] <= level[i] + 1
    BY <1>1, AdjacentFacts DEF SpreadInv
  <2>2. CASE b = z /\ i = z
    BY <1>2, <1>5, <2>2
  <2>3. CASE b = z /\ i # z
    <3>1. level[i] \in {pass[k] - 1, pass[k]}
      BY <1>2, <2>1, <2>3
    <3>2. QED
      BY <1>2, <1>5, <2>3, <3>1
  <2>4. CASE b # z /\ i = z
    <3>1. level[b] \in {pass[k] - 1, pass[k]}
      BY <1>2, <2>4
    <3>2. QED
      BY <1>2, <1>5, <2>1, <2>4, <3>1
  <2>5. CASE b # z /\ i # z
    BY <1>5, <2>1, <2>5
  <2>6. QED
    BY <2>2, <2>3, <2>4, <2>5
<1>13. QED
  BY <1>9, <1>10, <1>11, <1>12 DEF LevelInv

LEMMA LevelStep ==
  ASSUME PlacesInv, LevelInv, [Next]_vars
  PROVE  LevelInv'
<1>1. /\ ConveyorInv /\ OneHolder /\ IdleInv /\ TypeOK /\ PassInv /\ 0 \in Nodes
      /\ SlotLevels /\ QueueLevels /\ PreloadLevels /\ SpreadInv
  BY ZonesFacts DEF PlacesInv, ConveyorInv, ControlInv, RecordInv, LevelInv, Nodes
<1>2. CASE Still \/ UNCHANGED vars
  <2>1. /\ UNCHANGED <<pass, loc, chan, level>>
        /\ \A l \in Nodes : pc'[l] \in Working => pc[l] \in Working
    BY <1>2 DEF Still, vars, Working
  <2>2. SlotLevels'
    BY <1>1, <2>1 DEF SlotLevels, SlotLevel, SlotBase
  <2>3. QueueLevels' /\ PreloadLevels' /\ SpreadInv'
    BY <1>1, <2>1 DEF QueueLevels, PreloadLevels, SpreadInv, InPreload
  <2>4. QED
    BY <2>2, <2>3 DEF LevelInv
<1>3. ASSUME NEW k \in Nodes, RecordPass(k)
      PROVE  LevelInv'
  <2>1. /\ UNCHANGED <<loc, chan, level>> /\ pass' = [pass EXCEPT ![k] = @ + Z]
        /\ pc' = [pc EXCEPT ![k] = "loop"]
    BY <1>3 DEF RecordPass, Goto
  <2>2. \A l \in Nodes : pc'[l] \in Working => l # k /\ pc[l] \in Working
    BY <1>1, <2>1 DEF TypeOK, Working
  <2>3. \A l \in Nodes : l # k => pass'[l] = pass[l]
    BY <1>1, <2>1 DEF TypeOK
  <2>4. SlotLevels'
    BY <1>1, <2>1, <2>2, <2>3 DEF SlotLevels, SlotLevel, SlotBase
  <2>5. \A i \in Zones : InPreload(i)' => InPreload(i)
    <3>1. pass'[k] # 1
      BY <1>1, <2>1, PassRange, ZonesFacts DEF TypeOK
    <3>2. QED
      BY <1>1, <2>1, <2>3, <3>1 DEF InPreload
  <2>6. QueueLevels' /\ PreloadLevels' /\ SpreadInv'
    BY <1>1, <2>1, <2>5 DEF QueueLevels, PreloadLevels, SpreadInv
  <2>7. QED
    BY <2>4, <2>6 DEF LevelInv
<1>4. ASSUME NEW k \in Nodes, ZoneStep(k)
      PROVE  LevelInv'
  <2>1. CASE Tidies(k) \/ Begins(k)
    BY <1>1, <2>1, LevelQuiet
  <2>2. CASE \E z \in Zones : Completes(k, z)
    BY <1>1, <2>2, LevelCompletes
  <2>3. CASE TakesPreload(k) \/ TakesQueued(k)
    BY <1>1, <2>3, LevelTakes
  <2>4. CASE LeavesToQueue(k) \/ LeavesToResult(k)
    BY <1>1, <2>4, LevelLeaves
  <2>5. QED
    BY <1>4, <2>1, <2>2, <2>3, <2>4 DEF ZoneStep
<1>5. QED
  BY <1>1, <1>2, <1>3, <1>4, ZoneKinds

LEMMA LevelInit == Init => LevelInv
<1> SUFFICES ASSUME Init PROVE LevelInv
  OBVIOUS
<1>1. SlotLevels /\ QueueLevels
  BY DEF Init, SlotLevels, QueueLevels, Working
<1>2. PreloadLevels /\ SpreadInv
  BY AdjacentFacts DEF Init, PreloadLevels, SpreadInv
<1>3. QED
  BY <1>1, <1>2 DEF LevelInv
-----------------------------------------------------------------------------
(* Every pass before the one a node is in is recorded, and exact; every zone *)
(* of the last pass is collected.                                            *)

\* At the end of a pass every zone has been at the node.
LEMMA AllZonesPassed ==
  ASSUME ConveyorInv, NEW k \in Nodes, pc[k] = "record", NEW i \in Zones
  PROVE  \E j \in Zones : /\ j < loc[k].arrived /\ loc[k].slot[j].zone = i
                          /\ ~loc[k].slot[j].owned /\ i \in loc[k].agg.zones
<1>1. /\ loc[k].arrived = N /\ pass[k] \in Passes /\ pass[k] \in Nat \ {0}
      /\ PassShape(loc[k], pass[k], N, N, N)
  BY FinishedPass DEF ConveyorInv, ControlInv, RecordInv, Passes
<1>2. loc[k] \in PassStates
  BY DEF ConveyorInv, ControlInv, TypeOK
<1>3. PICK j \in Zones : ZoneAt(pass[k], j) = i
  BY <1>1, ZoneAtOnto
<1>4. j < loc[k].arrived /\ Rank(j) < N
  BY <1>1, OrderFacts, ZonesFacts DEF Zones
<1>5. loc[k].slot[j].zone = i /\ i \in loc[k].agg.zones
  BY <1>1, <1>2, <1>3, <1>4, EndedZones
<1>6. ~loc[k].slot[j].owned
  BY NothingOwned
<1>7. QED
  BY <1>4, <1>5, <1>6

LEMMA RecordIsExact ==
  ASSUME ConveyorInv, LevelInv, NEW k \in Nodes, RecordPass(k)
  PROVE  /\ pass[k] \in Passes
         /\ stats' = [stats EXCEPT ![pass[k]]
                        = [dt |-> ScheduledDt(pass[k]), agg |-> FullLambda(pass[k])]]
         /\ [dt |-> ScheduledDt(pass[k]), agg |-> FullLambda(pass[k])] # NoStats
         /\ \A i \in Zones : level[i] >= pass[k]
<1>1. /\ pc[k] = "record" /\ pc[k] \in Working
      /\ stats' = [stats EXCEPT ![pass[k]] = [dt |-> loc[k].dt, agg |-> loc[k].agg]]
  BY DEF RecordPass, Working
<1>2. /\ pass[k] \in Passes
      /\ loc[k].agg = FullLambda(pass[k]) /\ loc[k].dt = ScheduledDt(pass[k])
  BY <1>1, FinishedPass DEF ConveyorInv, ControlInv, RecordInv
<1>3. ScheduledDt(pass[k]).pass = pass[k] /\ NoDt.pass = 0 /\ pass[k] # 0
  BY <1>2 DEF ScheduledDt, DtInitial, NoDt, Passes
<1>4. [dt |-> ScheduledDt(pass[k]), agg |-> FullLambda(pass[k])] # NoStats
  <2>1. [dt |-> ScheduledDt(pass[k]), agg |-> FullLambda(pass[k])].dt.pass # NoStats.dt.pass
    BY <1>3 DEF NoStats
  <2>2. QED
    BY <2>1
<1>5. ASSUME NEW i \in Zones
      PROVE  level[i] >= pass[k]
  <2>1. PICK j \in Zones : /\ j < loc[k].arrived /\ loc[k].slot[j].zone = i
                           /\ i \in loc[k].agg.zones
    BY <1>1, AllZonesPassed
  <2>2. SlotLevel(loc[k], pass[k], j)
    BY <1>1, <2>1 DEF LevelInv, SlotLevels
  <2>3. QED
    BY <2>1, <2>2 DEF SlotLevel, SlotBase
<1>6. QED
  BY <1>1, <1>2, <1>4, <1>5

LEMMA LevelGrows ==
  ASSUME ConveyorInv, LevelInv, Next
  PROVE  \A i \in Zones : level[i] \in Nat /\ level'[i] \in Nat /\ level'[i] >= level[i]
<1>1. TypeOK /\ \A i \in Zones : level[i] \in Nat
  BY DEF ConveyorInv, ControlInv, TypeOK
<1>2. ASSUME level' = level
      PROVE  \A i \in Zones : level'[i] \in Nat /\ level'[i] >= level[i]
  BY <1>1, <1>2
<1>3. ASSUME NEW k \in Nodes, NEW z, Completes(k, z)
      PROVE  \A i \in Zones : level'[i] \in Nat /\ level'[i] >= level[i]
  <2>1. /\ z \in Zones /\ pass[k] \in Nat /\ level[z] = pass[k] - 1
        /\ level' = [level EXCEPT ![z] = pass[k]]
    BY <1>1, <1>3, CompletesLevels DEF Completes, TypeOK
  <2>2. QED
    BY <1>1, <2>1 DEF TypeOK
<1>4. ASSUME NEW k \in Nodes, RecordPass(k)
      PROVE  level' = level
  BY <1>4 DEF RecordPass
<1>5. ASSUME NEW k \in Nodes, ZoneStep(k), ~\E z \in Zones : Completes(k, z)
      PROVE  level' = level
  BY <1>5 DEF ZoneStep, Tidies, Begins, TakesPreload, TakesQueued, LeavesToQueue,
              LeavesToResult, Takes, Leaves
<1>6. QED
  BY <1>1, <1>2, <1>3, <1>4, <1>5, ZoneKinds DEF Still

LEMMA StatsStep ==
  ASSUME PlacesInv, LevelInv, StatsInv, [Next]_vars
  PROVE  StatsInv'
<1>1. /\ ConveyorInv /\ TypeOK /\ PassInv /\ RecordedPassesExact
      /\ \A k \in Nodes, h \in Passes : PassOf(k, h) /\ h < pass[k] => Recorded(h)
  BY DEF PlacesInv, ConveyorInv, ControlInv, RecordInv, StatsInv
<1>2. \A i \in Zones : level[i] \in Nat /\ level'[i] \in Nat /\ level'[i] >= level[i]
  <2>1. CASE Next
    BY <1>1, <2>1, LevelGrows
  <2>2. CASE UNCHANGED vars
    BY <1>1, <2>2 DEF vars, TypeOK
  <2>3. QED
    BY <2>1, <2>2
<1>3. ASSUME NEW i \in Zones, NEW h \in Passes, level[i] >= h
      PROVE  level'[i] >= h
  <2>1. h \in Nat
    BY DEF Passes
  <2>2. QED
    BY <1>2, <1>3, <2>1
<1>4. CASE UNCHANGED <<pass, stats>>
  <2>1. RecordedPassesExact'
    BY <1>1, <1>3, <1>4 DEF RecordedPassesExact, Recorded
  <2>2. \A k \in Nodes, h \in Passes : (PassOf(k, h) /\ h < pass[k] => Recorded(h))'
    BY <1>1, <1>4 DEF Recorded, PassOf
  <2>3. QED
    BY <2>1, <2>2 DEF StatsInv
<1>5. ASSUME NEW k \in Nodes, RecordPass(k)
      PROVE  StatsInv'
  <2>1. PICK r : r = pass[k]
    OBVIOUS
  <2>2. /\ r \in Passes /\ r \in Nat
        /\ stats' = [stats EXCEPT ![r] = [dt |-> ScheduledDt(r), agg |-> FullLambda(r)]]
        /\ [dt |-> ScheduledDt(r), agg |-> FullLambda(r)] # NoStats
        /\ \A i \in Zones : level[i] >= r
    BY <1>1, <1>5, <2>1, RecordIsExact DEF Passes
  <2>3. /\ stats'[r] = [dt |-> ScheduledDt(r), agg |-> FullLambda(r)]
        /\ \A h \in Passes \ {r} : stats'[h] = stats[h]
    BY <1>1, <2>2 DEF TypeOK
  <2>4. /\ pass'[k] = r + Z /\ \A l \in Nodes : l # k => pass'[l] = pass[l]
    BY <1>1, <1>5, <2>1 DEF RecordPass, TypeOK
  <2>5. RecordedPassesExact'
    <3> SUFFICES ASSUME NEW h \in Passes, Recorded(h)'
                 PROVE  /\ stats'[h] = [dt |-> ScheduledDt(h), agg |-> FullLambda(h)]
                        /\ \A i \in Zones : level'[i] >= h
      BY DEF RecordedPassesExact
    <3>1. CASE h = r
      BY <1>3, <2>2, <2>3, <3>1
    <3>2. CASE h # r
      BY <1>1, <1>3, <2>3, <3>2 DEF RecordedPassesExact, Recorded
    <3>3. QED
      BY <3>1, <3>2
  <2>6. ASSUME NEW l \in Nodes, NEW h \in Passes, PassOf(l, h), h < pass'[l]
        PROVE  Recorded(h)'
    <3>1. CASE h = r
      BY <2>2, <2>3, <3>1 DEF Recorded
    <3>2. CASE h # r /\ l # k
      BY <1>1, <2>3, <2>4, <2>6, <3>2 DEF Recorded
    <3>3. CASE h # r /\ l = k
      <4>1. h < r + Z
        BY <2>4, <2>6, <3>3
      <4>2. PICK a \in Nat, b \in Nat : h = k + 1 + a * Z /\ r = k + 1 + b * Z
        BY <1>1, <2>1, <2>6, <3>3 DEF PassInv, PassOf
      <4>3. k \in Nat /\ a * Z \in Nat /\ b * Z \in Nat /\ Z \in Nat
        BY ZonesFacts DEF Nodes
      <4>4. ~(b < a)
        <5>1. b < a => a * Z - b * Z >= Z
          BY Multiples
        <5>2. h - r = a * Z - b * Z
          BY <4>2, <4>3
        <5>3. QED
          BY <2>2, <4>1, <4>2, <4>3, <5>1, <5>2
      <4>5. a # b
        BY <3>3, <4>2
      <4>6. a < b
        BY <4>4, <4>5
      <4>7. b * Z - a * Z >= Z
        BY <4>6, Multiples
      <4>8. h < r
        BY <4>2, <4>3, <4>7, ZonesFacts
      <4>9. stats[h] # NoStats
        BY <1>1, <2>1, <2>6, <3>3, <4>8 DEF Recorded
      <4>10. QED
        BY <2>3, <3>3, <4>9 DEF Recorded
    <3>4. QED
      BY <3>1, <3>2, <3>3
  <2>7. QED
    <3>1. \A l \in Nodes, h \in Passes : (PassOf(l, h) /\ h < pass[l] => Recorded(h))'
      BY <2>6 DEF PassOf
    <3>2. QED
      BY <2>5, <3>1 DEF StatsInv
<1>6. ASSUME NEW k \in Nodes, ZoneStep(k)
      PROVE  UNCHANGED <<pass, stats>>
  BY <1>1, <1>6, ZoneStepMoves
<1>7. CASE UNCHANGED vars
  BY <1>4, <1>7 DEF vars
<1>8. QED
  BY <1>1, <1>4, <1>5, <1>6, <1>7, ZoneKinds DEF Still

LEMMA StatsInit == Init => StatsInv
<1> SUFFICES ASSUME Init PROVE StatsInv
  OBVIOUS
<1>1. \A h \in Passes : ~Recorded(h)
  BY DEF Init, Recorded
<1>2. ASSUME NEW k \in Nodes, NEW h \in Passes, PassOf(k, h), h < pass[k]
      PROVE  FALSE
  <2>1. PICK q \in Nat : h = k + 1 + q * Z
    BY <1>2 DEF PassOf
  <2>2. k \in Nat /\ q * Z \in Nat /\ pass[k] = k + 1
    BY ZonesFacts DEF Init, Nodes
  <2>3. QED
    BY <1>2, <2>1, <2>2
<1>3. QED
  BY <1>1, <1>2 DEF StatsInv, RecordedPassesExact

\* What a step on a zone does to the result.
LEMMA FinalGrows ==
  ASSUME TypeOK, NEW k \in Nodes, ZoneStep(k)
  PROVE  \/ final' = final
         \/ \E j \in Zones : /\ LeavesToResult(k) /\ Leaves(k, j)
                             /\ loc[k].slot[j].zone \in Zones
                             /\ final' = [final EXCEPT ![loc[k].slot[j].zone]
                                            = CompleteBody(loc[k].slot[j].zone, Steps)]
<1>1. CASE LeavesToResult(k)
  BY <1>1 DEF LeavesToResult, Leaves
<1>2. CASE ~LeavesToResult(k)
  BY <1>2 DEF ZoneStep, Tidies, Begins, Completes, TakesPreload, TakesQueued,
              LeavesToQueue, Takes
<1>3. QED
  BY <1>1, <1>2

LEMMA CompleteIsBody == \A i : CompleteBody(i, Steps) # NoBody
<1>1. \A i : CompleteBody(i, Steps).x = Steps /\ NoBody.x = 0 /\ Steps # 0
  BY ZonesFacts DEF CompleteBody, NoBody
<1>2. QED
  BY <1>1

\* The zones that arrived at the last pass are still held there or collected.
LastPass(k) ==
  pc[k] \in Working /\ pass[k] = Steps =>
    \A j \in Zones : j < loc[k].arrived =>
      loc[k].slot[j].owned \/ Collected(loc[k].slot[j].zone)

LEMMA LastPassStep ==
  ASSUME ConveyorInv, \A l \in Nodes : LastPass(l), NEW k \in Nodes, ZoneStep(k),
         \A i \in Zones : Collected(i) => Collected(i)'
  PROVE  \A l \in Nodes : LastPass(l)'
<1>1. TypeOK
  BY DEF ConveyorInv, ControlInv
<1>2. /\ pass' = pass
      /\ \A l \in Nodes : l # k => pc'[l] = pc[l] /\ loc'[l] = loc[l]
  BY <1>1, ZoneStepMoves
<1>3. \A l \in Nodes : \A j \in Zones : loc[l].slot[j].zone \in Zones
  BY <1>1, SlotZone
<1>4. ASSUME NEW l \in Nodes, l # k
      PROVE  LastPass(l)'
  BY <1>2, <1>3, <1>4 DEF LastPass
<1>5. ASSUME pass[k] = Steps, NEW j \in Zones, j < loc'[k].arrived
      PROVE  loc'[k].slot[j].owned \/ final'[loc'[k].slot[j].zone] # NoBody
  <2>1. CASE Begins(k)
    <3>1. loc'[k].arrived = 0
      BY <1>1, <2>1, MovesFacts DEF Begins
    <3>2. QED
      BY <1>5, <3>1 DEF Zones
  <2>2. CASE Tidies(k) \/ \E z \in Zones : Completes(k, z)
    <3>1. pc[k] \in Working
      BY <2>2 DEF Tidies, Completes
    <3>2. PICK x, q : /\ Moves(k, x, q) /\ \A i \in Zones : SameHold(loc[k], q, i)
                      /\ q.arrived = loc[k].arrived
      BY <2>2 DEF Tidies, Completes
    <3>3. loc'[k] = q
      BY <1>1, <3>2, MovesFacts
    <3>4. loc[k].slot[j].owned \/ Collected(loc[k].slot[j].zone)
      BY <1>5, <3>1, <3>2, <3>3 DEF LastPass
    <3>5. q.slot[j].zone = loc[k].slot[j].zone /\ (q.slot[j].owned <=> loc[k].slot[j].owned)
      BY <3>2 DEF SameHold
    <3>6. Collected(loc[k].slot[j].zone) => final'[q.slot[j].zone] # NoBody
      BY <1>3, <3>5 DEF Collected
    <3>7. QED
      BY <3>3, <3>4, <3>5, <3>6 DEF Collected
  <2>3. CASE TakesPreload(k) \/ TakesQueued(k)
    <3>1. PICK m, a : a \in Zones /\ Takes(k, m, a)
      BY <2>3 DEF TakesPreload, TakesQueued
    <3>2. PICK q \in PassStates :
            /\ Moves(k, pc[k], q) /\ \A i \in Zones \ {a} : q.slot[i] = loc[k].slot[i]
            /\ q.slot[a].owned /\ q.arrived = a + 1
      BY <3>1 DEF Takes
    <3>3. loc'[k] = q
      BY <1>1, <3>2, MovesFacts
    <3>4. CASE j = a
      BY <3>2, <3>3, <3>4
    <3>5. CASE j # a
      <4>1. j < loc[k].arrived /\ pc[k] \in Working
        <5>1. a = loc[k].arrived /\ pc[k] \in Working
          BY <3>1 DEF Takes
        <5>2. QED
          BY <1>5, <3>1, <3>2, <3>3, <3>5, <5>1 DEF Zones
      <4>2. loc[k].slot[j].owned \/ Collected(loc[k].slot[j].zone)
        BY <1>5, <4>1 DEF LastPass
      <4>3. Collected(loc[k].slot[j].zone) => final'[loc[k].slot[j].zone] # NoBody
        BY <1>3 DEF Collected
      <4>4. QED
        BY <3>2, <3>3, <3>5, <4>2, <4>3 DEF Collected
    <3>6. QED
      BY <3>4, <3>5
  <2>4. CASE LeavesToQueue(k)
    BY <1>5, <2>4 DEF LeavesToQueue
  <2>5. CASE LeavesToResult(k)
    <3>1. PICK b \in Zones :
            /\ Leaves(k, b)
            /\ final' = [final EXCEPT ![loc[k].slot[b].zone]
                           = CompleteBody(loc[k].slot[b].zone, Steps)]
      BY <2>5 DEF LeavesToResult
    <3>2. PICK q \in PassStates :
            /\ Moves(k, pc[k], q) /\ \A i \in Zones \ {b} : q.slot[i] = loc[k].slot[i]
            /\ q.slot[b].zone = loc[k].slot[b].zone /\ q.arrived = loc[k].arrived
      BY <3>1 DEF Leaves
    <3>3. loc'[k] = q
      BY <1>1, <3>2, MovesFacts
    <3>4. CASE j = b
      <4>1. final'[loc[k].slot[b].zone] = CompleteBody(loc[k].slot[b].zone, Steps)
        BY <1>1, <1>3, <3>1 DEF TypeOK
      <4>2. QED
        BY <3>2, <3>3, <3>4, <4>1, CompleteIsBody DEF Collected
    <3>5. CASE j # b
      <4>1. j < loc[k].arrived /\ pc[k] \in Working
        BY <1>5, <3>1, <3>2, <3>3 DEF Leaves
      <4>2. loc[k].slot[j].owned \/ Collected(loc[k].slot[j].zone)
        BY <1>5, <4>1 DEF LastPass
      <4>3. Collected(loc[k].slot[j].zone) => final'[loc[k].slot[j].zone] # NoBody
        BY <1>3 DEF Collected
      <4>4. QED
        BY <3>2, <3>3, <3>5, <4>2, <4>3 DEF Collected
    <3>6. QED
      BY <3>4, <3>5
  <2>6. QED
    BY <2>1, <2>2, <2>3, <2>4, <2>5 DEF ZoneStep
<1>6. LastPass(k)'
  BY <1>2, <1>5 DEF LastPass, Collected
<1>7. QED
  BY <1>4, <1>6

LEMMA FinalStep ==
  ASSUME PlacesInv, LevelInv, FinalInv, [Next]_vars
  PROVE  FinalInv'
<1>1. /\ ConveyorInv /\ TypeOK
      /\ \A i \in Zones : Collected(i) => final[i] = CompleteBody(i, Steps)
      /\ \A k \in Nodes : LastPass(k)
      /\ Recorded(Steps) => \A i \in Zones : Collected(i)
  BY DEF PlacesInv, ConveyorInv, ControlInv, FinalInv, LastPass
<1>2. CASE Still \/ UNCHANGED vars
  <2>1. /\ UNCHANGED <<pass, loc, final, stats>>
        /\ \A l \in Nodes : pc'[l] \in Working => pc[l] \in Working
    BY <1>2 DEF Still, vars, Working
  <2>2. QED
    BY <2>1 DEF FinalInv, Collected, Recorded
<1>3. ASSUME NEW k \in Nodes, RecordPass(k)
      PROVE  FinalInv'
  <2>1. /\ UNCHANGED <<loc, final>> /\ pass' = [pass EXCEPT ![k] = @ + Z]
        /\ pc' = [pc EXCEPT ![k] = "loop"] /\ pc[k] = "record" /\ pc[k] \in Working
        /\ stats' = [stats EXCEPT ![pass[k]] = [dt |-> loc[k].dt, agg |-> loc[k].agg]]
    BY <1>3 DEF RecordPass, Goto, Working
  <2>2. \A l \in Nodes : pc'[l] \in Working => l # k /\ pc[l] \in Working
    BY <1>1, <2>1 DEF TypeOK, Working
  <2>3. \A l \in Nodes : l # k => pass'[l] = pass[l]
    BY <1>1, <2>1 DEF TypeOK
  <2>4. \A l \in Nodes : LastPass(l)'
    BY <1>1, <2>1, <2>2, <2>3 DEF LastPass, Collected
  <2>5. Recorded(Steps)' => \A i \in Zones : Collected(i)'
    <3>1. CASE pass[k] = Steps
      <4>1. ASSUME NEW i \in Zones
            PROVE  Collected(i)
        <5>1. PICK j \in Zones : /\ j < loc[k].arrived /\ loc[k].slot[j].zone = i
                                 /\ ~loc[k].slot[j].owned
          BY <1>1, <2>1, AllZonesPassed
        <5>2. QED
          BY <1>1, <2>1, <3>1, <5>1 DEF LastPass
      <4>2. QED
        BY <2>1, <4>1 DEF Collected
    <3>2. CASE pass[k] # Steps
      <4>1. stats'[Steps] = stats[Steps]
        BY <1>1, <2>1, <3>2, ZonesFacts DEF TypeOK, Passes
      <4>2. QED
        BY <1>1, <2>1, <4>1 DEF Recorded, Collected
    <3>3. QED
      BY <3>1, <3>2
  <2>6. \A i \in Zones : Collected(i)' => final'[i] = CompleteBody(i, Steps)
    BY <1>1, <2>1 DEF Collected
  <2>7. QED
    BY <2>4, <2>5, <2>6 DEF FinalInv, LastPass
<1>4. ASSUME NEW k \in Nodes, ZoneStep(k)
      PROVE  FinalInv'
  <2>1. ASSUME NEW i \in Zones
        PROVE  /\ Collected(i)' => final'[i] = CompleteBody(i, Steps)
               /\ Collected(i) => Collected(i)'
    <3>1. CASE final' = final
      BY <1>1, <3>1 DEF Collected
    <3>2. CASE final' # final
      <4>1. PICK z \in Zones : final' = [final EXCEPT ![z] = CompleteBody(z, Steps)]
        BY <1>1, <1>4, <3>2, FinalGrows
      <4>2. final'[i] = IF i = z THEN CompleteBody(z, Steps) ELSE final[i]
        BY <1>1, <4>1 DEF TypeOK
      <4>3. QED
        BY <1>1, <4>2, CompleteIsBody DEF Collected
    <3>3. QED
      BY <3>1, <3>2
  <2>2. \A l \in Nodes : LastPass(l)'
    BY <1>1, <1>4, <2>1, LastPassStep
  <2>3. stats' = stats
    BY <1>1, <1>4, ZoneStepMoves
  <2>4. Recorded(Steps)' => \A i \in Zones : Collected(i)'
    BY <1>1, <2>1, <2>3 DEF Recorded
  <2>5. QED
    BY <2>1, <2>2, <2>4 DEF FinalInv, LastPass
<1>5. QED
  BY <1>1, <1>2, <1>3, <1>4, ZoneKinds

LEMMA FinalInit == Init => FinalInv
<1> SUFFICES ASSUME Init PROVE FinalInv
  OBVIOUS
<1>1. \A i \in Zones : ~Collected(i)
  BY DEF Init, Collected
<1>2. ~Recorded(Steps)
  BY ZonesFacts DEF Init, Recorded, Passes
<1>3. \A k \in Nodes : pc[k] \notin Working
  BY DEF Init, Working
<1>4. QED
  BY <1>1, <1>2, <1>3 DEF FinalInv
-----------------------------------------------------------------------------
(* Why a node stops, and what run() reports.                                 *)

LEMMA GotoFacts ==
  ASSUME TypeOK, NEW k \in Nodes, NEW x, Goto(k, x)
  PROVE  pc'[k] = x /\ \A l \in Nodes : l # k => pc'[l] = pc[l]
BY DEF Goto, TypeOK

\* What a step of node k may do to its control point and to the halt.
Halts(k) ==
  /\ pc[k] \notin {"unborn", "done"}
  /\ pc'[k] # "unborn" /\ \A l \in Nodes : l # k => pc'[l] = pc[l]
  /\ pc'[k] = "done" => HaltOn \/ (pass[k] > Steps /\ pass' = pass)
  /\ pc[k] = "closing" => pc'[k] = "closing" \/ closed' = Z
  /\ HaltOn' => HaltOn \/ pc'[k] = "closing"
  /\ UNCHANGED mainVars

LEMMA HaltsQuietly ==
  ASSUME TypeOK, NEW k \in Nodes, pc[k] \in Working \cup {"loop"},
         NEW x \in Working \cup {"loop", "done"}, pc' = pc \/ Goto(k, x),
         x = "done" => HaltOn \/ (pass[k] > Steps /\ pass' = pass),
         UNCHANGED <<haltVars, mainVars>>
  PROVE  Halts(k)
<1>1. pc'[k] \in {pc[k], x} /\ \A l \in Nodes : l # k => pc'[l] = pc[l]
  BY GotoFacts
<1>2. HaltOn' = HaltOn
  BY DEF HaltOn, haltVars
<1>3. pc[k] \notin {"unborn", "done", "closing"} /\ x # "unborn"
  BY DEF Working
<1>4. pc'[k] = "done" => x = "done"
  BY <1>1, <1>3
<1>5. QED
  BY <1>1, <1>2, <1>3, <1>4 DEF Halts

LEMMA HaltsSet ==
  ASSUME TypeOK, NEW k \in Nodes, pc[k] \in Working, NEW kind, SetHalt(k, kind),
         UNCHANGED mainVars
  PROVE  Halts(k)
<1>1. pc[k] \notin {"unborn", "done", "closing"}
  BY DEF Working
<1>2. CASE HaltOn
  <2>1. Goto(k, "done")
    BY <1>2 DEF SetHalt
  <2>2. pc'[k] = "done" /\ \A l \in Nodes : l # k => pc'[l] = pc[l]
    BY <2>1, GotoFacts
  <2>3. QED
    BY <1>1, <1>2, <2>2 DEF Halts
<1>3. CASE ~HaltOn
  <2>1. Goto(k, "closing")
    BY <1>3 DEF SetHalt
  <2>2. pc'[k] = "closing" /\ \A l \in Nodes : l # k => pc'[l] = pc[l]
    BY <2>1, GotoFacts
  <2>3. QED
    BY <1>1, <1>3, <2>2 DEF Halts
<1>4. QED
  BY <1>2, <1>3

LEMMA NodeHalts ==
  ASSUME ControlInv, NEW k \in Nodes, NodeStep(k)
  PROVE  Halts(k)
<1>1. TypeOK /\ HaltInv /\ loc[k] \in PassStates
  BY DEF ControlInv, TypeOK
<1>2. AfterPosition(loc[k]) \in Working
  BY DEF AfterPosition, Working
<1>3. NextOp(k) \in Working
  BY DEF NextOp, Working
<1>4. CASE NodeReturns(k)
  BY <1>1, <1>4, HaltsQuietly DEF NodeReturns
<1>5. CASE StartPass(k)
  BY <1>1, <1>5, HaltsQuietly DEF StartPass, Working
<1>6. CASE TakePreload(k) \/ RecvZone(k)
  <2>1. pc[k] \in Working /\ UNCHANGED mainVars
        /\ ((pc' = pc /\ UNCHANGED haltVars) \/ SetHalt(k, "Logic"))
    BY <1>6 DEF TakePreload, RecvZone, TakeArrival, AwaitsArrival, Working
  <2>2. QED
    BY <1>1, <2>1, HaltsQuietly, HaltsSet
<1>7. CASE RecvShutDown(k)
  <2>1. /\ pc[k] \in Working /\ Goto(k, "done") /\ UNCHANGED <<haltVars, mainVars>>
        /\ EdgeDown(InEdge(k))
    BY <1>7 DEF RecvShutDown, AwaitsArrival, Working
  <2>2. InEdge(k) \in Nat
    BY EdgesAreNodes DEF Nodes
  <2>3. HaltOn
    BY <1>1, <2>1, <2>2 DEF HaltInv, EdgeDown
  <2>4. QED
    BY <1>1, <2>1, <2>3, HaltsQuietly
<1>8. CASE RecvDone(k)
  <2>1. /\ pc[k] \in Working /\ Goto(k, NextOp(k)) /\ UNCHANGED <<haltVars, mainVars>>
    BY <1>8 DEF RecvDone, Working
  <2>2. NextOp(k) # "done"
    BY <1>3 DEF Working
  <2>3. QED
    BY <1>1, <1>3, <2>1, <2>2, HaltsQuietly
<1>9. CASE SendZone(k) \/ CollectZone(k)
  <2>1. pc[k] \in Working /\ UNCHANGED mainVars
        /\ ((pc' = pc /\ UNCHANGED haltVars) \/ SetHalt(k, "Logic"))
    BY <1>9 DEF SendZone, CollectZone, Flushing, Working
  <2>2. QED
    BY <1>1, <2>1, HaltsQuietly, HaltsSet
<1>10. CASE FlushDone(k)
  <2>1. PICK x \in Working : Goto(k, x)
    BY <1>3, <1>10 DEF FlushDone, Working
  <2>2. pc[k] \in Working /\ UNCHANGED <<haltVars, mainVars>> /\ x # "done"
    BY <1>10 DEF FlushDone, Flushing, Working
  <2>3. QED
    BY <1>1, <2>1, <2>2, HaltsQuietly
<1>11. CASE FlushSeesHalt(k)
  <2>1. /\ pc[k] \in Working /\ Goto(k, "done") /\ UNCHANGED <<haltVars, mainVars>>
        /\ HaltOn
    BY <1>11 DEF FlushSeesHalt, Flushing, Working
  <2>2. QED
    BY <1>1, <2>1, HaltsQuietly
<1>12. CASE HaltCheck(k)
  <2>1. PICK x \in {"done", "compute"} : Goto(k, x) /\ (x = "done" => HaltOn)
    BY <1>12 DEF HaltCheck
  <2>2. pc[k] \in Working /\ UNCHANGED <<haltVars, mainVars>>
    BY <1>12 DEF HaltCheck, Working
  <2>3. x \in Working \cup {"loop", "done"}
    BY DEF Working
  <2>4. QED
    BY <1>1, <2>1, <2>2, <2>3, HaltsQuietly
<1>13. CASE ComputeZone(k)
  <2>1. /\ pc[k] \in Working /\ UNCHANGED mainVars
        /\ \/ UNCHANGED haltVars /\ \E x \in Working : Goto(k, x)
           \/ SetHalt(k, "Logic")
    BY <1>2, <1>13 DEF ComputeZone, Working
  <2>2. \A x \in Working : x # "done"
    BY DEF Working
  <2>3. QED
    BY <1>1, <2>1, <2>2, HaltsQuietly, HaltsSet
<1>14. CASE EndZone(k)
  <2>1. /\ pc[k] \in Working /\ UNCHANGED mainVars
        /\ \/ UNCHANGED haltVars /\ \E x \in Working : Goto(k, x)
           \/ SetHalt(k, "Logic")
    BY <1>2, <1>14 DEF EndZone, Working
  <2>2. \A x \in Working : x # "done"
    BY DEF Working
  <2>3. QED
    BY <1>1, <2>1, <2>2, HaltsQuietly, HaltsSet
<1>15. CASE NodeFault(k)
  <2>1. UNCHANGED mainVars /\ \E kind \in FaultsAt(pc[k]) : SetHalt(k, kind)
    BY <1>15 DEF NodeFault
  <2>2. pc[k] \in Working
    BY <2>1 DEF FaultsAt, Working
  <2>3. QED
    BY <1>1, <2>1, <2>2, HaltsSet
<1>16. CASE RecordPass(k)
  <2>1. /\ pc[k] \in Working /\ Goto(k, "loop") /\ UNCHANGED <<haltVars, mainVars>>
    BY <1>16 DEF RecordPass, Working
  <2>2. QED
    BY <1>1, <2>1, HaltsQuietly
<1>17. CASE CloseEdge(k)
  <2>1. PICK x \in {"closing", "done"} : Goto(k, x) /\ (x = "done" => closed' = Z)
    BY <1>17 DEF CloseEdge
  <2>2. pc[k] = "closing" /\ UNCHANGED <<haltVars, mainVars>>
    BY <1>17 DEF CloseEdge
  <2>3. HaltOn /\ HaltOn'
    BY <1>1, <2>2 DEF HaltInv, HaltOn, haltVars
  <2>4. pc'[k] = x /\ \A l \in Nodes : l # k => pc'[l] = pc[l]
    BY <1>1, <2>1, GotoFacts
  <2>5. QED
    BY <2>1, <2>2, <2>3, <2>4 DEF Halts
<1>18. QED
  BY <1>4, <1>5, <1>6, <1>7, <1>8, <1>9, <1>10, <1>11, <1>12, <1>13, <1>14, <1>15,
     <1>16, <1>17 DEF NodeStep

\* Once every edge is closed they stay closed.
LEMMA ClosedStays ==
  ASSUME ConveyorInv, Next, closed = Z
  PROVE  closed' = Z
<1>1. TypeOK'
  BY ControlStep DEF ConveyorInv, ControlInv
<1>2. closed' = closed \/ closed' = closed + 1
  <2>1. CASE MainStep
    BY <2>1, MainKinds DEF ConveyorInv
  <2>2. ASSUME NEW k \in Nodes, NodeStep(k)
        PROVE  closed' = closed \/ closed' = closed + 1
    BY <2>2, NodeKinds DEF ConveyorInv, RecordInv
  <2>3. QED
    BY <2>1, <2>2 DEF Next, Returned, vars
<1>3. closed' \in 0 .. Z /\ Z \in Nat
  BY <1>1, ZonesFacts DEF TypeOK
<1>4. QED
  BY <1>2, <1>3

LEMMA StopNode ==
  ASSUME ConveyorInv, StopInv, NEW k \in Nodes, NodeStep(k)
  PROVE  StopInv'
<1>1. ControlInv /\ TypeOK /\ Halts(k) /\ UNCHANGED mainVars /\ Next
  BY NodeHalts DEF ConveyorInv, ControlInv, Halts, Next
<1>2. HaltOn => HaltOn'
  BY <1>1, HaltStepWins DEF haltVars, HaltOn
<1>3. /\ pc[k] \notin {"unborn", "done"}
      /\ pc'[k] # "unborn" /\ \A l \in Nodes : l # k => pc'[l] = pc[l]
      /\ pc'[k] = "done" => HaltOn \/ (pass[k] > Steps /\ pass' = pass)
      /\ pc[k] = "closing" => pc'[k] = "closing" \/ closed' = Z
      /\ HaltOn' => HaltOn \/ pc'[k] = "closing"
  BY <1>1 DEF Halts
<1>4. \A l \in Nodes : pc'[l] = "done" => HaltOn' \/ pass'[l] > Steps
  <2>1. \A l \in Nodes : l # k => pass'[l] = pass[l]
    <3>1. pass' = pass \/ RecordPass(k)
      BY <1>1, NodeKinds, MovesFacts
         DEF ConveyorInv, RecordInv, Stops, Works, Moves, Starts, Loads, Receives,
             Shifts, Emits, Collects, Computes, Ends
    <3>2. QED
      BY <1>1, <3>1 DEF RecordPass, TypeOK
  <2>2. QED
    BY <1>2, <1>3, <2>1 DEF StopInv
<1>5. main \in {"join", "returned"} => HaltOn' \/ born = Z
  BY <1>2 DEF StopInv
<1>6. \A l \in Nodes : l < born => pc'[l] # "unborn"
  BY <1>3 DEF StopInv
<1>7. HaltOn' => closed' = Z \/ main = "closing" \/ \E l \in Nodes : pc'[l] = "closing"
  <2>1. CASE HaltOn /\ closed = Z
    BY <1>1, <2>1, ClosedStays
  <2>2. ASSUME NEW l \in Nodes, pc[l] = "closing"
        PROVE  closed' = Z \/ \E n \in Nodes : pc'[n] = "closing"
    BY <1>3, <2>2
  <2>3. QED
    BY <1>3, <2>1, <2>2 DEF StopInv
<1>8. QED
  BY <1>1, <1>4, <1>5, <1>6, <1>7 DEF StopInv, mainVars

LEMMA StopMain ==
  ASSUME ConveyorInv, StopInv, MainStep
  PROVE  StopInv'
<1>1. /\ ControlInv /\ TypeOK /\ Next /\ pass' = pass /\ SpawnInv /\ HaltInv
      /\ born \in Nat /\ born \in 0 .. Z
  BY MainKinds DEF ConveyorInv, ControlInv, Next, TypeOK
<1>2. HaltOn => HaltOn'
  BY <1>1, HaltStepWins DEF haltVars, HaltOn
<1>3. CASE SpawnNode
  <2>1. /\ main = "spawn" /\ Goto(born, "loop") /\ born' = born + 1
        /\ main' = IF born' = Z THEN "join" ELSE "spawn"
        /\ UNCHANGED <<haltVars, closed>>
    BY <1>3 DEF SpawnNode
  <2>2. born \in Nodes
    BY <1>1, <2>1, ZonesFacts DEF SpawnInv, Nodes
  <2>3. PICK b \in Nodes : b = born
    BY <2>2
  <2>4. pc'[b] = "loop" /\ \A l \in Nodes : l # b => pc'[l] = pc[l]
    BY <1>1, <2>1, <2>3, GotoFacts
  <2>5. HaltOn' = HaltOn /\ pc[b] = "unborn"
    BY <1>1, <2>1, <2>3 DEF HaltOn, haltVars, SpawnInv, Nodes
  <2>6. \A l \in Nodes : pc'[l] = "done" => HaltOn' \/ pass'[l] > Steps
    BY <1>1, <2>4, <2>5 DEF StopInv
  <2>7. main' \in {"join", "returned"} => HaltOn' \/ born' = Z
    BY <2>1
  <2>8. \A l \in Nodes : l < born' => pc'[l] # "unborn"
    <3>1. \A l \in Nodes : l < born' => l = b \/ l < born
      BY <1>1, <2>1, <2>3 DEF Nodes
    <3>2. QED
      BY <2>4, <3>1 DEF StopInv
  <2>9. HaltOn' => closed' = Z \/ main' = "closing" \/ \E l \in Nodes : pc'[l] = "closing"
    <3>1. ASSUME NEW l \in Nodes, pc[l] = "closing"
          PROVE  pc'[l] = "closing"
      BY <2>4, <2>5, <3>1
    <3>2. QED
      BY <2>1, <2>5, <3>1 DEF StopInv
  <2>10. QED
    BY <2>6, <2>7, <2>8, <2>9 DEF StopInv
<1>4. CASE SpawnFails \/ MainClosesEdge \/ Join
  <2>1. pc' = pc /\ born' = born
    BY <1>4 DEF SpawnFails, MainClosesEdge, Join
  <2>2. \A l \in Nodes : pc'[l] = "done" => HaltOn' \/ pass'[l] > Steps
    BY <1>1, <1>2, <2>1 DEF StopInv
  <2>3. main' \in {"join", "returned"} => HaltOn' \/ born' = Z
    <3>1. CASE SpawnFails
      BY <1>2, <3>1 DEF SpawnFails
    <3>2. CASE MainClosesEdge
      BY <1>1, <1>2, <3>2 DEF MainClosesEdge, HaltInv
    <3>3. CASE Join
      BY <1>2, <2>1, <3>3 DEF Join, StopInv
    <3>4. QED
      BY <1>4, <3>1, <3>2, <3>3
  <2>4. \A l \in Nodes : l < born' => pc'[l] # "unborn"
    BY <2>1 DEF StopInv
  <2>5. HaltOn' => closed' = Z \/ main' = "closing" \/ \E l \in Nodes : pc'[l] = "closing"
    <3>1. CASE SpawnFails
      <4>1. CASE HaltOn
        BY <2>1, <3>1, <4>1 DEF SpawnFails, StopInv
      <4>2. CASE ~HaltOn
        BY <3>1, <4>2 DEF SpawnFails
      <4>3. QED
        BY <4>1, <4>2
    <3>2. CASE MainClosesEdge
      BY <3>2 DEF MainClosesEdge
    <3>3. CASE Join
      BY <2>1, <3>3 DEF Join, StopInv, HaltOn, haltVars
    <3>4. QED
      BY <1>4, <3>1, <3>2, <3>3
  <2>6. QED
    BY <2>2, <2>3, <2>4, <2>5 DEF StopInv
<1>5. QED
  BY <1>3, <1>4 DEF MainStep

LEMMA ReportStep ==
  ASSUME ConveyorInv, StopInv, ReportInv, Next
  PROVE  ReportInv'
<1>1. /\ ControlInv /\ TypeOK /\ SpawnInv /\ RecordInv
  BY DEF ConveyorInv, ControlInv
<1>2. CASE UNCHANGED vars
  BY <1>2 DEF vars, ReportInv, HaltOn, Recorded
<1>3. ASSUME NEW k \in Nodes, NodeStep(k)
      PROVE  ReportInv'
  <2>1. Halts(k)
    BY <1>1, <1>3, NodeHalts
  <2>2. main # "returned"
    BY <1>1, <2>1 DEF RecordInv, ReturnInv, Halts
  <2>3. QED
    BY <2>1, <2>2 DEF Halts, mainVars, ReportInv
<1>4. CASE SpawnNode \/ SpawnFails \/ MainClosesEdge
  BY <1>4 DEF SpawnNode, SpawnFails, MainClosesEdge, ReportInv
<1>5. CASE Join
  <2>1. /\ main = "join" /\ \A k \in 0 .. born - 1 : pc[k] = "done"
        /\ result' = [halt |-> haltKind,
                      steps_done |-> IF HaltOn THEN StepsDone ELSE Steps,
                      has_final |-> ~HaltOn]
        /\ UNCHANGED <<haltVars, closed, stats>>
    BY <1>5 DEF Join
  <2>2. HaltOn' = HaltOn /\ \A h : Recorded(h)' = Recorded(h)
    BY <2>1 DEF HaltOn, haltVars, Recorded
  <2>3. \A k \in Nodes : pc[k] # "closing"
    <3>1. ASSUME NEW k \in Nodes
          PROVE  pc[k] \in {"done", "unborn"}
      <4>1. CASE k < born
        BY <1>1, <2>1, <4>1 DEF Nodes, TypeOK
      <4>2. CASE ~(k < born)
        BY <1>1, <4>2 DEF SpawnInv, Nodes, TypeOK
      <4>3. QED
        BY <4>1, <4>2
    <3>2. QED
      BY <3>1
  <2>4. HaltOn => closed = Z
    BY <2>1, <2>3 DEF StopInv
  <2>5. \A h \in 1 .. StepsDone : Recorded(h)
    BY StepsDoneExact
  <2>6. result'.halt = haltKind /\ (result'.has_final <=> ~HaltOn)
        /\ (HaltOn => result'.steps_done = StepsDone)
    BY <2>1
  <2>7. haltKind' = haltKind /\ closed' = closed
    BY <2>1 DEF haltVars
  <2>8. QED
    BY <2>2, <2>4, <2>5, <2>6, <2>7 DEF ReportInv
<1>6. QED
  BY <1>2, <1>3, <1>4, <1>5 DEF Next, MainStep, Returned
-----------------------------------------------------------------------------
(* The theorems.                                                             *)

LEMMA RingAlways == Spec => [](PlacesInv /\ LevelInv /\ StatsInv /\ FinalInv)
<1>1. Init => LevelInv /\ StatsInv /\ FinalInv
  BY LevelInit, StatsInit, FinalInit
<1>2. PlacesInv /\ (LevelInv /\ StatsInv /\ FinalInv) /\ [Next]_vars
        => (LevelInv /\ StatsInv /\ FinalInv)'
  BY LevelStep, StatsStep, FinalStep
<1>3. QED
  BY <1>1, <1>2, PlacesAlways, PTL DEF Spec

LEMMA ReportAlways == Spec => [](StopInv /\ ReportInv)
<1>1. Init => StopInv /\ ReportInv
  BY DEF Init, StopInv, ReportInv, HaltOn, Nodes
<1>2. ConveyorInv /\ (StopInv /\ ReportInv) /\ [Next]_vars => (StopInv /\ ReportInv)'
  <2> SUFFICES ASSUME ConveyorInv, StopInv, ReportInv, [Next]_vars
               PROVE  StopInv' /\ ReportInv'
    OBVIOUS
  <2>1. CASE UNCHANGED vars
    BY <2>1 DEF vars, StopInv, ReportInv, HaltOn, Recorded
  <2>2. CASE Next
    <3>1. ReportInv'
      BY <2>2, ReportStep
    <3>2. CASE Returned
      BY <2>1, <3>2 DEF Returned
    <3>3. QED
      BY <2>2, <3>1, <3>2, StopNode, StopMain DEF Next
  <2>3. QED
    BY <2>1, <2>2
<1>3. QED
  BY <1>1, <1>2, ConveyorAlways, PTL DEF Spec

\* A zone on the ring or in the result is at one whole time step: the second
\* half-kick done, and each interacting zone counted once in its force, across
\* every hand-over between nodes.
THEOREM ZonesAreWhole == Spec => []WholeZones
<1>1. ConveyorInv /\ FinalInv => WholeZones
  BY DEF ConveyorInv, DataInv, MessagesInv, MessageShape, FinalInv, Collected, WholeZones
<1>2. QED
  BY <1>1, ConveyorAlways, RingAlways, PTL

\* What node_main records of a pass, its time step and its aggregate, is what
\* the serial loop would use, for every number of nodes; and by then every zone
\* has finished that pass.
THEOREM RecordsAreExact == Spec => []RecordedPassesExact
<1>1. StatsInv => RecordedPassesExact
  BY DEF StatsInv
<1>2. QED
  BY <1>1, RingAlways, PTL

\* As long as no halt was raised no zone is lost or doubled: each is in the
\* preload of node 0, on one edge, in one slot of one node, or in the result.
THEOREM ZonesConserved == Spec => []ZoneConserved
<1>1. PlacesInv => ZoneConserved
  BY OnePlace DEF PlacesInv, ConveyorInv, ControlInv, ZoneConserved
<1>2. QED
  BY <1>1, PlacesAlways, PTL

\* A send never waits for room: an edge never holds a zone twice, so the
\* capacity n+2 is never reached.
THEOREM SendsNeverWait == Spec => []SendNeverBlocks
<1>1. PlacesInv => SendNeverBlocks
  <2> SUFFICES ASSUME PlacesInv, NEW k \in Nodes
               PROVE  Len(chan[OutEdge(k)]) < Capacity
    BY DEF SendNeverBlocks
  <2>1. Len(chan[k]) \in Nat /\ Len(chan[k]) <= N /\ N \in Nat
    BY QueueBound, ZonesFacts DEF PlacesInv, ConveyorInv, ControlInv
  <2>2. QED
    BY <2>1 DEF OutEdge, Capacity
<1>2. QED
  BY <1>1, PlacesAlways, PTL

\* Every pass is the pass of some node.
LEMMA NodeOfPass ==
  ASSUME NEW h \in Passes
  PROVE  \E k \in Nodes : PassOf(k, h)
<1>1. Z \in Nat \ {0} /\ h - 1 \in Nat
  BY ZonesFacts DEF Passes
<1>2. PICK y \in Nat : y = h - 1
  BY <1>1
<1>3. y % Z \in 0 .. Z - 1
  BY <1>1
<1>4. y = Z * (y \div Z) + (y % Z) /\ y \div Z \in Int
  BY <1>1
<1>5. y \div Z \in Nat
  BY <1>1
<1>6. PICK q \in Nat : q = y \div Z
  BY <1>5
<1>7. PICK k \in Nodes : k = y % Z
  BY <1>3 DEF Nodes
<1>8. y = Z * q + k
  BY <1>4, <1>6, <1>7
<1>9. h = k + 1 + q * Z
  BY <1>1, <1>2, <1>8 DEF Nodes, Passes
<1>10. QED
  BY <1>9 DEF PassOf

\* What run() returns agrees with the ring it leaves behind: without a halt all
\* passes are recorded, all zones collected and no zone is left on an edge;
\* with one the transport is shut down and only recorded passes are counted.
THEOREM ReturnsConsistent == Spec => []ResultConsistent
<1>1. PlacesInv /\ StatsInv /\ FinalInv /\ StopInv /\ ReportInv => ResultConsistent
  <2> SUFFICES ASSUME PlacesInv, StatsInv, FinalInv, StopInv, ReportInv,
                      main = "returned"
               PROVE  ResultConsistent
    BY DEF ResultConsistent
  <2>1. /\ TypeOK /\ OneHolder /\ ReturnInv /\ born \in Nat
        /\ result.halt = haltKind /\ (result.has_final <=> ~HaltOn)
        /\ HaltOn => closed = Z /\ \A h \in 1 .. result.steps_done : Recorded(h)
    BY DEF PlacesInv, ConveyorInv, ControlInv, RecordInv, ReportInv, TypeOK
  <2>2. CASE HaltOn
    BY <2>1, <2>2 DEF ResultConsistent, HaltOn
  <2>3. CASE ~HaltOn
    <3>1. ASSUME NEW k \in Nodes
          PROVE  pass[k] > Steps
      <4>1. k < born
        <5>1. born = Z
          BY <2>3 DEF StopInv
        <5>2. QED
          BY <5>1, ZonesFacts DEF Nodes
      <4>2. pc[k] = "done"
        BY <2>1, <4>1 DEF StopInv, ReturnInv
      <4>3. QED
        BY <2>3, <4>2 DEF StopInv
    <3>2. ASSUME NEW h \in Passes
          PROVE  Recorded(h)
      <4>1. PICK k \in Nodes : PassOf(k, h)
        BY NodeOfPass
      <4>2. h < pass[k]
        <5>1. pass[k] \in Nat /\ h \in Nat /\ h <= Steps /\ Steps \in Nat
          BY <2>1, ZonesFacts DEF TypeOK, Passes
        <5>2. QED
          BY <3>1, <5>1
      <4>3. QED
        BY <4>1, <4>2 DEF StatsInv
    <3>3. \A i \in Zones : Collected(i)
      BY <3>2, ZonesFacts DEF FinalInv, Passes
    <3>4. ASSUME NEW e \in Nodes, chan[e] # <<>>
          PROVE  FALSE
      <4>1. chan[e] \in Seq(Messages)
        BY <2>1 DEF TypeOK
      <4>2. Len(chan[e]) \in Nat /\ Len(chan[e]) # 0
        BY <3>4, <4>1, EmptySeq, LenProperties
      <4>3. 1 \in 1 .. Len(chan[e])
        BY <4>2
      <4>4. chan[e][1] \in Messages
        BY <4>1, <4>3, ElementOfSeq
      <4>5. PICK i \in Zones : i = chan[e][1].zone
        BY <4>4 DEF Messages
      <4>6. Holds("queue", e, 1, i) /\ Holds("final", 0, 0, i)
        BY <3>3, <4>3, <4>5 DEF Holds, InQueue
      <4>7. /\ "queue" \in Kinds /\ "final" \in Kinds /\ "queue" # "final"
            /\ 0 \in Nodes /\ 0 \in Nat /\ 1 \in Nat
        BY ZonesFacts DEF Kinds, Nodes
      <4>8. QED
        BY <2>1, <4>6, <4>7 DEF OneHolder
    <3>5. QED
      BY <2>1, <2>3, <3>2, <3>3, <3>4 DEF ResultConsistent, HaltOn
  <2>4. QED
    BY <2>2, <2>3
<1>2. QED
  BY <1>1, PlacesAlways, RingAlways, ReportAlways, PTL

\* The conveyor, with any number of nodes and any interleaving of them, advances
\* the zones as the causal stencil allows: a zone takes a time step only when
\* each neighbour has finished the step before and none has gone past it.
THEOREM RefinesStencil == Spec => ImplementsStencil
<1>1. Stencil!Zones = Zones
  BY DEF Stencil!Zones, Zones
<1>2. \A i : Stencil!Adjacent(i) = Adjacent(i)
  BY <1>1 DEF Stencil!Adjacent, Stencil!CrossPartner, Adjacent, CrossPartner
<1>3. Init => Stencil!Init
  BY <1>1 DEF Init, Stencil!Init
<1>4. ConveyorInv /\ LevelInv /\ [Next]_vars => [Stencil!Next]_level
  <2> SUFFICES ASSUME ConveyorInv, LevelInv, [Next]_vars
               PROVE  Stencil!Next \/ level' = level
    OBVIOUS
  <2>1. ASSUME NEW k \in Nodes, NEW z \in Zones, Completes(k, z)
        PROVE  Stencil!Next
    <3>1. /\ pass[k] \in Passes /\ level[z] = pass[k] - 1
          /\ \A b \in Adjacent(z) : level[b] \in {pass[k] - 1, pass[k]}
      BY <2>1, CompletesLevels
    <3>2. level' = [level EXCEPT ![z] = pass[k]] /\ level \in [Zones -> Nat]
      BY <2>1 DEF Completes, ConveyorInv, ControlInv, TypeOK
    <3>3. pass[k] = level[z] + 1 /\ level[z] < Steps
      BY <3>1, ZonesFacts DEF Passes
    <3>4. \A b \in Adjacent(z) : level[b] \in {level[z], level[z] + 1}
      BY <3>1, <3>3
    <3>5. level' = [level EXCEPT ![z] = @ + 1]
      BY <3>2, <3>3
    <3>6. Stencil!Advance(z)
      BY <1>2, <3>3, <3>4, <3>5, SMTT(30) DEF Stencil!Advance
    <3>7. QED
      BY <1>1, <3>6 DEF Stencil!Next
  <2>2. ASSUME NEW k \in Nodes, ZoneStep(k), ~\E z \in Zones : Completes(k, z)
        PROVE  level' = level
    BY <2>2 DEF ZoneStep, Tidies, Begins, TakesPreload, TakesQueued, LeavesToQueue,
                LeavesToResult, Takes, Leaves
  <2>3. ASSUME NEW k \in Nodes, RecordPass(k)
        PROVE  level' = level
    BY <2>3 DEF RecordPass
  <2>4. CASE UNCHANGED vars
    BY <2>4 DEF vars
  <2>5. QED
    BY <2>1, <2>2, <2>3, <2>4, ZoneKinds DEF Still
<1>5. QED
  BY <1>3, <1>4, ConveyorAlways, RingAlways, PTL
     DEF Spec, ImplementsStencil, Stencil!Spec
=============================================================================
