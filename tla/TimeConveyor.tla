---------------------------- MODULE TimeConveyor ----------------------------
(***************************************************************************)
(* The time-decomposition conveyor on the CPU (include/tdmd/core/          *)
(* conveyor.hpp): Z node threads on a ring, node k executes the passes     *)
(* k+1, k+1+Z, ... (a pass is one time step of every zone) and hands each  *)
(* completed zone to the next node, which may run the next time step on it *)
(* while this node still works on the rest of the pass.                    *)
(*                                                                         *)
(* The data of a zone is that of PassData.  Physics decides only whether a *)
(* check fails; a check that may fail is a choice between the actions that *)
(* end a zone or a pass and NodeFault.                                     *)
(***************************************************************************)
EXTENDS PassData, Sequences, FiniteSets

CONSTANTS Z,       \* number of node threads
          Steps,   \* number of passes (time steps) to run
          Faults   \* the faults that may happen in a run

\* Halt::Internal stands for three different faults, kept apart here:
\* "Logic" (an exception the code throws when the protocol is broken),
\* "Overflow" (a fixed-point accumulator rejects a value) and "Spawn" (a
\* node thread cannot be created).
FaultKinds ==
  {"Overlap", "Causality", "StaleZone", "NonFiniteEnergy", "Overflow", "Spawn"}
HaltKinds == FaultKinds \cup {"None", "Logic"}

ASSUME ConveyorAssumption ==
  /\ Z \in Nat \ {0}
  /\ Steps \in Nat \ {0}
  /\ Faults \subseteq FaultKinds

Nodes == 0 .. Z - 1
Passes == 1 .. Steps

InEdge(k) == (k - 1 + Z) % Z
OutEdge(k) == k
\* Mutant: an edge too small for the zones of one pass.
CapacityOfRest == N - 1
Capacity == N + 2

-----------------------------------------------------------------------------
(* What travels, and the locals of a pass.                                  *)

Messages == [zone: Zones, step: Nat, pos: Nat, dt: TimeSteps,
             lam: Lambdas, body: Bodies]

MakePreload(j) ==
  [zone |-> j, step |-> 0, pos |-> j,
   dt |-> IF j = 0 THEN DtInitial ELSE NoDt,
   lam |-> FullLambda(0), body |-> CompleteBody(j, 0)]

\* One arrival position of a pass.  "owned" is FALSE before the zone arrives
\* and again once its message was moved to the transport or to the result.
Slots == [zone: Zones, fsm: ZoneRecords, owned: BOOLEAN, body: Bodies,
          acc: [Zones -> Nat], lam: Lambdas, drifted: BOOLEAN,
          computed: BOOLEAN]
EmptySlot ==
  [zone |-> 0, fsm |-> FreeZone, owned |-> FALSE, body |-> NoBody,
   acc |-> NoForces, lam |-> NoLambda, drifted |-> FALSE, computed |-> FALSE]

\* The locals of run_pass.
PassStates ==
  [pos: Zones, op: 1 .. 2, slot: [Zones -> Slots], outq: Seq(Zones),
   sent: Nat, arrived: 0 .. N, dt: TimeSteps, agg: Lambdas, rbuf: Lambdas]
FreshPass(h) ==
  [pos |-> 0, op |-> 1, slot |-> [j \in Zones |-> EmptySlot], outq |-> <<>>,
   sent |-> 0, arrived |-> 0, dt |-> NoDt,
   agg |-> [pass |-> h, zones |-> {}], rbuf |-> NoLambda]

NoResult == [halt |-> "None", steps_done |-> 0, has_final |-> FALSE]
Results == [halt: HaltKinds, steps_done: 0 .. Steps, has_final: BOOLEAN]

-----------------------------------------------------------------------------
VARIABLES
  pc,        \* control point of each node thread
  pass,      \* the pass each node is in, or will run next
  loc,       \* run_pass's locals at each node
  chan,      \* the zones queued on each edge of the ring
  closed,    \* RingTransport::shutdown has closed the edges 0 .. closed-1
  haltKind,  \* halt_on_ and halt_kind_: "None" until a halt is set
  haltPass,  \* the pass halt_msg_ names (0: none)
  stats,     \* PassStats, one per pass
  final,     \* the zones collected on the last pass
  main,      \* control point of run()
  born,      \* number of node threads run() has created
  result,    \* what run() returns
  level      \* history: the last pass in which each zone ended

haltVars == <<haltKind, haltPass>>
mainVars == <<main, born, result>>
vars == <<pc, pass, loc, chan, closed, haltKind, haltPass, stats, final, main,
          born, result, level>>

NodePoints ==
  {"unborn", "loop", "io", "check", "compute", "end", "endhead", "flush",
   "record", "closing", "done"}

HaltOn == haltKind # "None"
EdgeDown(e) == e < closed

Init ==
  /\ pc = [k \in Nodes |-> "unborn"]
  /\ pass = [k \in Nodes |-> k + 1]
  /\ loc = [k \in Nodes |-> FreshPass(0)]
  /\ chan = [e \in Nodes |-> <<>>]
  /\ closed = 0
  /\ haltKind = "None" /\ haltPass = 0
  /\ stats = [h \in Passes |-> NoStats]
  /\ final = [i \in Zones |-> NoBody]
  /\ main = "spawn" /\ born = 0 /\ result = NoResult
  /\ level = [i \in Zones |-> 0]

Goto(k, point) == pc' = [pc EXCEPT ![k] = point]

\* Mutant: set_halt without the compare-and-swap.
SetHaltAlways(k, kind) ==
  Goto(k, "closing") /\ haltKind' = kind /\ haltPass' = pass[k]

\* set_halt at a node: only the first halt is recorded, and its thread closes
\* the edges; every other thread just returns.
SetHalt(k, kind) ==
  IF HaltOn
    THEN Goto(k, "done") /\ UNCHANGED haltVars
    ELSE /\ Goto(k, "closing")
         /\ haltKind' = kind
         /\ haltPass' = pass[k]

-----------------------------------------------------------------------------
(* run(): create the threads, join them, report.                             *)

SpawnNode ==
  /\ main = "spawn"
  /\ Goto(born, "loop")
  /\ born' = born + 1
  /\ main' = IF born' = Z THEN "join" ELSE "spawn"
  /\ UNCHANGED <<pass, loc, chan, closed, haltVars, stats, final, result, level>>

SpawnFails ==
  /\ main = "spawn" /\ "Spawn" \in Faults
  /\ IF HaltOn
       THEN main' = "join" /\ UNCHANGED haltVars
       ELSE main' = "closing" /\ haltKind' = "Spawn" /\ haltPass' = 0
  /\ UNCHANGED <<pc, pass, loc, chan, closed, stats, final, born, result, level>>

MainClosesEdge ==
  /\ main = "closing"
  /\ closed' = closed + 1
  /\ main' = IF closed' = Z THEN "join" ELSE "closing"
  /\ UNCHANGED <<pc, pass, loc, chan, haltVars, stats, final, born, result, level>>

Recorded(h) == stats[h] # NoStats

\* Mutant: the written records are counted, gaps included.
RecordsWritten == Cardinality({h \in Passes : Recorded(h)})

\* The longest prefix of passes whose record was written.
StepsDone ==
  CHOOSE d \in 0 .. Steps :
    /\ \A h \in 1 .. d : Recorded(h)
    /\ d < Steps => ~Recorded(d + 1)

Join ==
  /\ main = "join"
  /\ \A k \in 0 .. born - 1 : pc[k] = "done"
  /\ main' = "returned"
  /\ result' = [halt       |-> haltKind,
                steps_done |-> IF HaltOn THEN StepsDone ELSE Steps,
                has_final  |-> ~HaltOn]
  /\ UNCHANGED <<pc, pass, loc, chan, closed, haltVars, stats, final, born, level>>

-----------------------------------------------------------------------------
(* node_main and the arrivals of run_pass.                                   *)

NodeReturns(k) ==
  /\ pc[k] = "loop"
  /\ pass[k] > Steps \/ HaltOn
  /\ Goto(k, "done")
  /\ UNCHANGED <<pass, loc, chan, closed, haltVars, stats, final, mainVars, level>>

StartPass(k) ==
  /\ pc[k] = "loop"
  /\ pass[k] <= Steps /\ ~HaltOn
  /\ loc' = [loc EXCEPT ![k] = FreshPass(pass[k])]
  /\ Goto(k, "io")
  /\ UNCHANGED <<pass, chan, closed, haltVars, stats, final, mainVars, level>>

CurrentOp(k) == NodeIoOrder(k + 1)[loc[k].op]

\* Past the current SEND or RECV of a subinterval.
NextOp(k) == IF loc[k].op = 1 THEN "io" ELSE "check"

\* ensure_arrival is called by the RECV operation and again by compute_zone.
AwaitsArrival(k) ==
  /\ pc[k] = "compute" \/ (pc[k] = "io" /\ CurrentOp(k) = "RECV")
  /\ loc[k].arrived <= LastNeeded(loc[k].pos)

InOrder(k, m) ==
  /\ m.zone = ZoneAt(pass[k], loc[k].arrived)
  /\ m.step = pass[k] - 1
  /\ m.pos = loc[k].arrived

\* The RECV event of a zone that came over the ring; a preloaded zone starts
\* as its node's initial type.
ArrivedZone(k) ==
  IF pass[k] = 1
    THEN [FreeZone EXCEPT !.type = InitialZoneType(1)]
    ELSE Apply(FreeZone, "RECV")

Accept(k, m) ==
  LET p == loc[k]
      a == p.arrived
  IN  [p EXCEPT
        !.slot[a] = [EmptySlot EXCEPT !.zone = m.zone, !.fsm = ArrivedZone(k),
                                      !.owned = TRUE, !.body = m.body,
                                      !.lam = m.lam],
        !.dt = IF a = 0 THEN m.dt ELSE @,
        !.rbuf = IF a = ForecastPosition THEN m.lam ELSE @,
        !.arrived = a + 1]

TakeArrival(k, m) ==
  IF InOrder(k, m)
    THEN /\ loc' = [loc EXCEPT ![k] = Accept(k, m)]
         /\ UNCHANGED <<pc, haltVars>>
    ELSE SetHalt(k, "Logic") /\ UNCHANGED loc

TakePreload(k) ==
  /\ AwaitsArrival(k) /\ pass[k] = 1
  /\ TakeArrival(k, MakePreload(loc[k].arrived))
  /\ UNCHANGED <<pass, chan, closed, stats, final, mainVars, level>>

RecvZone(k) ==
  LET e == InEdge(k)
  IN  /\ AwaitsArrival(k) /\ pass[k] # 1
      /\ ~EdgeDown(e) /\ chan[e] # <<>>
      /\ TakeArrival(k, Head(chan[e]))
      /\ chan' = [chan EXCEPT ![e] = Tail(@)]
      /\ UNCHANGED <<pass, closed, stats, final, mainVars, level>>

\* recv returns false on a closed edge, even if zones are queued there.
RecvShutDown(k) ==
  /\ AwaitsArrival(k) /\ pass[k] # 1
  /\ EdgeDown(InEdge(k))
  /\ Goto(k, "done")
  /\ UNCHANGED <<pass, loc, chan, closed, haltVars, stats, final, mainVars, level>>

RecvDone(k) ==
  /\ pc[k] = "io" /\ CurrentOp(k) = "RECV"
  /\ loc[k].arrived > LastNeeded(loc[k].pos)
  /\ Goto(k, NextOp(k))
  /\ loc' = [loc EXCEPT ![k].op = 2]
  /\ UNCHANGED <<pass, chan, closed, haltVars, stats, final, mainVars, level>>

-----------------------------------------------------------------------------
(* flush_sends: the ended zones leave in the order they ended.               *)

Flushing(k) ==
  pc[k] = "flush" \/ (pc[k] = "io" /\ CurrentOp(k) = "SEND")

\* Mutant: each zone forwards the Lambda it arrived with.
LambdaForwarded(p) == p.slot[p.sent].lam

\* Lambda_out of the zone sent next: Lambda_in of the arrival after it; the
\* last zone carries the aggregate of this pass.
LambdaOut(p) ==
  IF p.sent + 1 < N THEN p.slot[p.sent + 1].lam ELSE p.agg

\* Mutant: the time step decided from the aggregate of the running pass.
DtFromRunningPass(p) == IF p.sent = 0 THEN AutoDt(p.agg, p.dt) ELSE NoDt

\* The time step of the next pass is decided with the first zone sent.
DtOut(p) == IF p.sent = 0 THEN AutoDt(LambdaOut(p), p.dt) ELSE NoDt

OutMessage(k) ==
  LET p == loc[k]
      s == p.slot[Head(p.outq)]
  IN  [zone |-> s.zone, step |-> pass[k], pos |-> p.sent, dt |-> DtOut(p),
       lam |-> LambdaOut(p), body |-> s.body]

\* Mutant: the message is copied to the transport, not moved.
CopiedOut(s) == s
MovedOut(s) == [s EXCEPT !.owned = FALSE, !.body = NoBody]
SentSlot(s) == [MovedOut(s) EXCEPT !.fsm = Apply(@, "SEND")]

\* A closed edge swallows the zone; a full one blocks the sender.
SendZone(k) ==
  LET j == Head(loc[k].outq)
      e == OutEdge(k)
  IN  /\ Flushing(k) /\ loc[k].outq # <<>> /\ pass[k] # Steps
      /\ IF Allowed(loc[k].slot[j].fsm.type, "SEND")
           THEN /\ EdgeDown(e) \/ Len(chan[e]) < Capacity
                /\ chan' = IF EdgeDown(e) THEN chan
                           ELSE [chan EXCEPT ![e] = Append(@, OutMessage(k))]
                /\ loc' = [loc EXCEPT
                             ![k].outq = Tail(@), ![k].sent = @ + 1,
                             ![k].slot[j] = SentSlot(@)]
                /\ UNCHANGED <<pc, haltVars>>
           ELSE SetHalt(k, "Logic") /\ UNCHANGED <<chan, loc>>
      /\ UNCHANGED <<pass, closed, stats, final, mainVars, level>>

\* The ring ends at the last pass: the zone is handed to the result.
CollectZone(k) ==
  LET j == Head(loc[k].outq)
      s == loc[k].slot[j]
  IN  /\ Flushing(k) /\ loc[k].outq # <<>> /\ pass[k] = Steps
      /\ final' = [final EXCEPT ![s.zone] = s.body]
      /\ loc' = [loc EXCEPT ![k].outq = Tail(@), ![k].slot[j] = MovedOut(@)]
      /\ UNCHANGED <<pc, pass, chan, closed, haltVars, stats, mainVars, level>>

\* The relaxed load of halt_on_ may miss a halt set by another thread.
FlushDone(k) ==
  /\ Flushing(k) /\ loc[k].outq = <<>>
  /\ Goto(k, IF pc[k] = "flush" THEN "record" ELSE NextOp(k))
  /\ loc' = IF pc[k] = "flush" THEN loc ELSE [loc EXCEPT ![k].op = 2]
  /\ UNCHANGED <<pass, chan, closed, haltVars, stats, final, mainVars, level>>

FlushSeesHalt(k) ==
  /\ Flushing(k) /\ loc[k].outq = <<>> /\ HaltOn
  /\ Goto(k, "done")
  /\ UNCHANGED <<pass, loc, chan, closed, haltVars, stats, final, mainVars, level>>

HaltCheck(k) ==
  /\ pc[k] = "check"
  /\ Goto(k, IF HaltOn THEN "done" ELSE "compute")
  /\ UNCHANGED <<pass, loc, chan, closed, haltVars, stats, final, mainVars, level>>

-----------------------------------------------------------------------------
(* compute_zone and end_zone.                                                *)

\* Mutant: the drifted mark is not tested.
DriftAlways(s) ==
  [s EXCEPT !.body.x = @ + 1, !.body.v = @ + 1, !.acc = NoForces,
            !.drifted = TRUE]

\* ensure_drift: first half of velocity Verlet, and a cleared force matrix.
Drift(s) ==
  IF s.drifted THEN s
  ELSE [s EXCEPT !.body.x = @ + 1, !.body.v = @ + 1, !.acc = NoForces,
                 !.drifted = TRUE]

\* The pairs of s with zone t are counted on s only if both hold their atoms,
\* at positions of the same time.
CountPairs(s, t) ==
  IF s.owned /\ t.owned /\ s.body.x = t.body.x
    THEN [s EXCEPT !.acc[t.zone] = @ + 1] ELSE s

\* START, the internal pairs, and the computed mark of the zone at position j.
StartZone(s, j) ==
  LET seeded == IF j = 0 THEN SeedFirstZone(s.fsm) ELSE s.fsm
  IN  [CountPairs(s, s) EXCEPT !.fsm = Apply(seeded, "START"), !.computed = TRUE]

\* The exceptions compute_zone may throw: INV-1 and a forbidden FSM event.
ComputeLegal(p) ==
  LET j == p.pos
      first == IF j = 0 THEN "SPHERE" ELSE "START"
  IN  /\ j > 0 => p.slot[j - 1].computed
      /\ Allowed(p.slot[j].fsm.type, first)
      /\ j + 1 < N => Allowed(p.slot[j + 1].fsm.type, "SPHERE")

\* The contribution of position j on its partner's force is marked there.
TakeSphere(s) ==
  [s EXCEPT !.fsm = Contribute(Apply(@, "SPHERE"), "prev")]
TakeClosure(s) == [s EXCEPT !.fsm = Contribute(@, "closure")]

\* The slots after the pair passes of position j: with its successor in the
\* pass or, for the tail of a periodic ring, with the head held back for it.
ComputedSlots(p) ==
  LET j == p.pos
      own == Drift(p.slot[j])
      next == Drift(p.slot[j + 1])
      head == p.slot[0]
  IN  IF j + 1 < N
        THEN [p.slot EXCEPT
               ![j] = CountPairs(StartZone(own, j), next),
               ![j + 1] = TakeSphere(CountPairs(next, own))]
      ELSE IF DeferHead
        THEN [p.slot EXCEPT
               ![j] = CountPairs(StartZone(own, j), head),
               ![0] = TakeClosure(CountPairs(head, own))]
      ELSE [p.slot EXCEPT ![j] = StartZone(own, j)]

\* After position j: the next subinterval, or the last flush of the pass.
NextPosition(p) ==
  IF p.pos + 1 < N THEN [p EXCEPT !.pos = @ + 1, !.op = 1] ELSE p
AfterPosition(p) == IF p.pos + 1 < N THEN "io" ELSE "flush"

ComputeZone(k) ==
  LET p == loc[k]
      q == [p EXCEPT !.slot = ComputedSlots(p)]
      held == DeferHead /\ p.pos = 0
  IN  /\ pc[k] = "compute" /\ p.arrived > LastNeeded(p.pos)
      /\ IF ComputeLegal(p)
           THEN /\ loc' = [loc EXCEPT ![k] = IF held THEN NextPosition(q) ELSE q]
                /\ Goto(k, IF held THEN AfterPosition(p) ELSE "end")
                /\ UNCHANGED haltVars
           ELSE SetHalt(k, "Logic") /\ UNCHANGED loc
      /\ UNCHANGED <<pass, chan, closed, stats, final, mainVars, level>>

\* The position end_zone is called for: the current one, then the held head.
EndPosition(k) == IF pc[k] = "end" THEN loc[k].pos ELSE 0

\* Forces reduced, second half-kick, END.
EndedSlot(s) ==
  [s EXCEPT !.body = Kicked(@, s.acc), !.fsm = Apply(@, "END")]

\* Folded into the aggregate of the pass and queued for sending.
EndedPass(p, j) ==
  [p EXCEPT !.slot[j] = EndedSlot(@),
            !.agg.zones = @ \cup {p.slot[j].zone},
            !.outq = Append(@, j)]

EndZone(k) ==
  LET p == loc[k]
      j == EndPosition(k)
      q == EndedPass(p, j)
      more == pc[k] = "end" /\ DeferHead /\ j = N - 1
  IN  /\ pc[k] \in {"end", "endhead"}
      /\ IF EndLegal(p.slot[j].fsm, j)
           THEN /\ loc' = [loc EXCEPT ![k] = IF more THEN q ELSE NextPosition(q)]
                /\ Goto(k, IF more THEN "endhead" ELSE AfterPosition(p))
                /\ level' = [level EXCEPT ![p.slot[j].zone] = pass[k]]
                /\ UNCHANGED haltVars
           ELSE SetHalt(k, "Logic") /\ UNCHANGED <<loc, level>>
      /\ UNCHANGED <<pass, chan, closed, stats, final, mainVars>>

\* A check fails: an accumulator in compute_zone, one of end_zone's checks, or
\* the energy check, which comes after the last zone of the pass was sent.
FaultsAt(point) ==
  Faults \cap
    CASE point = "compute" -> {"Overflow"}
      [] point \in {"end", "endhead"} ->
           {"Overlap", "Causality"} \cup (IF N >= 3 THEN {"StaleZone"} ELSE {})
      [] point = "record" -> {"NonFiniteEnergy"}
      [] OTHER -> {}

\* Mutant: the record of the pass is written before the energy check.
NodeFaultAfterRecord(k) ==
  /\ ~AwaitsArrival(k)
  /\ \E kind \in FaultsAt(pc[k]) : SetHalt(k, kind)
  /\ stats' = IF pc[k] = "record"
              THEN [stats EXCEPT ![pass[k]] = [dt |-> loc[k].dt, agg |-> loc[k].agg]]
              ELSE stats
  /\ UNCHANGED <<pass, loc, chan, closed, final, mainVars, level>>

NodeFault(k) ==
  /\ ~AwaitsArrival(k)
  /\ \E kind \in FaultsAt(pc[k]) : SetHalt(k, kind)
  /\ UNCHANGED <<pass, loc, chan, closed, stats, final, mainVars, level>>

\* Mutant: the loop over the passes of the node does not advance.
RecordPassAgain(k) ==
  /\ pc[k] = "record"
  /\ stats' = [stats EXCEPT ![pass[k]] = [dt |-> loc[k].dt, agg |-> loc[k].agg]]
  /\ Goto(k, "loop")
  /\ UNCHANGED <<pass, loc, chan, closed, haltVars, final, mainVars, level>>

RecordPass(k) ==
  /\ pc[k] = "record"
  /\ stats' = [stats EXCEPT ![pass[k]] = [dt |-> loc[k].dt, agg |-> loc[k].agg]]
  /\ pass' = [pass EXCEPT ![k] = @ + Z]
  /\ Goto(k, "loop")
  /\ UNCHANGED <<loc, chan, closed, haltVars, final, mainVars, level>>

\* Mutant: the last edge stays open.
CloseEdgeButLast(k) ==
  /\ pc[k] = "closing"
  /\ closed' = IF closed + 1 = Z THEN closed ELSE closed + 1
  /\ Goto(k, IF closed + 1 = Z THEN "done" ELSE "closing")
  /\ UNCHANGED <<pass, loc, chan, haltVars, stats, final, mainVars, level>>

\* The thread that set the halt closes the edges one after the other.
CloseEdge(k) ==
  /\ pc[k] = "closing"
  /\ closed' = closed + 1
  /\ Goto(k, IF closed' = Z THEN "done" ELSE "closing")
  /\ UNCHANGED <<pass, loc, chan, haltVars, stats, final, mainVars, level>>

-----------------------------------------------------------------------------
NodeStep(k) ==
  \/ NodeReturns(k) \/ StartPass(k)
  \/ TakePreload(k) \/ RecvZone(k) \/ RecvShutDown(k) \/ RecvDone(k)
  \/ SendZone(k) \/ CollectZone(k) \/ FlushDone(k) \/ FlushSeesHalt(k)
  \/ HaltCheck(k) \/ ComputeZone(k) \/ EndZone(k)
  \/ NodeFault(k) \/ RecordPass(k) \/ CloseEdge(k)

MainStep == SpawnNode \/ SpawnFails \/ MainClosesEdge \/ Join

Returned == main = "returned" /\ UNCHANGED vars

Next == MainStep \/ (\E k \in Nodes : NodeStep(k)) \/ Returned

Spec == Init /\ [][Next]_vars

\* Every thread that can run is eventually scheduled.
FairSpec ==
  Spec /\ WF_vars(MainStep) /\ \A k \in Nodes : WF_vars(NodeStep(k))

-----------------------------------------------------------------------------
(* Properties.                                                               *)

TypeOK ==
  /\ pc \in [Nodes -> NodePoints]
  /\ pass \in [Nodes -> Nat]
  /\ loc \in [Nodes -> PassStates]
  /\ chan \in [Nodes -> Seq(Messages)]
  /\ closed \in 0 .. Z
  /\ haltKind \in HaltKinds
  /\ haltPass \in Nat
  /\ stats \in [Passes -> PassRecords]
  /\ final \in [Zones -> Bodies]
  /\ main \in {"spawn", "closing", "join", "returned"}
  /\ born \in 0 .. Z
  /\ result \in Results
  /\ level \in [Zones -> Nat]

\* No exception of the ring protocol is ever thrown: zones never arrive out of
\* order, no FSM event is forbidden, INV-1 and the contribution mask of INV-3
\* hold at every START and END, on every interleaving and in every unwinding.
NoLogicError == haltKind # "Logic"

\* A zone in flight, or collected, is at one whole time step: positions,
\* velocities and a force that counts each interacting zone exactly once
\* (INV-3 and INV-8 across the hand-over between nodes).
WholeZones ==
  /\ \A e \in Nodes : \A q \in 1 .. Len(chan[e]) :
       LET m == chan[e][q] IN m.body = CompleteBody(m.zone, m.step)
  /\ \A i \in Zones : final[i] # NoBody => final[i] = CompleteBody(i, Steps)

\* The Lambda-chain: the j-th zone that pass h sends carries the aggregate of
\* pass h-(n-1-j), complete over all zones, whatever the number of nodes
\* (transport.hpp's header comment).
LambdaChain ==
  \A e \in Nodes : \A q \in 1 .. Len(chan[e]) :
    LET m == chan[e][q] IN m.lam = FullLambda(Lag(m.step + 1 + m.pos))

\* The time step recorded for pass h is auto_dt of the one before and the
\* aggregate of pass h-n (the oracle beside PassStats); so it is the same for
\* every number of nodes.
RecordedPassesExact ==
  \A h \in Passes :
    Recorded(h) =>
      /\ stats[h] = [dt |-> ScheduledDt(h), agg |-> FullLambda(h)]
      /\ \A i \in Zones : level[i] >= h

\* The forecast that INV-4 tests is made before the first zone ends, and from
\* an aggregate no older than the ramp cover assumes (max(1, n-1) passes).
ForecastCoversAge ==
  \A k \in Nodes :
    pc[k] \in {"end", "endhead"} =>
      /\ loc[k].rbuf.zones = Zones
      /\ pass[k] - loc[k].rbuf.pass <= (IF N = 1 THEN 1 ELSE N - 1)

\* Every zone has exactly one holder: node 0's preload, a queue, a slot or the
\* result (INV-6, conservation of zones), until a halt starts to drop them.
QueuePlaces(i) ==
  {w \in Nodes \X (1 .. N + 2) :
     w[2] <= Len(chan[w[1]]) /\ chan[w[1]][w[2]].zone = i}
SlotPlaces(i) ==
  {w \in Nodes \X Zones :
     loc[w[1]].slot[w[2]].owned /\ loc[w[1]].slot[w[2]].zone = i}
InPreload(i) == pass[0] = 1 /\ loc[0].arrived <= i
Collected(i) == final[i] # NoBody
ZoneConserved ==
  ~HaltOn =>
    \A i \in Zones :
      Cardinality(QueuePlaces(i)) + Cardinality(SlotPlaces(i))
        + (IF InPreload(i) THEN 1 ELSE 0) + (IF Collected(i) THEN 1 ELSE 0) = 1

\* Backpressure never acts: whenever a node has a zone to send, its out edge has
\* room (the reason for the capacity n+2), so a send never waits for a receive.
SendNeverBlocks ==
  \A k \in Nodes :
    Flushing(k) /\ loc[k].outq # <<>> /\ pass[k] # Steps =>
      EdgeDown(OutEdge(k)) \/ Len(chan[OutEdge(k)]) < Capacity

\* The pass that set the halt never gets a record, so it is not counted in
\* steps_done, although its zones may all have been sent and used
\* (ConveyorResult: "the halting pass is out").
HaltedPassUnrecorded ==
  haltPass # 0 => ~Recorded(haltPass) /\ result.steps_done < haltPass

\* What run() reports.  Without a halt: every pass is recorded, every zone was
\* collected at the last pass and no zone is left on the ring.  With one: the
\* passes counted are all recorded, the next one is not, and no atoms are
\* scattered back.
ResultConsistent ==
  main = "returned" =>
    IF result.halt = "None"
      THEN /\ \A h \in Passes : Recorded(h)
           /\ \A i \in Zones : Collected(i)
           /\ \A e \in Nodes : chan[e] = <<>>
      ELSE /\ ~result.has_final
           /\ closed = Z
           /\ \A h \in 1 .. result.steps_done : Recorded(h)

\* The reported halt is the first one raised: neither its kind nor the pass it
\* names ever changes, and an edge is closed only after it was set.
FirstHaltWins ==
  [][(HaltOn => UNCHANGED haltVars) /\ (closed' # closed => HaltOn)]_vars

\* run() returns: no node waits for a zone, or for room on its out edge, for
\* ever, with or without faults.
Termination == <>(main = "returned")

\* The zones advance as the serial time loop allows.
Stencil == INSTANCE CausalStencil
             WITH N <- N, Pbc <- Pbc, Steps <- Steps, level <- level
ImplementsStencil == Stencil!Spec

=============================================================================
