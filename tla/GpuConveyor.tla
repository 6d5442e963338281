----------------------------- MODULE GpuConveyor -----------------------------
(***************************************************************************)
(* The conveyor on GPU streams (include/tdmd/cuda/conveyor_gpu.cuh): the   *)
(* protocol of TimeConveyor with the zones in device slots.  A header      *)
(* travels through a host channel, its payload is copied into a slot of    *)
(* the consumer named by a credit, and events order the copies; checks are *)
(* made once per pass, before its last zone leaves.  The ring may be cut   *)
(* into ranks joined by MpiRingEdge; payloads then go through host memory. *)
(* A ring of one node has a single pool and no credits.                    *)
(***************************************************************************)
EXTENDS PassData, MpiRingEdge, FiniteSets

CONSTANTS Z,       \* number of nodes, over all ranks
          Steps,   \* number of passes
          Faults   \* the faults that may happen

\* Found by sync_check, by a CUDA call, by the checks after the last flush;
\* "Range" is the overflow of the mixed-precision wire format; "Spawn" is a
\* thread that cannot be created.
SyncKinds == {"Overlap", "Overflow", "StaleZone", "Causality"}
RecordKinds == {"NonFiniteEnergy", "Range"}
FaultKinds == SyncKinds \cup RecordKinds \cup {"Device", "Spawn"}
\* "Ring" is a halt that came from another rank.
HaltKinds == FaultKinds \cup {"None", "Logic", "Ring"}

ASSUME GpuAssumption ==
  /\ Z \in Nat \ {0} /\ Steps \in Nat \ {0}
  /\ Heads \subseteq 0 .. Z - 1
  /\ Faults \subseteq FaultKinds

Nodes == 0 .. Z - 1
Passes == 1 .. Steps

RankOf(k) == Max({r \in Heads : r <= k})
Mpi == Ranks > 1
BoundaryIn(k) == Mpi /\ k \in Heads
Consumer(k) == (k + 1) % Z
InEdge(k) == (k - 1 + Z) % Z
BoundaryOut(k) == BoundaryIn(Consumer(k))
EdgesOf(r) == {e \in Nodes : RankOf(e) = r}
SelfLoop == Z = 1

-----------------------------------------------------------------------------
(* Slot pools: S_ slots per node.  W of those of node 0 are the reserve its  *)
(* pass-1 uploads use; the others are credits at the producer or, behind a   *)
(* boundary, a free list of the node.  The reserve of a self-loop is all.    *)

\* Mutant: the constant pool the comment above S_ reports as wedged.
SlotsOfWindow == IF N + 2 < 8 THEN N + 2 ELSE 8
SlotCount ==
  IF SelfLoop THEN N + 2 ELSE Min({N + 2, Max({8, (N + Z - 1) \div Z + 4})})
SlotIds == 0 .. SlotCount - 1

\* Mutant: a reserve of two slots.
ReserveOfTwo == 2
ReserveCount == IF SelfLoop THEN SlotCount ELSE Min({N, 6})
Circulating(k) == SlotCount - (IF k = 0 THEN ReserveCount ELSE 0)

SlotRange(lo, hi) == [q \in 1 .. hi - lo |-> lo + q - 1]

\* Places of the device, by node: its slots and its pinned host buffers.
InStage == -1
OutStage == -2
EndScalars == -3
DevicePlaces == Nodes \X (EndScalars .. SlotCount - 1)

FreeEvent(k, s) == <<"free", k, s>>
ArrivalEvent(k, s) == <<"arrival", k, s>>
InEvent(k) == <<"in", k, 0>>
DeviceEvents == ({"free", "arrival"} \X Nodes \X SlotIds) \cup
                {InEvent(k) : k \in Nodes}

\* The packed image of a zone in a slot, its force accumulators included.
ZoneImages == [zone: Zones, body: Bodies, acc: [Zones -> Nat]]
BlankImage == [zone |-> 0, body |-> NoBody, acc |-> NoForces]
T0Image(i) == [zone |-> i, body |-> CompleteBody(i, 0), acc |-> NoForces]

INSTANCE GpuStreams
  WITH Streams <- Nodes, Places <- DevicePlaces, Events <- DeviceEvents,
       Images <- ZoneImages, Blank <- BlankImage

-----------------------------------------------------------------------------
(* Host-side data.  "dev" is the device slot of an arrival; NoSlot, none.    *)

NoSlot == -1
PassSlots == [zone: Zones, fsm: ZoneRecords, dev: SlotIds \cup {NoSlot},
              lam: Lambdas, drifted: BOOLEAN, computed: BOOLEAN]
EmptySlot == [zone |-> 0, fsm |-> FreeZone, dev |-> NoSlot, lam |-> NoLambda,
              drifted |-> FALSE, computed |-> FALSE]

\* The locals of run_pass; dst: the slot the next zone was copied to.
PassStates ==
  [pos: Zones, op: 1 .. 2, slot: [Zones -> PassSlots], outq: Seq(Zones),
   ended: SUBSET Zones, synced: BOOLEAN, sent: Nat, arrived: 0 .. N,
   dt: TimeSteps, agg: Lambdas, rbuf: Lambdas, dst: SlotIds \cup {NoSlot}]
FreshPass(h) ==
  [pos |-> 0, op |-> 1, slot |-> [j \in Zones |-> EmptySlot], outq |-> <<>>,
   ended |-> {}, synced |-> FALSE, sent |-> 0, arrived |-> 0, dt |-> NoDt,
   agg |-> [pass |-> h, zones |-> {}], rbuf |-> NoLambda, dst |-> NoSlot]

\* A header; "slot" is dst_slot.  Across a boundary the payload goes with it.
Headers == [zone: Zones, step: Nat, pos: Nat, dt: TimeSteps, lam: Lambdas,
            slot: SlotIds]
WireMessages == [zone: Zones, step: Nat, pos: Nat \cup {-1}, dt: TimeSteps,
                 lam: Lambdas, body: Bodies, buf: Nat]
BlankMessage == [zone |-> 0, step |-> 0, pos |-> 0, dt |-> NoDt,
                 lam |-> NoLambda, body |-> NoBody, buf |-> 0]

NoResult == [halt |-> "None", steps_done |-> 0, has_final |-> FALSE]
Results == [halt: HaltKinds, steps_done: 0 .. Steps, has_final: BOOLEAN]

VARIABLES
  pc, pass, loc,        \* of each node: control point, pass, run_pass's locals
  chan, credits,        \* of each edge inside a rank: headers, free slots
  closed,               \* the edges StreamTransport::shutdown has closed
  bfree, reserve,       \* bfree_ of each boundary-fed node, p1free_
  dev,                  \* the device
  haltKind, haltPass,   \* of each rank: halt_kind_, the pass halt_msg_ names
  stats, final,         \* recorded passes, zones landed on the host
  result,               \* what run() returned on each rank
  level                 \* history: the last pass in which each zone ended

nodeVars == <<pc, pass, loc>>
laneVars == <<chan, credits, closed>>
poolVars == <<bfree, reserve>>
haltVars == <<haltKind, haltPass>>
endVars == <<stats, final, result>>
vars == <<nodeVars, laneVars, poolVars, dev, haltVars, linkVars, endVars, level>>

NodePoints ==
  {"loop", "io", "compute", "endhead", "flush", "finish", "record", "closing", "poison",
   "done"}

HaltOn(r) == haltKind[r] # "None"
EdgeDown(e) == e \in closed

Init ==
  /\ pc = [k \in Nodes |-> "loop"]
  /\ pass = [k \in Nodes |-> k + 1]
  /\ loc = [k \in Nodes |-> FreshPass(0)]
  /\ chan = [e \in Nodes |-> <<>>]
  /\ credits = [e \in Nodes |-> IF BoundaryOut(e) THEN <<>>
                                ELSE SlotRange(0, Circulating(Consumer(e)))]
  /\ closed = {}
  /\ bfree = [k \in Nodes |-> IF BoundaryIn(k) THEN SlotRange(0, Circulating(k))
                              ELSE <<>>]
  /\ reserve = SlotRange(Circulating(0), SlotCount)
  /\ dev = IdleDevice
  /\ haltKind = [r \in Heads |-> "None"] /\ haltPass = [r \in Heads |-> 0]
  /\ InitLinks
  /\ stats = [h \in Passes |-> NoStats]
  /\ final = [i \in Zones |-> NoBody]
  /\ result = [r \in Heads |-> NoResult]
  /\ level = [i \in Zones |-> 0]

Goto(k, point) == pc' = [pc EXCEPT ![k] = point]

\* set_halt: the first halt of the rank is recorded and its thread closes the
\* rank's edges; the thread of a later one just returns.
SetHalt(k, kind) ==
  LET r == RankOf(k)
  IN  IF HaltOn(r)
        THEN Goto(k, "done") /\ UNCHANGED haltVars
        ELSE /\ Goto(k, "closing")
             /\ haltKind' = [haltKind EXCEPT ![r] = kind]
             /\ haltPass' = [haltPass EXCEPT ![r] = pass[k]]

-----------------------------------------------------------------------------
(* node_main and the arrivals of run_pass.                                   *)

NodeReturns(k) ==
  /\ pc[k] = "loop"
  /\ pass[k] > Steps \/ HaltOn(RankOf(k))
  /\ Goto(k, "done")
  /\ UNCHANGED <<pass, loc, laneVars, poolVars, dev, haltVars, linkVars,
                 endVars, level>>

StartPass(k) ==
  /\ pc[k] = "loop"
  /\ pass[k] <= Steps /\ ~HaltOn(RankOf(k))
  /\ loc' = [loc EXCEPT ![k] = FreshPass(pass[k])]
  /\ Goto(k, "io")
  /\ UNCHANGED <<pass, laneVars, poolVars, dev, haltVars, linkVars, endVars, level>>

CurrentOp(k) == NodeIoOrder(k + 1)[loc[k].op]
NextOp(k) == IF loc[k].op = 1 THEN "io" ELSE "compute"

AwaitsArrival(k) ==
  /\ pc[k] = "io" /\ CurrentOp(k) = "RECV"
  /\ loc[k].arrived <= LastNeeded(loc[k].pos)

InOrder(k, m) ==
  /\ m.zone = ZoneAt(pass[k], loc[k].arrived)
  /\ m.step = pass[k] - 1
  /\ m.pos = loc[k].arrived

\* A zone takes its place in the pass, in device slot s.
Arrive(k, s, fsm, lam, dt) ==
  LET a == loc[k].arrived
  IN  loc' = [loc EXCEPT
                ![k].slot[a] = [EmptySlot EXCEPT !.zone = ZoneAt(pass[k], a),
                                  !.fsm = fsm, !.dev = s, !.lam = lam],
                ![k].dt = IF a = 0 THEN dt ELSE @,
                ![k].rbuf = IF a = ForecastPosition THEN lam ELSE @,
                ![k].arrived = a + 1]

\* Mutant: every node starts its first pass from t0.
PreloadsFirst(k) == pass[k] <= Z
Preloads(k) == pass[k] = 1

\* Node 0 uploads the zones of pass 1 one by one, through the reserve.
TakePreload(k) ==
  LET s == Head(reserve)
      i == ZoneAt(1, loc[k].arrived)
  IN  /\ AwaitsArrival(k) /\ Preloads(k)
      /\ IF reserve = <<>>
           THEN SetHalt(k, "Logic") /\ UNCHANGED <<loc, reserve, dev>>
           ELSE /\ Arrive(k, s, [FreeZone EXCEPT !.type = InitialZoneType(1)],
                          FullLambda(0), DtInitial)
                /\ reserve' = Tail(reserve)
                /\ dev' = Kernel(dev, k, {}, <<k, s>>, LAMBDA mem : T0Image(i))
                /\ UNCHANGED <<pc, haltVars>>
      /\ UNCHANGED <<pass, laneVars, bfree, linkVars, endVars, level>>

\* The header names the slot; the stream waits for the copy into it.
RecvZone(k) ==
  LET e == InEdge(k)
      m == Head(chan[e])
  IN  /\ AwaitsArrival(k) /\ ~Preloads(k) /\ ~BoundaryIn(k)
      /\ ~EdgeDown(e) /\ chan[e] # <<>>
      /\ chan' = [chan EXCEPT ![e] = Tail(@)]
      /\ IF InOrder(k, m)
           THEN /\ Arrive(k, m.slot, Apply(FreeZone, "RECV"), m.lam, m.dt)
                /\ dev' = WaitEvent(dev, k, ArrivalEvent(k, m.slot))
                /\ UNCHANGED <<pc, haltVars>>
           ELSE SetHalt(k, "Logic") /\ UNCHANGED <<loc, dev>>
      /\ UNCHANGED <<pass, credits, closed, poolVars, linkVars, endVars, level>>

RecvShutDown(k) ==
  /\ AwaitsArrival(k) /\ ~Preloads(k) /\ ~BoundaryIn(k)
  /\ EdgeDown(InEdge(k))
  /\ Goto(k, "done")
  /\ UNCHANGED <<pass, loc, laneVars, poolVars, dev, haltVars, linkVars,
                 endVars, level>>

WireImage(m) == [BlankImage EXCEPT !.zone = m.zone, !.body = m.body]

\* Mutant: the staging buffer is refilled without waiting for its last copy.
StageUnawaited(k, m) == HostWrite(dev, k, <<k, InStage>>, WireImage(m))

\* Host bytes of a boundary arrival are received into the staging buffer once
\* its last copy is over.
Stage(k, m) ==
  HostWrite(EventSync(dev, k, InEvent(k)), k, <<k, InStage>>, WireImage(m))

Unstage(d, k, s) ==
  Record(Kernel(d, k, {<<k, InStage>>}, <<k, s>>, LAMBDA mem : mem[<<k, InStage>>]),
         k, InEvent(k))

\* The node picks the slot from its own free list.
RecvBoundary(k) ==
  LET r == RankOf(k)
      m == Head(link[r])
  IN  /\ AwaitsArrival(k) /\ ~Preloads(k) /\ BoundaryIn(k)
      /\ EdgeRecv(r)
      /\ IF InOrder(k, m) /\ bfree[k] # <<>>
           THEN /\ Arrive(k, Head(bfree[k]), Apply(FreeZone, "RECV"), m.lam, m.dt)
                /\ bfree' = [bfree EXCEPT ![k] = Tail(@)]
                /\ dev' = Unstage(Stage(k, m), k, Head(bfree[k]))
                /\ UNCHANGED <<pc, haltVars>>
           ELSE SetHalt(k, "Logic") /\ UNCHANGED <<loc, bfree, dev>>
      /\ UNCHANGED <<pass, laneVars, reserve, endVars, level>>

\* Mutant: the node leaves without a halt of its rank.
RecvPoisonQuietly(k) ==
  /\ AwaitsArrival(k) /\ ~Preloads(k) /\ BoundaryIn(k)
  /\ EdgeRecvPoison(RankOf(k))
  /\ Goto(k, "done")
  /\ UNCHANGED <<pass, loc, laneVars, poolVars, dev, haltVars, endVars, level>>

RecvPoison(k) ==
  /\ AwaitsArrival(k) /\ ~Preloads(k) /\ BoundaryIn(k)
  /\ EdgeRecvPoison(RankOf(k))
  /\ SetHalt(k, "Ring")
  /\ UNCHANGED <<pass, loc, laneVars, poolVars, dev, endVars, level>>

RecvDone(k) ==
  /\ pc[k] = "io" /\ CurrentOp(k) = "RECV"
  /\ loc[k].arrived > LastNeeded(loc[k].pos)
  /\ Goto(k, NextOp(k))
  /\ loc' = [loc EXCEPT ![k].op = 2]
  /\ UNCHANGED <<pass, laneVars, poolVars, dev, haltVars, linkVars, endVars, level>>

-----------------------------------------------------------------------------
(* compute_zone and end_zone: what they enqueue on the stream of node k, and *)
(* what they do to the slots of the pass on the host.                        *)

Place(k, s) == <<k, s.dev>>

\* The first half of velocity Verlet, with the accumulators cleared.
Drifted(image) ==
  [image EXCEPT !.body.x = @ + 1, !.body.v = @ + 1, !.acc = NoForces]

\* Mutant: the drifted mark is not tested.
DriftAlways(d, k, s) ==
  Kernel(d, k, {}, Place(k, s), LAMBDA mem : Drifted(mem[Place(k, s)]))

Drift(d, k, s) ==
  IF s.drifted THEN d
  ELSE Kernel(d, k, {}, Place(k, s), LAMBDA mem : Drifted(mem[Place(k, s)]))

\* What zone a feels from zone b; a pair counts only at positions of one time.
CountPairs(a, b) ==
  IF a.body.x = b.body.x THEN [a EXCEPT !.acc[b.zone] = @ + 1] ELSE a

LaunchPairs(d, k, A, B) ==
  Kernel(d, k, {Place(k, B)}, Place(k, A),
         LAMBDA mem : CountPairs(mem[Place(k, A)], mem[Place(k, B)]))

\* The position whose pairs with j are computed with j, if there is one.
MetBy(j) ==
  IF j + 1 < N THEN {j + 1} ELSE IF DeferHead THEN {0} ELSE {}

DriftedDevice(k, slot, j) ==
  IF j + 1 < N THEN Drift(Drift(dev, k, slot[j]), k, slot[j + 1])
  ELSE Drift(dev, k, slot[j])

ComputedDevice(k, slot, j) ==
  LET own == LaunchPairs(DriftedDevice(k, slot, j), k, slot[j], slot[j])
  IN  IF MetBy(j) = {} THEN own
      ELSE LET b == slot[CHOOSE q \in MetBy(j) : TRUE]
           IN  LaunchPairs(LaunchPairs(own, k, slot[j], b), k, b, slot[j])

Started(s, j) ==
  [s EXCEPT !.drifted = TRUE, !.computed = TRUE,
            !.fsm = Apply(IF j = 0 THEN SeedFirstZone(@) ELSE @, "START")]
Met(s, j) ==
  IF j = 0 THEN [s EXCEPT !.fsm = Contribute(@, "closure")]
  ELSE [s EXCEPT !.drifted = TRUE, !.fsm = Contribute(Apply(@, "SPHERE"), "prev")]

ComputedSlots(slot, j) ==
  [q \in Zones |-> IF q = j THEN Started(slot[j], j)
                   ELSE IF q \in MetBy(j) THEN Met(slot[q], q) ELSE slot[q]]

ComputeLegal(slot, j) ==
  /\ j > 0 => slot[j - 1].computed
  /\ Allowed(slot[j].fsm.type, IF j = 0 THEN "SPHERE" ELSE "START")
  /\ j + 1 < N => Allowed(slot[j + 1].fsm.type, "SPHERE")

\* Kick, END, and the copy of the scalars into the pinned block.
EndedDevice(d, k, s) ==
  LET kicked == Kernel(d, k, {}, Place(k, s),
                       LAMBDA mem : [mem[Place(k, s)] EXCEPT
                                       !.body = Kicked(@, mem[Place(k, s)].acc)])
  IN  Kernel(kicked, k, {Place(k, s)}, <<k, EndScalars>>, LAMBDA mem : BlankImage)

\* Ended zones join the out queue; the checks of END wait for sync_check.
EndedPass(p, j) ==
  [p EXCEPT !.slot[j].fsm = Apply(@, "END"), !.outq = Append(@, j),
            !.ended = @ \cup {j}]

\* Mutant: the loop over the positions runs one too far.
NextPositionUnbounded(p) == [p EXCEPT !.pos = @ + 1, !.op = 1]
NextPosition(p) ==
  IF p.pos + 1 < N THEN [p EXCEPT !.pos = @ + 1, !.op = 1] ELSE p
AfterPosition(p) == IF p.pos + 1 < N THEN "io" ELSE "flush"

\* The head waits for the closure; the tail is followed by the head's END.
HeldBack(j) == DeferHead /\ j = 0
IsTail(j) == DeferHead /\ j = N - 1

ComputeZone(k) ==
  LET j == loc[k].pos
      slot == loc[k].slot
      p == [loc[k] EXCEPT !.slot = ComputedSlots(slot, j)]
      d == ComputedDevice(k, slot, j)
  IN  /\ pc[k] = "compute" /\ ~HaltOn(RankOf(k))
      /\ IF ~ComputeLegal(slot, j) \/ (~HeldBack(j) /\ ~EndLegal(p.slot[j].fsm, j))
           THEN SetHalt(k, "Logic") /\ UNCHANGED <<loc, dev, level>>
         ELSE IF HeldBack(j)
           THEN /\ loc' = [loc EXCEPT ![k] = NextPosition(p)]
                /\ dev' = d
                /\ Goto(k, AfterPosition(p))
                /\ UNCHANGED <<haltVars, level>>
           ELSE /\ loc' = [loc EXCEPT ![k] = NextPosition(EndedPass(p, j))]
                /\ dev' = EndedDevice(d, k, slot[j])
                /\ level' = [level EXCEPT ![slot[j].zone] = pass[k]]
                /\ Goto(k, IF IsTail(j) THEN "endhead" ELSE AfterPosition(p))
                /\ UNCHANGED haltVars
      /\ UNCHANGED <<pass, laneVars, poolVars, linkVars, endVars>>

\* The head held back for the closure ends after the tail.
EndHead(k) ==
  LET s == loc[k].slot[0]
  IN  /\ pc[k] = "endhead"
      /\ IF EndLegal(s.fsm, 0)
           THEN /\ loc' = [loc EXCEPT ![k] = EndedPass(@, 0)]
                /\ dev' = EndedDevice(dev, k, s)
                /\ level' = [level EXCEPT ![s.zone] = pass[k]]
                /\ Goto(k, "flush")
                /\ UNCHANGED haltVars
           ELSE SetHalt(k, "Logic") /\ UNCHANGED <<loc, dev, level>>
      /\ UNCHANGED <<pass, laneVars, poolVars, linkVars, endVars>>

HaltCheck(k) ==
  /\ pc[k] = "compute" /\ HaltOn(RankOf(k))
  /\ Goto(k, "done")
  /\ UNCHANGED <<pass, loc, laneVars, poolVars, dev, haltVars, linkVars,
                 endVars, level>>

-----------------------------------------------------------------------------
(* flush_sends.                                                              *)

Flushing(k) ==
  pc[k] = "flush" \/ (pc[k] = "io" /\ CurrentOp(k) = "SEND")

Sending(k) == Flushing(k) /\ loc[k].outq # <<>> /\ pass[k] # Steps
Outgoing(k) == loc[k].slot[Head(loc[k].outq)]
SourceOf(k) == <<k, Outgoing(k).dev>>

\* Mutant: the checks of a pass are made after its last zone left.
LastNever(p) == FALSE
LastOfPass(p) == p.sent + 1 >= N

\* Mutant: the zones already sent are left out of the aggregate.
SyncedRest(p) ==
  [p EXCEPT !.synced = TRUE,
            !.agg.zones = {p.slot[p.outq[q]].zone : q \in 1 .. Len(p.outq)}]

\* sync_check: the END scalars of the pass are on the host, checked and folded
\* into the aggregate.
Synced(p) ==
  [p EXCEPT !.synced = TRUE, !.agg.zones = {p.slot[j].zone : j \in p.ended}]
SyncedDevice(k) ==
  IF loc[k].synced THEN dev
  ELSE HostUse(StreamSync(dev, k), k, <<k, EndScalars>>)
ReadyToSend(p) == IF LastOfPass(p) THEN Synced(p) ELSE p
ReadyDevice(k) == IF LastOfPass(loc[k]) THEN SyncedDevice(k) ELSE dev

\* The slot a zone left: back to the reserve in pass 1 and in a self-loop, to the
\* list of the node behind a boundary, or as a credit with a recorded event to
\* the producer.
GiveCredit(lane, k, s) ==
  IF EdgeDown(InEdge(k)) THEN lane
  ELSE [lane EXCEPT ![InEdge(k)] = Append(@, s)]

FreeSource(k, d, lane) ==
  LET s == Outgoing(k).dev
  IN  IF pass[k] = 1 \/ SelfLoop
        THEN /\ reserve' = Append(reserve, s)
             /\ credits' = lane /\ dev' = d /\ UNCHANGED bfree
      ELSE IF BoundaryIn(k)
        THEN /\ bfree' = [bfree EXCEPT ![k] = Append(@, s)]
             /\ credits' = lane /\ dev' = d /\ UNCHANGED reserve
      ELSE /\ credits' = GiveCredit(lane, k, s)
           /\ dev' = Record(d, k, FreeEvent(k, s))
           /\ UNCHANGED poolVars

LambdaOut(p) == IF p.sent + 1 < N THEN p.slot[p.sent + 1].lam ELSE p.agg
DtOut(p) == IF p.sent = 0 THEN AutoDt(LambdaOut(p), p.dt) ELSE NoDt

SentPass(p) ==
  [p EXCEPT !.slot[Head(p.outq)].fsm = Apply(@, "SEND"),
            !.outq = Tail(@), !.sent = @ + 1, !.dst = NoSlot]

\* The last pass lands its zones on the host.
CollectZone(k) ==
  LET zone == Outgoing(k).zone
  IN  /\ Flushing(k) /\ loc[k].outq # <<>> /\ pass[k] = Steps
      /\ final' = [final EXCEPT ![zone] = dev.mem[SourceOf(k)].body]
      /\ loc' = [loc EXCEPT ![k].outq = Tail(@)]
      /\ FreeSource(k, StreamSync(Reading(dev, k, {SourceOf(k)}), k), credits)
      /\ UNCHANGED <<pc, pass, chan, closed, haltVars, linkVars, stats, result,
                     level>>

\* Mutant: the copy does not wait for the consumer's last read of the slot.
PayloadUnawaited(k, s) ==
  Record(Kernel(dev, k, {SourceOf(k)}, <<Consumer(k), s>>,
                LAMBDA mem : mem[SourceOf(k)]), k, ArrivalEvent(Consumer(k), s))

\* The payload goes to slot s of the consumer, after the consumer's last read.
Payload(k, s) ==
  LET free == WaitEvent(dev, k, FreeEvent(Consumer(k), s))
  IN  Record(Kernel(free, k, {SourceOf(k)}, <<Consumer(k), s>>,
                    LAMBDA mem : mem[SourceOf(k)]), k, ArrivalEvent(Consumer(k), s))

\* A credit is taken, the payload copied, the source freed.
CopyOnCredit(k) ==
  LET s == Head(credits[k])
  IN  /\ ~EdgeDown(k) /\ credits[k] # <<>>
      /\ FreeSource(k, Payload(k, s), [credits EXCEPT ![k] = Tail(@)])
      /\ loc' = [loc EXCEPT ![k].dst = s]
      /\ UNCHANGED <<pc, haltVars>>

\* In a self-loop the slot comes from the pool the source goes back to.
CopyToSelf(k) ==
  /\ IF reserve = <<>>
       THEN SetHalt(k, "Logic") /\ UNCHANGED <<loc, reserve, dev>>
       ELSE /\ dev' = Payload(k, Head(reserve))
            /\ reserve' = Append(Tail(reserve), Outgoing(k).dev)
            /\ loc' = [loc EXCEPT ![k].dst = Head(reserve)]
            /\ UNCHANGED <<pc, haltVars>>
  /\ UNCHANGED <<credits, bfree>>

CopyZone(k) ==
  /\ Sending(k) /\ ~BoundaryOut(k) /\ loc[k].dst = NoSlot
  /\ IF SelfLoop THEN CopyToSelf(k) ELSE CopyOnCredit(k)
  /\ UNCHANGED <<pass, chan, closed, linkVars, endVars, level>>

CreditShutDown(k) ==
  /\ Sending(k) /\ ~BoundaryOut(k) /\ ~SelfLoop /\ loc[k].dst = NoSlot
  /\ EdgeDown(k)
  /\ Goto(k, "done")
  /\ UNCHANGED <<pass, loc, laneVars, poolVars, dev, haltVars, linkVars,
                 endVars, level>>

Header(p, h) ==
  [zone |-> p.slot[Head(p.outq)].zone, step |-> h, pos |-> p.sent,
   dt |-> DtOut(p), lam |-> LambdaOut(p), slot |-> p.dst]

\* The header follows its payload; a closed channel swallows it.
SendHeader(k) ==
  LET p == ReadyToSend(loc[k])
  IN  /\ Sending(k) /\ ~BoundaryOut(k) /\ loc[k].dst # NoSlot
      /\ IF Allowed(Outgoing(k).fsm.type, "SEND")
           THEN /\ EdgeDown(k) \/ Len(chan[k]) < N + 2
                /\ chan' = IF EdgeDown(k) THEN chan
                           ELSE [chan EXCEPT ![k] = Append(@, Header(p, pass[k]))]
                /\ loc' = [loc EXCEPT ![k] = SentPass(p)]
                /\ dev' = ReadyDevice(k)
                /\ UNCHANGED <<pc, haltVars>>
           ELSE SetHalt(k, "Logic") /\ UNCHANGED <<chan, loc, dev>>
      /\ UNCHANGED <<pass, credits, closed, poolVars, linkVars, endVars, level>>

\* The payload is copied to the staging buffer, awaited, and given to the edge.
OutStaged(k) ==
  HostUse(StreamSync(Kernel(ReadyDevice(k), k, {SourceOf(k)}, <<k, OutStage>>,
                            LAMBDA mem : mem[SourceOf(k)]), k),
          k, <<k, OutStage>>)

WireMessage(p, h, image) ==
  [zone |-> p.slot[Head(p.outq)].zone, step |-> h, pos |-> p.sent,
   dt |-> DtOut(p), lam |-> LambdaOut(p), body |-> image.body, buf |-> 0]

SendBoundary(k) ==
  LET p == ReadyToSend(loc[k])
      d == OutStaged(k)
  IN  /\ Sending(k) /\ BoundaryOut(k)
      /\ IF Allowed(Outgoing(k).fsm.type, "SEND")
           THEN /\ EdgeSend(RankOf(k),
                            WireMessage(p, pass[k], d.mem[<<k, OutStage>>]))
                /\ FreeSource(k, d, credits)
                /\ loc' = [loc EXCEPT ![k] = SentPass(p)]
                /\ UNCHANGED <<pc, haltVars>>
           ELSE /\ SetHalt(k, "Logic")
                /\ UNCHANGED <<loc, credits, poolVars, dev, linkVars>>
      /\ UNCHANGED <<pass, chan, closed, endVars, level>>

\* The relaxed load of halt_on_ may miss a halt set by another thread.
FlushDone(k) ==
  /\ Flushing(k) /\ loc[k].outq = <<>>
  /\ Goto(k, IF pc[k] = "flush" THEN "finish" ELSE NextOp(k))
  /\ loc' = IF pc[k] = "flush" THEN loc ELSE [loc EXCEPT ![k].op = 2]
  /\ UNCHANGED <<pass, laneVars, poolVars, dev, haltVars, linkVars, endVars, level>>

FlushSeesHalt(k) ==
  /\ Flushing(k) /\ loc[k].outq = <<>> /\ HaltOn(RankOf(k))
  /\ Goto(k, "done")
  /\ UNCHANGED <<pass, loc, laneVars, poolVars, dev, haltVars, linkVars,
                 endVars, level>>

-----------------------------------------------------------------------------
(* The end of a pass and the faults.                                         *)

\* Mutant: the reserve joins the credits without recorded events.
DrainUnrecorded(k, d) ==
  IF pass[k] # 1 \/ SelfLoop THEN dev' = d /\ UNCHANGED <<poolVars, credits>>
  ELSE /\ reserve' = <<>> /\ dev' = d
       /\ IF BoundaryIn(k)
            THEN bfree' = [bfree EXCEPT ![k] = @ \o reserve] /\ UNCHANGED credits
            ELSE /\ UNCHANGED bfree
                 /\ credits' = IF EdgeDown(InEdge(k)) THEN credits
                               ELSE [credits EXCEPT ![InEdge(k)] = @ \o reserve]

\* After pass 1 the reserve joins the free list or, each slot with a recorded
\* event, the credits.
DrainReserve(k, d) ==
  IF pass[k] # 1 \/ SelfLoop THEN dev' = d /\ UNCHANGED <<poolVars, credits>>
  ELSE /\ reserve' = <<>>
       /\ IF BoundaryIn(k)
            THEN /\ bfree' = [bfree EXCEPT ![k] = @ \o reserve]
                 /\ dev' = d /\ UNCHANGED credits
            ELSE /\ UNCHANGED bfree
                 /\ credits' = IF EdgeDown(InEdge(k)) THEN credits
                               ELSE [credits EXCEPT ![InEdge(k)] = @ \o reserve]
                 /\ dev' = [d EXCEPT !.event =
                              [e \in DeviceEvents |->
                                 IF \E q \in 1 .. Len(reserve) :
                                      e = FreeEvent(k, reserve[q])
                                   THEN d.clock[k] ELSE d.event[e]]]

FinishPass(k) ==
  /\ pc[k] = "finish"
  /\ Goto(k, "record")
  /\ loc' = [loc EXCEPT ![k] = Synced(@)]
  /\ DrainReserve(k, SyncedDevice(k))
  /\ UNCHANGED <<pass, chan, closed, haltVars, linkVars, endVars, level>>

RecordPass(k) ==
  /\ pc[k] = "record"
  /\ stats' = [stats EXCEPT ![pass[k]] = [dt |-> loc[k].dt, agg |-> loc[k].agg]]
  /\ pass' = [pass EXCEPT ![k] = @ + Z]
  /\ Goto(k, "loop")
  /\ UNCHANGED <<loc, laneVars, poolVars, dev, haltVars, linkVars, final,
                 result, level>>

\* A check of sync_check fails: before the last zone leaves or, when nothing is
\* sent any more, at the end of the pass.
CheckDue(k) ==
  /\ ~loc[k].synced
  /\ \/ pc[k] = "finish"
     \/ /\ Sending(k) /\ LastOfPass(loc[k])
        /\ BoundaryOut(k) \/ loc[k].dst # NoSlot

\* A CUDA call fails while the node enqueues work.
Enqueues(k) ==
  \/ pc[k] \in {"compute", "endhead", "finish"}
  \/ Sending(k) /\ loc[k].dst # NoSlot

\* The nodes whose threads do not exist if that of k cannot be created.
Missing(k) == {q \in Nodes : q >= k /\ RankOf(q) = RankOf(k)}
NotYetCreated(k) == \A q \in Missing(k) : pc[q] = "loop" /\ pass[q] = q + 1

\* The thread that creates the nodes raises the halt in the place of node k.
SpawnFails(k) ==
  LET r == RankOf(k)
  IN  /\ pc' = [q \in Nodes |-> IF q = k /\ ~HaltOn(r) THEN "closing"
                                ELSE IF q \in Missing(k) THEN "done" ELSE pc[q]]
      /\ haltKind' = IF HaltOn(r) THEN haltKind ELSE [haltKind EXCEPT ![r] = "Spawn"]
      /\ UNCHANGED haltPass

FaultsAt(k) ==
  Faults \cap
    ((IF NotYetCreated(k) THEN {"Spawn"} ELSE {})
     \cup (IF CheckDue(k) THEN SyncKinds \ (IF N < 3 THEN {"StaleZone"} ELSE {})
           ELSE {})
     \cup (IF Enqueues(k) THEN {"Device"} ELSE {})
     \cup (IF pc[k] = "record" THEN RecordKinds ELSE {}))

Fail(k, kind) == IF kind = "Spawn" THEN SpawnFails(k) ELSE SetHalt(k, kind)

\* Mutant: a failed pass is recorded before it halts.
NodeFaultRecorded(k) ==
  /\ \E kind \in FaultsAt(k) : Fail(k, kind)
  /\ stats' = IF pc[k] = "record"
              THEN [stats EXCEPT ![pass[k]] = [dt |-> loc[k].dt, agg |-> loc[k].agg]]
              ELSE stats
  /\ UNCHANGED <<pass, loc, laneVars, poolVars, dev, linkVars, final, result, level>>

NodeFault(k) ==
  /\ \E kind \in FaultsAt(k) : Fail(k, kind)
  /\ UNCHANGED <<pass, loc, laneVars, poolVars, dev, linkVars, endVars, level>>

\* The thread that set the halt closes the edges of its rank one by one, then
\* sends the poison around the ring.
CloseEdge(k) ==
  LET open == EdgesOf(RankOf(k)) \ closed
  IN  /\ pc[k] = "closing"
      /\ closed' = closed \cup {Min(open)}
      /\ Goto(k, IF open # {Min(open)} THEN "closing"
                 ELSE IF Mpi THEN "poison" ELSE "done")
      /\ UNCHANGED <<pass, loc, chan, credits, poolVars, dev, haltVars, linkVars,
                     endVars, level>>

PoisonRing(k) ==
  /\ pc[k] = "poison"
  /\ EdgePoison(RankOf(k), BlankMessage)
  /\ Goto(k, "done")
  /\ UNCHANGED <<pass, loc, laneVars, poolVars, dev, haltVars, endVars, level>>

-----------------------------------------------------------------------------
(* run() on each rank joins its nodes and reports.                           *)

OwnPass(r, h) == RankOf((h - 1) % Z) = r
Recorded(h) == stats[h] # NoStats
Counted(r, h) == OwnPass(r, h) /\ Recorded(h)

\* The gap-free prefix of the passes recorded on this rank.
StepsDone(r) ==
  CHOOSE d \in 0 .. Steps :
    /\ \A h \in 1 .. d : Counted(r, h)
    /\ d < Steps => ~Counted(r, d + 1)

Returned(r) == result[r] # NoResult

Join(r) ==
  /\ ~Returned(r)
  /\ \A k \in Nodes : RankOf(k) = r => pc[k] = "done"
  /\ result' = [result EXCEPT ![r] =
       [halt       |-> haltKind[r],
        steps_done |-> IF HaltOn(r) THEN StepsDone(r) ELSE Steps,
        has_final  |-> ~HaltOn(r) /\ \E i \in Zones : final[i] # NoBody
                       /\ OwnPass(r, Steps)]]
  /\ UNCHANGED <<nodeVars, laneVars, poolVars, dev, haltVars, linkVars, stats,
                 final, level>>

NodeStep(k) ==
  \/ NodeReturns(k) \/ StartPass(k)
  \/ TakePreload(k) \/ RecvZone(k) \/ RecvBoundary(k)
  \/ RecvShutDown(k) \/ RecvPoison(k) \/ RecvDone(k)
  \/ CollectZone(k) \/ CopyZone(k) \/ CreditShutDown(k) \/ SendHeader(k)
  \/ SendBoundary(k) \/ FlushDone(k) \/ FlushSeesHalt(k)
  \/ HaltCheck(k) \/ ComputeZone(k) \/ EndHead(k)
  \/ FinishPass(k) \/ RecordPass(k) \/ CloseEdge(k) \/ PoisonRing(k)

AllReturned == (\A r \in Heads : Returned(r)) /\ UNCHANGED vars

Next ==
  \/ \E k \in Nodes : NodeStep(k) \/ NodeFault(k)
  \/ \E r \in Heads : Join(r)
  \/ AllReturned

Spec == Init /\ [][Next]_vars

\* Every thread that can run is eventually scheduled; no fault has to happen.
FairSpec ==
  /\ Spec
  /\ \A k \in Nodes : WF_vars(NodeStep(k))
  /\ \A r \in Heads : WF_vars(Join(r))

-----------------------------------------------------------------------------
(* Properties.                                                               *)

TypeOK ==
  /\ pc \in [Nodes -> NodePoints]
  /\ pass \in [Nodes -> Nat]
  /\ loc \in [Nodes -> PassStates]
  /\ chan \in [Nodes -> Seq(Headers)]
  /\ credits \in [Nodes -> Seq(SlotIds)]
  /\ closed \subseteq Nodes
  /\ bfree \in [Nodes -> Seq(SlotIds)]
  /\ reserve \in Seq(SlotIds)
  /\ dev.raced \in BOOLEAN /\ dev.mem \in [DevicePlaces -> ZoneImages]
  /\ haltKind \in [Heads -> HaltKinds]
  /\ haltPass \in [Heads -> Nat]
  /\ link \in [Heads -> Seq(WireMessages)]
  /\ poisoned \in [Heads -> BOOLEAN] /\ poisonSent \in [Heads -> BOOLEAN]
  /\ nextBuf \in [Heads -> 0 .. PoolSize - 1]
  /\ stats \in [Passes -> PassRecords]
  /\ final \in [Zones -> Bodies]
  /\ result \in [Heads -> Results]
  /\ level \in [Zones -> Nat]

\* No protocol exception is thrown: zones arrive in order, FSM events are
\* allowed, and neither the upload reserve nor the free list of a boundary-fed
\* node is ever found empty.
NoLogicError == \A r \in Heads : haltKind[r] # "Logic"

\* No two operations that meet at a device slot or a pinned buffer are left
\* unordered by streams, events and synchronisations, across every reuse of a
\* slot (INV-5/6 at the head of the file).
NoRace == ~dev.raced

\* What a header announces, what travels between ranks and what landed on the
\* host is a zone at one whole time step with each pair counted once.
WholeZones ==
  /\ \A e \in Nodes : \A q \in 1 .. Len(chan[e]) :
       LET m == chan[e][q]
           image == dev.mem[<<Consumer(e), m.slot>>]
       IN  image.zone = m.zone /\ image.body = CompleteBody(m.zone, m.step)
  /\ \A r \in Heads : \A q \in 1 .. Len(link[r]) :
       LET m == link[r][q]
       IN  ~IsPoison(m) => m.body = CompleteBody(m.zone, m.step)
  /\ \A i \in Zones : final[i] # NoBody => final[i] = CompleteBody(i, Steps)

\* Every recorded pass has the time step and the complete aggregate a serial run
\* would have, however the nodes are spread over ranks; and when a pass is
\* checked, its buffer was forecast from a whole aggregate, no older than the
\* lag the forecast allows for.
RecordedPassesExact ==
  /\ \A h \in Passes :
       Recorded(h) =>
         /\ stats[h] = [dt |-> ScheduledDt(h), agg |-> FullLambda(h)]
         /\ \A i \in Zones : level[i] >= h
  /\ \A k \in Nodes :
       loc[k].synced =>
         /\ loc[k].rbuf.zones = Zones
         /\ loc[k].agg.pass - loc[k].rbuf.pass <= (IF N = 1 THEN 1 ELSE N - 1)

\* A pass whose checks fail never emits its last zone, so no later pass is ever
\* recorded, on any rank (the comment above end_zone).
FailedPassWithholdsZone ==
  \A r \in Heads :
    haltKind[r] \in SyncKinds => \A h \in Passes : h >= haltPass[r] => ~Recorded(h)

\* The pass in which a rank halts is not recorded and not counted there.
HaltedPassUnrecorded ==
  \A r \in Heads :
    haltPass[r] # 0 =>
      ~Recorded(haltPass[r]) /\ result[r].steps_done < haltPass[r]

\* With the documented pool a boundary send never finds its buffer in use, so it
\* never waits for a peer that may have gone.
SendNeverWaits ==
  \A k \in Nodes :
    BoundaryOut(k) /\ Sending(k) =>
      poisoned[RankOf(k)] \/ ~Pending(RankOf(k))

\* A rank that reports no halt recorded every pass of its nodes, and the one that
\* owns the last pass holds every zone.  If no rank halts, no message is left for
\* the destructor to drain.
ResultConsistent ==
  /\ \A r \in Heads :
       Returned(r) /\ result[r].halt = "None" =>
         /\ \A h \in Passes : OwnPass(r, h) => Recorded(h)
         /\ result[r].has_final <=> OwnPass(r, Steps)
         /\ result[r].has_final => \A i \in Zones : final[i] # NoBody
  /\ (\A r \in Heads : Returned(r) /\ result[r].halt = "None") =>
       \A r \in Heads : link[r] = <<>> /\ chan[r] = <<>>

\* A halt on any rank stops the whole ring: once every rank has returned, either
\* all report a halt or none does (mpi_ring_edge.hpp, HALT propagation).
HaltReachesAllRanks ==
  (\A r \in Heads : Returned(r)) =>
    \/ \A r \in Heads : result[r].halt = "None"
    \/ \A r \in Heads : result[r].halt # "None"

\* Every rank returns: no node waits for ever for a header, a credit, a free
\* buffer or a message of another rank, with or without faults.
Termination == <>(\A r \in Heads : Returned(r))

\* The zones advance as the serial time loop allows.
Stencil == INSTANCE CausalStencil
             WITH N <- N, Pbc <- Pbc, Steps <- Steps, level <- level
ImplementsStencil == Stencil!Spec

=============================================================================
