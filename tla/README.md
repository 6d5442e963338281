# A TLA+ verification of TD_MD Core

TD_MD Core is a molecular-dynamics program with *time decomposition*: the atoms
are cut into slabs ("zones") along z, and the nodes of a ring do not share out
the zones but the time steps. Node k runs passes k+1, k+1+Z, … (a *pass* is one
time step of all zones) and hands every finished zone to the next node, which
starts the following time step on it while the first node is still busy with
the rest of its pass. The program claims that this gives, bit for bit, the
result of the serial time loop, for every number of nodes and on either back
end; that a run that goes wrong stops the whole ring and says why; and that it
never locks up.

Paths below are relative to `src/`; most code is in the headers under
`include/tdmd/`.

## 1. Inventory

| Component | Code | State | Operations | Correct when |
|---|---|---|---|---|
| Zone FSM | `core/fsm.hpp`, `core/zone.hpp` | type o/d/w/c/p, `contrib_mask`, `force_complete` | `apply` of RECV, SPHERE, START, END, SEND; seed; I/O order | no forbidden event occurs; END only with all contributions |
| Zone ring | `core/zones.hpp` | members per slab, width | `build`, `zone_force_pass`, `PairGeom::reduce` | every pair in range is counted once (INV-8) |
| Conveyor (CPU) | `core/conveyor.hpp` | per node: slots of a pass, arrivals, queue to send, aggregate; shared: halt flag, statistics, result | `run`, `node_main`, `run_pass` and its lambdas, `set_halt` | the serial trajectory; first halt reported; `run` returns |
| Channel, transport | `core/transport.hpp` | deque, shutdown flag, two condition variables per edge | `send`, `recv`, `shutdown` | bounded FIFO, no lost wakeup |
| Fixed-point sums | `core/fixed_accum.hpp` | one 64-bit integer | `add`, `value`, `reset` | independent of order, no silent overflow |
| Step rules | `core/buffer.hpp` | none | `auto_dt`, `compute_R_buf`, `causality_ok`, `temperature_limited_dt` | step within its bounds |
| Serial driver | `core/simulation.hpp`, `core/integrator.hpp` | atoms, dt, counters | `run_simulation`, the half-steps | frames and counts of whole steps only |
| Program | `src/main.cpp` | – | choose driver, rescue dump, exit code | each halt has its code; dump usable |
| Cluster list | `core/cluster.hpp`, `potentials/pair_driver.hpp` | Z-order (Morton), clusters, reference positions | build, grid broad phase, rebuild by skin/2 | no pair in range is missing |
| Conveyor (GPU) | `cuda/conveyor_gpu.cuh` | per node: stream, device slots, free slots (credits, reserve, own list), events; per rank: halt flag, edges | `run`, `node_main`, `run_pass` and its lambdas, `upload_zone`, `set_halt` | no slot is reused while in use; the slots never run out for good; same passes as on the CPU; a failed pass lets no later one complete |
| MPI edge | `mpi/mpi_ring_edge.hpp` | pool of pending sends, two poison flags | `send`, `recv`, `poison`, destructor | a send never waits for a rank that is gone; a halt reaches every rank |
| Zone kernels | `cuda/zone_*.cuh` | per-zone accumulators, sticky overflow flag, cell lists of a pass | pair, cell-list and integration kernels | same integers as the host; the cells hide no pair in range and show none twice |
| Potentials, thermal start, config, readers, writers, probe, benchmarks | the rest | none that outlives a call | | numerical or textual |

How they interact: `run()` spawns one thread per node; the threads share the
transport (one channel per edge k → k+1 mod Z), the halt flag with its kind and
message, and write disjoint statistics records and zones of the result. A zone
message carries, beside atoms, the time step `dt_next` (first zone of a pass
only) and a *Lambda*: the aggregate (largest speed, …) of a finished pass. The
main thread reads everything after the joins. On the GPU a node's work is
enqueued on its own stream; the header of a zone goes through a host channel
while its payload is copied, asynchronously, into a device slot of the next
node, and the number of that slot comes back as a credit when it is free
again. A ring can be cut into MPI ranks; at a cut the payload goes through
pinned host buffers, and a halt goes round as a poison message.

What is hard: several passes in flight at once with data of different age; a
rotation of the arrival order and a head zone held back for the periodic
closure; decisions (time step, buffer) that must rest on aggregates of the same
age for any Z; a halt raised by any thread while all others wait, send, or
have already passed on zones of the failing pass; edges closed one by one;
threads that cannot be created; device slots that are handed on while copies and
kernels that use them are only enqueued, and of which a node has fewer than
there are zones; ranks that learn of a halt late or not at all; static zone
membership while atoms move; rounding, ties and overflow in sums that must not
depend on order. The list of `hazards` in `PROJECT.json` names each at its line.

## 2. Modules and code

* **`ZoneFSM`** – `fsm.hpp`: `Allowed`, `Target`, `Apply`. A forbidden event
  throws in the code; callers test `Allowed` and take the error path.
* **`ZoneRing`** – which zone meets which. The force on a zone is a *ledger*:
  how often the pairs with each zone were counted.
* **`PassData`** – what both conveyors share: the data of a pass and the rules
  for its order, its time step and its END.
* **`TimeConveyor`** – `conveyor.hpp` whole: `NodeStep` has one action for each
  stretch of `run_pass` between two points at which another thread can be
  seen: an arrival (`TakePreload`, `RecvZone`, `RecvShutDown`), a send
  (`SendZone`, `CollectZone`), the halt tests (`FlushSeesHalt`, `HaltCheck`,
  `NodeReturns`), `compute_zone` (`ComputeZone`), `end_zone` (`EndZone`), the
  bookkeeping at the end (`RecordPass`), `set_halt` and then one step per closed
  edge (`CloseEdge`). `MainStep` is `run()`: spawn, failure of a spawn, join,
  result. Atoms are abstracted to the number of drifts and half-kicks and the
  ledger; a Lambda to the pass and the set of zones it aggregates; a time step
  to the pass and the Lambda it was computed from. Whether a numerical check
  fails is a choice (`NodeFault`), allowed exactly where the code checks. An
  exception is never a choice: wrong order, forbidden event, INV-1 and
  INV-3 are *computed* from the state, and lead to the halt kind "Logic".
  `Halt::Internal` is thus split in Logic, Overflow and Spawn.
* **`CausalStencil`** – the abstract specification: zones advance one step at
  a time, each only when its neighbours are at the same step or one ahead. It
  knows no nodes, passes or messages. `TimeConveyor` implements it through the
  history variable `level`.
* **`ConveyorShapes`** – three more rings for `TimeConveyor` in one run.
* **`GpuStreams`** – the device as `conveyor_gpu.cuh` uses it: streams, events,
  synchronisation, memory, and a race detector. It models the CUDA calls, which
  are not in the repository.
* **`MpiRingEdge`** – `mpi_ring_edge.hpp`: the messages under way to each rank,
  the pool a sender takes its buffers from, poison and its hops.
* **`GpuConveyor`** – `conveyor_gpu.cuh` on top of these three. Its actions are
  named and cut like those of `TimeConveyor`; what is different is where a zone
  is. `TakePreload` takes a slot of the reserve, `RecvZone` the one its header
  names, `RecvBoundary` one of the node's own list, filled from the staging
  buffer. `CopyZone` takes a credit, enqueues the copy and frees the source;
  `SendHeader` follows as a step of its own, since the checks of the whole pass
  (`Synced`) come between the two before the last zone. `CopyToSelf` is the
  same for a ring of one node, `SendBoundary` for the edge to another rank.
  `DrainReserve` is the end of pass 1, `PoisonRing` the end of `set_halt`,
  `SpawnFails` (a choice of `NodeFault`) the exception handler in `run`. It implements `CausalStencil`
  through the same history variable.
* **`GpuShapes`** – three more rings for `GpuConveyor` in one run: two on one
  rank and one of three ranks.
* **`SpscChannel`** and **`BoundedFifo`** – `SpscChannelT` with mutex,
  condition variables, spurious wakeups and a shutdown in three steps, and the
  bounded closable queue it implements. `TimeConveyor` uses the latter's
  behaviour for each edge: this is how the two are composed.
* **`ZoneMembership`** – `ZoneDecomposition::build`, `membership_ok` and the
  pairs `zone_force_pass` evaluates, in whole-number geometry.
* **`ZoneCells`** – `zone_cells.cuh` on top of it: the grid of each zone, the
  image of a coordinate it looks up, and the cells an atom visits.
* **`PairForces`** – `FixedAccum::add`, `do_pair` and their device twin
  `zone_pair_kernel`: every order of evaluation on both sides, real rounding,
  real width.
* **`SerialDriver`** – `run_simulation`, `auto_dt`, and what `main` does with
  the outcome.
* **`ClusterList`** – `ClusterSet::build` and `ClusteredPairEngine`: the sort
  along the Z-order curve that permutes the arrays in place, the clusters and
  their boxes, the grid that proposes pairs of clusters and the test of boxes
  that decides (`PairList`), and the rule that keeps the list between builds
  (`NeedRebuild`). `RunPairs` is one call up to the loop over the list, `Visited`
  the pairs that loop looks at, `Drift` the integrator between two calls.
* **`MC*`** give constants to TLC; **`*Proofs`** hold the TLAPS proofs. Those
  of the conveyor build on each other: `PassDataProofs` (the order of a pass and
  its time steps, for both conveyors), `TimeConveyorProofs` (control and
  records, one pass on one node, the order of the zones between nodes, where
  the zones are and how far they are, what is reported). `GpuConveyorProofs` is
  about the ring on GPU streams: its types, which passes a failed one stops, and
  that recorded passes are those of a serial run, what travels around it and the
  buffers that takes; `GpuRingProofs` that no node throws, and that no two
  operations race on a slot. `PairForcesProofs` is about the sums.

## 3. Runs

Counts are of distinct states.

| Run | Instance | Shows |
|---|---|---|
| `conveyor_pbc` | N=4 periodic, Z=3, 5 passes, all faults | types, no protocol exception, whole zones, the Lambda chain, exact time steps, forecast age, conservation, first halt wins, halted pass not counted, a send never waits, consistent result, refinement of the stencil |
| `conveyor_shapes` | N=3 free, Z=3, 5 passes; N=4 periodic, Z=1, 4 passes (self-loop); N=1, Z=4, 3 passes | termination (that a send never waits is proved for every ring) |
| `spsc_channel` | capacity 2, 4 messages | no lost wakeup, order, refinement of the FIFO with its fairness |
| `zone_membership` | 1–5 zones, widths 2, 3, 5, 7, cutoff 2, both boundaries, two atoms at −3…20 | no pair missed or doubled in a pass the guard lets through, neither by the zones nor by the cells |
| `pair_forces` | 3 atoms, 5-bit sums, all orders | same integers on host and device, momentum conserved |
| `pair_forces_overflow` | the same | **violated**: see findings |
| `serial_driver` | 4 steps, every halt, speed and cap | bounded step, whole frames |
| `serial_rescue` | the same | **violated**: see findings |
| `cluster_list` | 3 atoms in clusters of 2, plane with one periodic side of 17, cutoff 2, skin 2, 2 drifts | no pair in range missed at any call, also with an old list; grid equal to the exhaustive comparison |
| `gpu_shapes` | N=16 periodic, Z=2, 4 passes; N=4 periodic, Z=1, 4 passes; N=3 periodic, Z=3 on three ranks, 3 passes; energy check and spawn may fail | types, no exception, no race, halted pass not counted, termination |
| `gpu_ranks` | N=5 periodic, Z=3 on ranks {0, 1}, {2}, 7 passes, 7 send buffers; overlap check and CUDA calls may fail | no exception of the protocol, no race, whole zones, exact passes, a failed pass withholds its last zone, a boundary send never waits, consistent result, termination, refinement of the stencil |
| `gpu_halt` | N=1, two ranks of one node, 2 passes | **violated**: see findings |

Why these bounds are enough to see the interesting cases. Z=3 with 5 passes lets
three passes run at once and two nodes start a second pass, so a node's late
state meets zones of its own earlier pass; N=4 periodic is the smallest ring
with a zone that is neither head, tail nor adjacent to the head, and the
rotation takes a different value in each of the first four passes and repeats
in the fifth; five passes are one more than the N-pass lag of the time
step. `conveyor_shapes` holds the
other shapes of ring in one state space; it asks what depends on the shape most,
termination, the invariants (room on the edges among them) being proved for every shape. N=3 free is the smallest ring with the StaleZone guard (the code skips it
for N<3). Capacity 2 with 4 messages fills, drains and refills the queue.
Three atoms give every order of two contributions on each atom, and values
include ties to even and odd, sums that wrap, the last value in range and the
first one out of it. −3…20 exceeds the longest box at both ends where the box
is short and reaches every wrapped position of every box. In `cluster_list` the
periodic side holds four grid cells, so a query wraps at the seam, covers
part of the grid or all of it, and the last cluster is incomplete; the
free side has an extent that varies with the atoms, down to a flat layer.
Three atoms are one more than a cluster, so the sort decides which share a
box, and two drifts are one within half the skin and one that exceeds it,
of the same atom or of two that approach each other. Widths of 5 and 7 give a
single periodic zone a grid that wraps (three cells are the smallest such) and,
with 3, grids of every kind a slab can have.

On the GPU the slots are the point. A small ring has one for every zone on each
node and never waits. N=16 on two nodes is the case the comment on `S_`
reports as wedged with eight slots a node, and it does wedge with them; with the
twelve of the code the pass-1 uploads still go through the reserve of six more
than twice, credits run out, and each node refills slots of its own earlier
pass. The third shape has three ranks of one node, so poison must be forwarded
by a rank that did not raise it, and node 0 is behind a boundary, where the
reserve goes to its list and not to credits.

`gpu_ranks` has the mixed ring: node 0 is fed by a boundary and feeds an inner
edge, node 1 the reverse, node 2 lies between two boundaries. Seven passes give
each boundary edge the zones of two passes, ten over the seven buffers that
n_zones + 2 gives: the index wraps, and a buffer is taken again while earlier
messages may still be under way. A mutant whose index does not wrap breaks
`SendNeverWaits` there, and only in the second pass of an edge. Every node
receives two passes into its own slots, so they are filled again, from the
credits of the inner edge or from the node's list; poison travels while zones
are under way. What the run does not have is scarcity: credits that run out,
and a reserve used more than once before it is drained, are in `gpu_shapes`.

`CHECK_DEADLOCK` is never switched off: the final states stutter by explicit
actions (`Returned`, `Finished`, `Stopped`, `Done`, `Exited`), so any other
state without a successor is reported.

**Mutants.** Operators marked "Mutant" in the modules are plausible bugs
(a dropped test, an inverted threshold, an edge too small); `PROJECT.json`
says which property each of them breaks. They are not used by any
specification.

**Fairness.** `FairSpec` of the conveyor gives weak fairness to the step of
each thread and to `run()`: the threads are ordinary OS threads that are
eventually scheduled, and whatever they wait on becomes and stays available
(only one thread reads an edge and only one writes it). Nothing forces a fault.
`GpuConveyor` has the same, with the join of each rank in place of `run()`; a
message of another rank stays in its link until it is received, which is what
MPI promises.
In the channel, weak fairness of the two callers and of a shutdown once begun;
spurious wakeups and the call of shutdown itself are never forced.

## 4. Proofs

| Theorem | Statement |
|---|---|
| `TimeConveyorProofs!TypeCorrect` | `Spec => []TypeOK` |
| `TimeConveyorProofs!FirstHaltStays` | `Spec => FirstHaltWins` |
| `TimeConveyorProofs!HaltedPassNotCounted` | `Spec => []HaltedPassUnrecorded` |
| `TimeConveyorProofs!NoLogicErrorEver` | `Spec => []NoLogicError` |
| `TimeConveyorProofs!LambdaChainHolds` | `Spec => []LambdaChain` |
| `TimeConveyorProofs!ForecastInTime` | `Spec => []ForecastCoversAge` |
| `TimeConveyorProofs!ZonesAreWhole` | `Spec => []WholeZones` |
| `TimeConveyorProofs!RecordsAreExact` | `Spec => []RecordedPassesExact` |
| `TimeConveyorProofs!ZonesConserved` | `Spec => []ZoneConserved` |
| `TimeConveyorProofs!SendsNeverWait` | `Spec => []SendNeverBlocks` |
| `TimeConveyorProofs!ReturnsConsistent` | `Spec => []ResultConsistent` |
| `TimeConveyorProofs!RefinesStencil` | `Spec => ImplementsStencil` (`Stencil!Spec`, a safety specification) |
| `GpuConveyorProofs!GpuTypeCorrect` | `Spec => []TypeOK` |
| `GpuConveyorProofs!FailedPassStopsRing` | `Spec => []FailedPassWithholdsZone` |
| `GpuConveyorProofs!HaltedPassIsLost` | `Spec => []HaltedPassUnrecorded` |
| `GpuConveyorProofs!RecordsAreSerial` | `Spec => []RecordedPassesExact` |
| `GpuConveyorProofs!GpuRefinesStencil` | `Spec => ImplementsStencil` |
| `GpuConveyorProofs!PoolIsLargeEnough` | `PoolSize >= N` implies `Spec => []SendNeverWaits` |
| `GpuRingProofs!NoProtocolError` | `Spec => []NoLogicError` |
| `GpuRingProofs!GpuNeverRaces` | `Spec => []NoRace` |
| `PairForcesProofs!ForcesAgreeBitForBit` | `Spec => []BackendsAgree` |
| `PairForcesProofs!MomentumIsExact` | `Spec => []ForcesCancel` |
| `SpscChannelProofs!TypeCorrect`, `NeverLostWakeup`, `DeliversInOrder` | the invariants of the channel |
| `SpscChannelProofs!RefinesFifo` | `Spec => Fifo!Spec` (safety part of the refinement) |
| `ZoneMembershipProofs!MembershipTyped`, `StaticMembershipSound` | `[]TypeOK`, `[]PairsComplete` |
| `ZoneMembershipProofs!CullingIsExact` | `Spec => []CullingExact` (the cell lists of `ZoneCells`) |
| `SerialDriverProofs!StepStaysBounded` | `Spec => []StepBounded` |
| `SerialDriverProofs!DriverTyped`, `FramesShowWholeSteps` | `[]TypeOK`, `[]FramesWhole` |

They hold for all values of the constants under the named assumptions
`RingAssumption` (N ≥ 1, not 2 if periodic: `build` refuses it),
`ConveyorAssumption`, `ChannelAssumption`, `MembershipAssumption`,
`DriverAssumption`, `PairForcesAssumption` (finitely many atoms),
`GpuAssumption` and `RanksAssumption` (the nodes of each rank are consecutive,
and node 0 begins one).

*Conveyor, control.* Types need a stronger invariant, `ControlInv`: `SpawnInv` (threads
that do not exist have done nothing) and `HaltInv` (edges are closed only with
a halt set, and only one thread is closing them — the compare-and-swap). The
winner of the halt is then unique, which is `FirstHaltStays`. For
`HaltedPassNotCounted`, `RecordInv` adds that node k's pass is k+1 modulo Z
(`PassInv`), hence that no two nodes ever run the same pass
(`OneNodePerPass`), that the halting pass belongs to a node that left its loop
before the record (`HaltedInv`), and that the result counts a prefix
(`ReturnInv`).

*Conveyor, a pass.* `PassShape` describes the locals of `run_pass` by
three counters: c positions are computed, e have ended, l have left the node. They fix every slot: its FSM type, its mask, the pairs counted
in its force (`Counted`), whether it still owns its zone; and the aggregate, the
forecast and the queue to send. Each operation moves one counter by one or none,
and from the shape before it follows that the FSM admits its event and that the
masks of INV-1 and INV-3 are there. What a pass needs from outside is that
position i receives the right zone with the right aggregate.

*Conveyor, the edges.* `StreamInv` numbers the zones of an edge through all
passes (`Place`: the q-th zone sent in pass h, the last of a pass being followed
by the first of the sender's next one): an edge holds consecutive places, from
what its reader expects next up to what its writer sends next. The rotation by
one zone per pass, computed by the two sides on their own, is the lemma that
the place sent and the place received name the same zone. `MessagesInv` says
that each message is a whole zone with a full Lambda of the right age. With the
shape of the pass this is inductive (`ConveyorInv`), and since no operation of
such a state is refused, `NoLogicError` follows; `LambdaChain`, `WholeZones` and
`ForecastCoversAge` can be read off.

*Conveyor, the zones.* Each zone has one holder (`OneHolder`: a slot, a place on
an edge, the preload or the result), and has one at all until a halt
(`AHolder`); that is `ZonesConserved`. An edge then holds at most N zones,
since the map from places to zones is one-to-one, so capacity n+2 is never
reached (`SendsNeverWait`). `LevelInv` ties the history variable `level` to the
place of the zone: the step in the message, or the pass of the node that holds
it, less one until it has ended. With `SpreadInv` (no zone more than a step
ahead of a neighbour) a completing zone finds its neighbours where the stencil
requires them; every step is classified (`ZoneKinds`) and only the completion
changes a level, which gives `RefinesStencil`. A pass is recorded when the
node's last zone has left, hence after every zone had ended it, and all earlier
passes were recorded by then (`StatsInv`): the sequence of recorded time steps
is that of a serial run. `FinalInv`, `StopInv` and `ReportInv` add who has
collected and who has stopped by the time `run()` reports.

*GPU ring, types.* `TypeInv` adds to `TypeOK` what keeps a slot a slot: a zone
in the out queue has arrived and an arrived zone has a slot (`SlotsHeld`); after
its receive a position has what it computes with, and at the end of a pass all
zones are there (`Progress`); a rank's edges are closed by one thread, which
finds one open (`ClosingWell`). Every operation of `GpuStreams` maps a device to
a device (`KernelIs`, `RecordType`, `SyncType` …).

*GPU ring, failed passes.* `SentOf(h)` counts the zones of pass h that have left
its node, all N once the node has gone on. It never decreases (`SentGrows`),
although `dst`, `outq` and the device hold each zone in a different place on the
way. A zone that travels is counted (`InFlight`), so node and position of an
arrival show that its predecessor was sent (`Arrived`), and a pass whose last
zone leaves has received all of the pass before: complete passes are closed
downwards (`CompleteDown`, `BelowComplete`). `Counts` says that what left and
what waits in the out queue are what ended, and that a pass with all zones gone
has been checked; hence a node that fails its checks stops with a zone left, its
pass never counts as complete (`HaltHolder`), and no later one can, on any rank.
A recorded pass is complete, because its node has gone on (`RecordedIsOver`).
The same invariant gives `HaltedPassIsLost`.

*GPU ring, data.* `DataInv` adds what the zones carry. A node in pass h holds
the zone of each position that arrived, with the aggregate the time-step rule
needs there, and once all are folded the aggregate of the whole pass
(`HeldData`). The zones that left are the first of those that ended, in the
order in which positions end (`PassEnds`); while the node works its out queue
is the rest of them, in that order (`WorkEnds`). What travels, on a channel or
across ranks, is placed by its pass and position and carries what the next pass
needs there (`Carried`). Neither the count of zones nor their types would show
that a record is right: it is, because the record is made when all is folded
(`RecordsExact`). `LevelsMatch` says that the history variable `level` counts
the passes a zone has ended; with `Spread`, no zone more than one step ahead of
a neighbour, each END is a step of the stencil and every other step stutters
(`GpuRefinesStencil`). The refinement does not depend on halts: a zone that ends
in a pass that fails later is still a legal step, it is only never recorded.

*GPU ring, buffers.* A zone is under way on an edge once its producer sent it
and until its consumer took it; its name is its pass and its position (`OnWay`,
from `SentOf` and `ArrivedOf`). While the consumer works, the lane of an edge,
be it a channel or an MPI link, holds these zones and no others, in the order
in which they were sent; a lane that was cut (its channel closed, its edge
poisoned) may lack the last of them (`LaneInv`). An earlier pass has sent no
fewer zones than a later one (`Descends`), all around the ring, so what is under
way was sent less than N zones ago (`SentLately`). The n-th zone over a boundary
uses buffer n modulo the size of the pool (`BufInv`): among fewer than N
consecutive numbers none has the buffer of the next send (`BuffersDiffer`).
That N buffers are enough is what `PoolIsLargeEnough` assumes of the pool; the
comment at `mpi_ring_edge.hpp:41` asks for n_zones + 2.

*GPU ring, exceptions.* What a node takes is the next zone it waits for
(`ArrivesInOrder`, from the order of the lane), so no arrival is out of order
and each is in the state the receiver expects. `Shaped` gives the state of every
zone that arrived from the number of computed positions alone, which makes each
transition a legal one (`ComputedShape`, `HeadLegal`). The rest is counting:
`OnHand` is what arrived and has not given its slot back, less the copy in
progress, and `Pools` bounds what the free list and the reserve hold from below
by it; while a zone is awaited at most three are in hand and never all N
(`FewOnHand`: one waits to leave, one is behind, the look-ahead is one), so
neither pool is empty when a slot is taken. This is where the sizes of the
pools enter (`PoolSizes`): the reserve of min(N, 6), the least of n+2 and
max(8, ...), the n+2 of a ring of one node. `FitInv` is the conjunction of the
three for the nodes that have not stopped.

*GPU ring, races.* `NoRace` says nothing about where a slot is, and alone it is
far from inductive. `RaceInv` adds who may use each slot next and what that user
waits for. A slot of a node is in one place at a time (`OneHolder`): a credit at
the producer, the node's own list, the reserve, a header under way, the copy a
header will announce, or the pass in hand. What touched the slot last comes
before what its next user waits for (`Cleared`): the free event for a credit,
the arrival event for a copy or a header, the node's own stream for the rest.
An operation is then ordered if the places it accesses are in hand (`HandsQuiet`)
or were just waited for (`CopyRuns`). `Ran` describes what a stream did, any
number of operations, by the places it accessed and the events it recorded;
`HoldsTaken`, `HoldsGiven` and `HoldsDrained` say how such a run and a slot that
moves keep `RaceInv`. That the reserve's slots have recorded events before they
become credits is `DrainRuns`. The pinned buffers are a node's own; that the
host refills the staging buffer only after its last copy is `Pinned`, with the
event recorded after that copy. `OneHolder` needs the proofs before it: a slot is
taken only from a list that is not empty, and the zone a header announces is the
one the node waits for.

*Forces.* `Total` is the sum of a function over a finite set. That it does not
depend on the order in which the fold picks the elements follows without
induction over data: a set of subsets that were counterexamples has a minimal
member (`MinimalSubset`), from which an element can be removed. With it, an
accumulator holds the wrapped sum of the contributions evaluated so far
(`HostSums`; `DeviceSums` while no contribution was out of range), since what is
wrapped in between does not matter (`WrapAdds`); host and device thus end with
the sum over the same set. The flags agree because the two sides look at the
same contributions: `HostChecks` (a pair is done only if both of its are in
range), `DeviceChecks` (the sticky flag is up exactly if an evaluation met one
that is not). Momentum needs that rounding to even is odd (`RoundEvenFacts`).

*Channel.* `NeverLostWakeup` needs that the flag is up in the notifying states
only. The refinement maps the variables the two modules share by name; waits,
notifications and spurious wakeups are stutters. Order rests on `OrderInv`:
received, then queued, is 1, 2, … without a gap.

*Membership.* The invariant `Guarded` says that in a running pass every atom
is within half the slack of its zone. The image of the atom that the guard
measured lies in the window of its slab (`ImageInWindow`); two atoms closer
than the cutoff have images closer than the cutoff (`NearImages`), so their
windows are those of the same or of adjacent zones (`NearZonesPeriodic`,
`NearZonesFree`), and such zones meet exactly once (`UniqueEvaluator`) because
two periodic zones were refused.

*Cells.* Cells are wider than the cutoff (`GridFacts`), so two coordinates
closer than it fall into the same or adjacent cells, clamped or not
(`AdjacentCells`), and the offsets lead to different cells since a grid that
wraps has three at least (`OffsetsDistinct`). What remains is that the images
the grid looks up are as close as the atoms (`FoldedNear`): the atom of the
grid's own zone is within half the slack of its slab, hence less than half a box
from the centre of the grid, and so is an atom near it, so both images are the
unique nearest ones. A grid that wraps has the whole box and its seam instead
(`NearRemainders`, `SeamCells`). The guard is not checked with fewer than three
zones; there it is not needed, because the axis is free or the grid wraps.

*Step.* Inductive with "the step is positive and at most dt_max". A step kept by
the hysteresis satisfies (dt − target)/dt < C3, hence dt·(1−C3) ≤ target, and a
target is at most each of its limits, or dt_min. The bound does not
accumulate over steps, which is the point: `KeptBound` speaks of the present
target only.

*Frames.* `LoopInv` ties the control point to the atoms: at the head of the
loop they made step − 1 whole steps, inside it a drift and one half-kick more.
`FrameInv` says that every frame is of a whole step and that the steps shown
are those due up to `steps_done`, except that a run that halts before its first
step shows none; `OneMoreFrame` is the induction step.

*Only model-checked:* liveness (`Termination`, `ImplementsFifo` with fairness),
which is outside TLAPS' reach here as are ENABLED and induction over data; the
rest of the GPU ring (what is in its slots, what is returned); and `ClusterList`, which rests on sorting and
folds.

## 5. Findings

* `pair_forces_overflow`: `fixed_accum.hpp:38-45` checks each contribution
  but not the sum. The ZoneFSM document (section 9) and the header of
  `conveyor.hpp` promise an exception and `Halt::Internal` on an overflow of
  the accumulator; the model reaches a wrong force with no exception.
* `serial_rescue`: on an overlap the serial loop returns between drift and
  second half-kick and `main` dumps the atoms as they are. `rescue.hpp`
  promises the last valid state, restart-capable.
* `gpu_halt`: poison is seen by a rank that still receives. A rank whose nodes
  have finished their last pass has left `run()` with no halt when another rank
  fails in a later pass. `mpi_ring_edge.hpp:17-19` says that a halt on any rank
  stops the whole ring, and the MPI test expects every rank to report a halt.
  What does hold, in `gpu_ranks`: every rank returns, no pass at or after a
  failed check is recorded anywhere, and a rank that reports no halt has
  recorded all its passes.

## 6. Abstractions to keep in mind

* Numbers. Lengths, times and forces are integers: rounding of floating-point
  numbers is modelled only where they become fixed-point. NaN is not modelled; a
  NaN speed escapes INV-4 in the code (`std::max` drops it) and is caught by
  the energy check at the end of the pass, which the model has as a fault.
* Signed overflow of the accumulator is undefined in C++; `PairForces` wraps, as
  the builds for the targets do (and as the device's atomic add must).
* Memory model. `halt_on_` is read relaxed inside a pass: `FlushDone` may miss a
  halt that is already set, `FlushSeesHalt` may see it. Statistics and result
  zones are written without synchronisation but read after the joins only.
* The checks `min_r2`, INV-4, StaleZone and energy are choices; the order in
  which they stand in `end_zone` does not matter, as each ends the pass.
* Exceptions thrown before the ring starts (`zone_force_pass` at t0) and after
  it ended (scattering of the result) are outside the model.
* An operation of a stream takes effect in `GpuStreams` when it is enqueued: one
  of the orders the device may choose. `raced` records whether two operations
  that meet at a slot or a pinned buffer, one of them writing, could have been
  ordered otherwise; while `NoRace` holds, every order gives the same memory.
  The upload of pass 1 goes through the legacy default stream, which waits for
  every stream; the model orders it with the node's own stream only, which can
  only show more races. The force accumulators of a slot are part of its image,
  its other scratch arrays are not.
* The fault "Device" stands for a failing CUDA call (`TDMD_CU` throws). It is
  placed where a node computes, ends the held head, finishes a pass, or sends
  within its rank once the copy is enqueued (`Enqueues`). The calls at the start
  of a pass, at arrivals, at the landing of zones on the host and in the copies
  for a boundary are not fault points: a failure there stops the thread by the
  same `set_halt`, between two of the places that are.
* The host halt flag, statistics and lambdas of the GPU conveyor are those of
  the CPU one. Credits never block a node that frees a slot: there are as many
  places in a credit channel as slots.
* MPI keeps the order of a link. A buffer is in use until its message is
  received (rendezvous); poison is small and always leaves at once. The
  destructor of an edge runs after all ranks have returned and is left out, as
  is the branch of `send` for a buffer in use on a poisoned edge: with the pool
  the comment asks for no send meets a buffer in use (`SendNeverWaits`).
* The mixed-precision wire format is its range halt; its rounding is left out.
* `ZoneCells` is one axis in whole numbers: an atom's own image and the clamp
  to the edge cells are exact, a cell is wider than the cutoff by a hair. Along
  x and y a grid is like that of a single zone.
* `ClusterList` computes exactly: the pad of 1e-9 that covers rounding in a
  query is zero, and floors are exact. The lists of neighbours are sets
  (the code sorts them), and the cell table with its stamps is the relation
  `Proposed`. One atom moves at a time; a step that moves many is many drifts
  without a call in between.
* `SerialDriver` always writes the rescue dump (the option `rescue_enabled` on).

## 7. Plan

Done: `ZoneFSM`, `ZoneRing`, `SpscChannel`/`BoundedFifo`, `TimeConveyor`/
`CausalStencil`, `ZoneMembership`/`ZoneCells`, `PairForces`, `SerialDriver`,
`ClusterList`, `GpuConveyor` with `GpuStreams` and `MpiRingEdge`. These are the
parts that keep state over several steps or share it between threads.

Next theorems, both for the GPU ring: `WholeZones` from who holds each slot
(`RaceInv`), and `ResultConsistent` from that and what each rank has recorded.

Not planned, with the reason in `PROJECT.json`: potentials and cutoffs, thermal
start, configuration and geometry readers, writers, occupancy probe,
benchmarks. They are pure functions or straight-line input and output.
