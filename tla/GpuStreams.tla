----------------------------- MODULE GpuStreams -----------------------------
(***************************************************************************)
(* The device as the GPU conveyor uses it (include/tdmd/cuda/              *)
(* conveyor_gpu.cuh): each node enqueues kernels and copies on its own     *)
(* stream, streams run concurrently, and only events and host              *)
(* synchronisation order them.                                             *)
(*                                                                         *)
(* An operation takes effect when it is enqueued.  That is one execution   *)
(* among the many the device may choose; "raced" records whether some other*)
(* order of the same operations was possible for two that meet at a place, *)
(* one of them writing.  While it is FALSE every execution has the results *)
(* of this one.  The order is kept as vector clocks, as in a race detector.*)
(*                                                                         *)
(* Every operation maps a device to a device.  CUDA itself is outside the  *)
(* repository: this module is what its calls mean to the conveyor.         *)
(***************************************************************************)
EXTENDS Integers

CONSTANTS Streams,  \* one per node
          Places,   \* device slots and pinned host buffers
          Events,   \* cudaEvent_t objects
          Images,   \* what a place may hold
          Blank     \* what a place holds before it is first written

\* A clock counts, for each stream, the operations that come before.
Clocks == [Streams -> Nat]
Never == [t \in Streams |-> 0]
Before(c, d) == \A t \in Streams : c[t] <= d[t]
Merge(c, d) == [t \in Streams |-> IF c[t] >= d[t] THEN c[t] ELSE d[t]]

\* clock: what the next operation of a stream comes after, itself counted;
\* event: the clock at the last record; host: how many operations of its own
\* stream the host thread of a node knows to be complete; writes and reads: the
\* last operation of each stream that wrote, read a place.
Devices ==
  [clock: [Streams -> Clocks], event: [Events -> Clocks],
   host: [Streams -> Nat], mem: [Places -> Images],
   writes: [Places -> Clocks], reads: [Places -> Clocks], raced: BOOLEAN]

IdleDevice ==
  [clock  |-> [t \in Streams |-> Never], event |-> [e \in Events |-> Never],
   host   |-> [t \in Streams |-> 0], mem |-> [p \in Places |-> Blank],
   writes |-> [p \in Places |-> Never], reads |-> [p \in Places |-> Never],
   raced  |-> FALSE]

\* The accesses of one operation of stream k: it reads the places R and writes
\* the places W.
Access(d, k, R, W) ==
  LET now == d.clock[k][k] + 1
      Touched(last, S) == [p \in Places |-> IF p \in S THEN [last[p] EXCEPT ![k] = now]
                                            ELSE last[p]]
  IN  [d EXCEPT
        !.clock[k][k] = now,
        !.reads = Touched(d.reads, R),
        !.writes = Touched(d.writes, W),
        !.raced = \/ d.raced
                  \/ \E p \in R \cup W : ~Before(d.writes[p], d.clock[k])
                  \/ \E p \in W : ~Before(d.reads[p], d.clock[k])]

Reading(d, k, R) == Access(d, k, R, {})

\* An operation that leaves at place p what Image makes of the memory.  (The
\* singleton makes TLC compute d once.)
Kernel(d, k, R, p, Image(_)) ==
  CHOOSE e \in {[Access(c, k, R, {p}) EXCEPT !.mem[p] = Image(c.mem)] : c \in {d}} :
    TRUE

\* cudaEventRecord and cudaStreamWaitEvent: waiting for an event that was never
\* recorded orders nothing.
Record(d, k, e) == [d EXCEPT !.event[e] = d.clock[k]]
WaitEvent(d, k, e) == [d EXCEPT !.clock[k] = Merge(d.clock[k], d.event[e])]

\* cudaStreamSynchronize and cudaEventSynchronize, by the host thread of k.
StreamSync(d, k) == [d EXCEPT !.host[k] = d.clock[k][k]]
EventSync(d, k, e) ==
  [d EXCEPT !.host[k] = IF d.event[e][k] > d.host[k] THEN d.event[e][k]
                        ELSE d.host[k]]

\* The host thread of k uses its pinned buffer p: nothing its stream enqueued
\* on that buffer may still be under way.
HostUse(d, k, p) ==
  [d EXCEPT !.raced = d.raced \/ d.writes[p][k] > d.host[k]
                              \/ d.reads[p][k] > d.host[k]]
HostWrite(d, k, p, image) == [HostUse(d, k, p) EXCEPT !.mem[p] = image]

=============================================================================
