------------------------------ MODULE PassData ------------------------------
(***************************************************************************)
(* What the zones of a pass carry around the ring and the rules of a pass   *)
(* that do not depend on where its zones are kept: common to the conveyor   *)
(* on the CPU (include/tdmd/core/conveyor.hpp) and to its port to the GPU   *)
(* (include/tdmd/cuda/conveyor_gpu.cuh).                                    *)
(*                                                                         *)
(* Atoms are abstracted to what the ring protocol must get right: how far  *)
(* in time a zone's positions and velocities are, which zones' pairs its   *)
(* force contains, and from which pass a velocity aggregate (a Lambda) or  *)
(* a time step comes.                                                      *)
(***************************************************************************)
EXTENDS ZoneRing, ZoneFSM

\* Mutant: every pass starts at zone 0 although the head is held back.
RotationFixed(h) == 0
Rotation(h) == IF Pbc THEN (h - 1) % N ELSE 0
ZoneAt(h, j) == (Rotation(h) + j) % N
DeferHead == Pbc /\ N > 1
LastNeeded(j) == IF j + 1 < N THEN j + 1 ELSE N - 1

\* The arrival whose aggregate the buffer of the pass is forecast from.
\* Mutant: the first one, one pass too old.
ForecastAtHead == 0
ForecastPosition == IF N > 1 THEN 1 ELSE 0

-----------------------------------------------------------------------------
(* A Lambda is the aggregate of a pass over the zones folded into it; a time *)
(* step is named by the pass it belongs to and the Lambda auto_dt computed   *)
(* it from; a zone's body by how often it was drifted (x) and half-kicked    *)
(* (v) and by the force ledger of its last END (f).                          *)

Lambdas == [pass: Nat, zones: SUBSET Zones]
NoLambda == [pass |-> 0, zones |-> {}]
FullLambda(h) == [pass |-> h, zones |-> Zones]

TimeSteps == [pass: Nat, src: Lambdas]
NoDt == [pass |-> 0, src |-> NoLambda]
DtInitial == [pass |-> 1, src |-> NoLambda]
AutoDt(lam, dt) == [pass |-> dt.pass + 1, src |-> lam]

Bodies == [x: Nat, v: Nat, f: [Zones -> Nat]]
NoBody == [x |-> 0, v |-> 0, f |-> NoForces]
CompleteBody(i, h) == [x |-> h, v |-> 2 * h, f |-> FullForces(i)]

\* Second half-kick, with the forces of the pass.
Kicked(body, force) == [body EXCEPT !.f = force, !.v = @ + 1]

NoStats == [dt |-> NoDt, agg |-> NoLambda]
PassRecords == [dt: TimeSteps, agg: Lambdas]

-----------------------------------------------------------------------------
(* What END checks before it lets a zone go, and what a pass must record.    *)

WantMask(j) ==
  IF j = 0 THEN IF DeferHead THEN {"closure"} ELSE {} ELSE {"prev"}

EndLegal(fsm, j) == fsm.contrib_mask = WantMask(j) /\ Allowed(fsm.type, "END")

\* The pass whose aggregate decides the time step of pass h.
Lag(h) == IF h > N THEN h - N ELSE 0
ScheduledDt(h) ==
  IF h = 1 THEN DtInitial ELSE [pass |-> h, src |-> FullLambda(Lag(h))]

=============================================================================
