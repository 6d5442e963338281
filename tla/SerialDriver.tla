---------------------------- MODULE SerialDriver ----------------------------
(***************************************************************************)
(* The serial time loop (include/tdmd/core/simulation.hpp), the step rule  *)
(* it shares with the ring (core/buffer.hpp) and what the program does     *)
(* with its outcome (src/main.cpp).                                        *)
(*                                                                         *)
(* The atoms are two counters: how often they were drifted (x) and         *)
(* half-kicked (v).  The fastest speed and the temperature cap after each  *)
(* step are inputs; times, speeds and the displacement bound are whole     *)
(* numbers.                                                                *)
(***************************************************************************)
EXTENDS Integers

CONSTANTS Steps,       \* SimOptions::steps
          AutoStep,    \* SimOptions::auto_step
          FrameEvery,  \* SimOptions::frame_every (0: no frames)
          Displacement,\* C1 * cell_size
          C3Num, C3Den,\* C3 as a fraction
          DtMin, DtMax,
          DtInitials,  \* values of timestep.dt_initial
          Speeds,      \* values of v_max; those not 0 divide Displacement
          Caps         \* values of temperature_limited_dt

ASSUME DriverAssumption ==
  /\ Steps \in Nat /\ FrameEvery \in Nat /\ AutoStep \in BOOLEAN
  /\ C3Num \in Nat /\ C3Den \in Nat \ {0}
  /\ {Displacement, DtMin, DtMax} \subseteq Nat \ {0} /\ DtMin <= DtMax
  /\ DtInitials \subseteq 1 .. DtMax
  /\ Speeds \subseteq Nat /\ Caps \subseteq Nat
  /\ \A s \in Speeds \ {0} : Displacement % s = 0

VARIABLES at,        \* control point
          step,      \* the loop counter
          x, v,      \* drifts and half-kicks of the atoms
          dt,
          vmax,      \* v_max_prev
          cap,       \* the temperature cap computed with it
          frames,    \* what on_frame has written
          steps_done, halt,
          rescue,    \* states dumped (none or one)
          code       \* exit code of the program

atoms == <<x, v>>
vars == <<at, step, x, v, dt, vmax, cap, frames, steps_done, halt, rescue, code>>

State == [x |-> x, v |-> v]
Frame(h, xs, vs) == [step |-> h, x |-> xs, v |-> vs]

Init ==
  /\ at = "start" /\ step = 0
  /\ x = 0 /\ v = 0
  /\ dt \in DtInitials /\ vmax = 0 /\ cap = 0
  /\ frames = {}
  /\ steps_done = 0 /\ halt = "None"
  /\ rescue = {} /\ code = 0

-----------------------------------------------------------------------------
(* The step rule.                                                            *)

Lesser(s, t) == IF s <= t THEN s ELSE t
Larger(s, t) == IF s <= t THEN t ELSE s
Clamped(t) == Lesser(Larger(t, DtMin), DtMax)
Change(s, t) == Larger(s - t, t - s)

\* Mutant: the inverted threshold that test_buffer.cpp's comment recalls.
KeepsInverted(target, cur) ==
  /\ C3Num < C3Den
  /\ Change(target, cur) * C3Den < (C3Den - C3Num) * cur

\* C3: the step is kept while the relative change is below C3; C3 <= 0 never
\* changes it, C3 >= 1 always does.
Keeps(target, cur) ==
  \/ C3Num = 0
  \/ C3Num < C3Den /\ Change(target, cur) * C3Den < C3Num * cur

\* auto_dt.
AutoDt(speed, cur, limit) ==
  IF speed = 0 THEN cur
  ELSE LET target == Clamped(Lesser(Displacement \div speed, limit))
       IN  IF Keeps(target, cur) THEN cur ELSE target

-----------------------------------------------------------------------------
(* run_simulation.                                                           *)

HaltWith(kind) ==
  /\ halt' = kind /\ at' = "stopped"
  /\ UNCHANGED <<step, dt, vmax, cap, frames, steps_done>>

\* Forces and overlap check at t0, the frame of step 0, v_max of t0.
Start ==
  /\ at = "start"
  /\ \/ HaltWith("Overlap")
     \/ /\ at' = "step" /\ step' = 1
        /\ frames' = IF FrameEvery > 0 THEN {Frame(0, x, v)} ELSE {}
        /\ vmax' \in Speeds
        /\ UNCHANGED <<dt, cap, steps_done, halt>>
  /\ UNCHANGED <<atoms, rescue, code>>

\* Mutant: one step too many.
FirstHalfOnceMore ==
  /\ at = "step" /\ step <= Steps + 1
  /\ at' = "compute"
  /\ x' = x + 1 /\ v' = v + 1
  /\ UNCHANGED <<step, dt, vmax, cap, frames, steps_done, halt, rescue, code>>

\* first_half: half-kick and drift.
FirstHalf ==
  /\ at = "step" /\ step <= Steps
  /\ at' = "compute"
  /\ x' = x + 1 /\ v' = v + 1
  /\ UNCHANGED <<step, dt, vmax, cap, frames, steps_done, halt, rescue, code>>

\* Forces at the new positions; an overlap returns at once.
Compute ==
  /\ at = "compute"
  /\ \/ HaltWith("Overlap")
     \/ at' = "kick" /\ UNCHANGED <<step, dt, vmax, cap, frames, steps_done, halt>>
  /\ UNCHANGED <<atoms, rescue, code>>

\* Mutant: the frame is written although the step may still halt.
FrameBeforeChecks(h) == {Frame(h, x', v')}
FrameAfterChecks(h) == IF halt' = "None" THEN {Frame(h, x', v')} ELSE {}
FrameOf(h) ==
  IF FrameEvery > 0 /\ h % FrameEvery = 0 THEN FrameAfterChecks(h) ELSE {}

\* second_half, the energy check, INV-4, and the end of the loop body.
SecondHalf ==
  /\ at = "kick"
  /\ v' = v + 1 /\ x' = x
  /\ \/ \E kind \in {"NonFiniteEnergy", "Causality"} :
          /\ halt' = kind /\ at' = "stopped"
          /\ UNCHANGED <<step, dt, vmax, cap, steps_done>>
     \/ /\ halt' = halt
        /\ vmax' \in Speeds /\ cap' \in Caps
        /\ dt' = IF AutoStep THEN AutoDt(vmax', dt, cap') ELSE dt
        /\ steps_done' = step
        /\ step' = step + 1 /\ at' = "step"
  /\ frames' = frames \cup FrameOf(step)
  /\ UNCHANGED <<rescue, code>>

Finish ==
  /\ at = "step" /\ step > Steps
  /\ at' = "stopped"
  /\ UNCHANGED <<step, atoms, dt, vmax, cap, frames, steps_done, halt, rescue, code>>

\* main: a rescue dump of the atoms as they are, unless the energy is not
\* finite, and an exit code of its own for each halt.
ExitCode(kind) ==
  CASE kind = "None" -> 0 [] kind = "NonFiniteEnergy" -> 2
    [] kind = "Causality" -> 3 [] kind = "Overlap" -> 4

Exit ==
  /\ at = "stopped"
  /\ at' = "exited"
  /\ rescue' = IF halt \in {"None", "NonFiniteEnergy"} THEN {} ELSE {State}
  /\ code' = ExitCode(halt)
  /\ UNCHANGED <<step, atoms, dt, vmax, cap, frames, steps_done, halt>>

Exited == at = "exited" /\ UNCHANGED vars

Next == Start \/ FirstHalf \/ Compute \/ SecondHalf \/ Finish \/ Exit \/ Exited
Spec == Init /\ [][Next]_vars

-----------------------------------------------------------------------------
TypeOK ==
  /\ at \in {"start", "step", "compute", "kick", "stopped", "exited"}
  /\ step \in 0 .. Steps + 1
  /\ {x, v, dt, vmax, cap, steps_done, code} \subseteq Nat
  /\ halt \in {"None", "Overlap", "NonFiniteEnergy", "Causality"}

\* The step taken after a completed one is never above dt_max; and the fastest
\* atom stays within the displacement bound, and the hottest within the
\* temperature cap, up to what the floor dt_min and the hysteresis may keep of
\* all steps before, together a factor 1/(1-C3) (for 0 < C3 < 1).
Kept(limit) == dt * (C3Den - C3Num) <= Larger(limit, DtMin) * C3Den
StepBounded ==
  /\ dt <= DtMax
  /\ AutoStep /\ steps_done > 0 /\ vmax > 0 /\ C3Num \in 1 .. C3Den - 1 =>
       Kept(Displacement \div vmax) /\ Kept(cap)

\* Frames show whole steps, one for every FrameEvery-th step that counts, and
\* none of a step that halted.
FramesWhole ==
  /\ \A f \in frames : f.x = f.step /\ f.v = 2 * f.step
  /\ at = "exited" /\ FrameEvery > 0 =>
       {f.step : f \in frames} =
         IF x = 0 /\ halt # "None" THEN {}
         ELSE {h \in 0 .. steps_done : h % FrameEvery = 0}

\* A dump holds the last valid state and an NVE run can be restarted from it:
\* positions and velocities of the same time (rescue.hpp's comment).
RescueRestartable == \A s \in rescue : s.v = 2 * s.x
=============================================================================
