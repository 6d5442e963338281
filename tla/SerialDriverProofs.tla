------------------------- MODULE SerialDriverProofs -------------------------
(***************************************************************************)
(* Proofs about SerialDriver: its types, the bounds of the time step for   *)
(* every choice of the coefficients and every history of speeds and        *)
(* forces, and the frames it writes.                                       *)
(***************************************************************************)
EXTENDS SerialDriver, TLAPS

\* What the bound on the step rests on: the loop's numbers are numbers, the step
\* is positive and within dt_max, and no step is done before the loop starts.
Numbers ==
  /\ dt \in 1 .. DtMax
  /\ (vmax \in Nat /\ cap \in Nat)
  /\ steps_done \in Nat /\ step \in Nat
  /\ (at = "start" => steps_done = 0)

Inv == Numbers /\ StepBounded

\* A target clamped to dt_min and dt_max.
LEMMA ClampedBounds ==
  ASSUME NEW t \in Nat
  PROVE  /\ Clamped(t) \in 1 .. DtMax
         /\ Clamped(t) <= Larger(t, DtMin)
BY DriverAssumption DEF DriverAssumption, Clamped, Lesser, Larger

\* The hysteresis keeps at most 1/(1-C3) of the target it ignores.
LEMMA KeptBound ==
  ASSUME NEW t \in Nat, NEW cur \in Nat, Keeps(t, cur), C3Num # 0
  PROVE  cur * (C3Den - C3Num) <= t * C3Den
<1>1. C3Num \in Nat /\ C3Den \in Nat /\ C3Num < C3Den
  BY DriverAssumption DEF DriverAssumption, Keeps
<1>2. (cur - t) * C3Den <= C3Num * cur
  <2>1. cur - t <= Change(t, cur) /\ Change(t, cur) \in Nat
    BY DEF Change, Larger
  <2>2. \A p, q, w \in Int : p <= q /\ w >= 0 => p * w <= q * w
    BY SMT
  <2>3. (cur - t) * C3Den <= Change(t, cur) * C3Den
    BY <1>1, <2>1, <2>2
  <2>4. Change(t, cur) * C3Den < C3Num * cur
    BY DEF Keeps
  <2>5. cur - t \in Int
    OBVIOUS
  <2>6. QED
    BY <1>1, <2>1, <2>3, <2>4, <2>5
<1>3. (cur - t) * C3Den = cur * C3Den - t * C3Den
  BY <1>1
<1>4. cur * (C3Den - C3Num) = cur * C3Den - C3Num * cur
  BY <1>1
<1> QED BY <1>1, <1>2, <1>3, <1>4

\* auto_dt: the new step is at most dt_max, and within the factor of every limit
\* it was asked to respect.
LEMMA AutoDtBounded ==
  ASSUME NEW speed \in Speeds, NEW cur \in 1 .. DtMax, NEW limit \in Nat
  PROVE  /\ AutoDt(speed, cur, limit) \in 1 .. DtMax
         /\ speed > 0 /\ C3Num \in 1 .. C3Den - 1 =>
              /\ AutoDt(speed, cur, limit) * (C3Den - C3Num)
                   <= Larger(Displacement \div speed, DtMin) * C3Den
              /\ AutoDt(speed, cur, limit) * (C3Den - C3Num)
                   <= Larger(limit, DtMin) * C3Den
<1>1. speed \in Nat /\ C3Num \in Nat /\ {C3Den, DtMin, DtMax, Displacement} \subseteq Nat \ {0}
  BY DriverAssumption DEF DriverAssumption
<1>2. CASE speed = 0
  BY <1>2, <1>1 DEF AutoDt
<1>3. CASE speed > 0
  <2> DEFINE far == Displacement \div speed
             asked == Lesser(far, limit)
             target == Clamped(asked)
  <2>1. far \in Nat
    BY <1>1, <1>3
  <2> HIDE DEF far
  <2>2. asked \in Nat /\ asked <= far /\ asked <= limit
    BY <2>1 DEF Lesser
  <2>3. /\ target \in 1 .. DtMax
        /\ target <= Larger(asked, DtMin)
    BY <2>2, ClampedBounds
  <2>4. target <= Larger(far, DtMin) /\ target <= Larger(limit, DtMin)
    BY <1>1, <2>1, <2>2, <2>3 DEF Larger
  <2> HIDE DEF target, asked
  <2>5. AutoDt(speed, cur, limit) = IF Keeps(target, cur) THEN cur ELSE target
    BY <1>3 DEF AutoDt, target, asked, far
  <2>6. AutoDt(speed, cur, limit) \in 1 .. DtMax
    BY <2>3, <2>5
  <2>7. ASSUME C3Num \in 1 .. C3Den - 1, NEW bound \in Nat, target <= bound
        PROVE  AutoDt(speed, cur, limit) * (C3Den - C3Num) <= bound * C3Den
    <3>1. target * C3Den <= bound * C3Den
      BY <1>1, <2>3, <2>7
    <3>2. AutoDt(speed, cur, limit) * (C3Den - C3Num) <= target * C3Den
      <4>1. CASE Keeps(target, cur)
        BY <4>1, <2>3, <2>5, <2>7, <1>1, KeptBound
      <4>2. CASE ~Keeps(target, cur)
        <5>1. target * (C3Den - C3Num) = target * C3Den - target * C3Num
          BY <1>1, <2>3
        <5>2. target * C3Num \in Nat
          BY <1>1, <2>3
        <5>3. target * C3Den \in Nat
          BY <1>1, <2>3
        <5>4. QED
          BY <4>2, <5>1, <5>2, <5>3, <2>5
      <4>3. QED
        BY <4>1, <4>2
    <3>3. /\ AutoDt(speed, cur, limit) * (C3Den - C3Num) \in Int
          /\ target * C3Den \in Int /\ bound * C3Den \in Int
      BY <1>1, <2>3, <2>6
    <3>4. QED
      BY <3>1, <3>2, <3>3
  <2>8. Larger(far, DtMin) \in Nat /\ Larger(limit, DtMin) \in Nat
    BY <1>1, <2>1 DEF Larger
  <2>9. QED
    BY <2>4, <2>6, <2>7, <2>8 DEF far
<1> QED BY <1>1, <1>2, <1>3

LEMMA InvInit == Init => Inv
BY DriverAssumption DEF DriverAssumption, Init, Inv, Numbers, StepBounded

LEMMA InvNext == Inv /\ [Next]_vars => Inv'
<1> SUFFICES ASSUME Inv, [Next]_vars PROVE Inv'
  OBVIOUS
<1> USE DEF Inv
<1>0. Speeds \subseteq Nat /\ Caps \subseteq Nat
  BY DriverAssumption DEF DriverAssumption
<1>1. CASE Start
  <2>1. steps_done' = 0 /\ dt' = dt /\ cap' = cap /\ at' # "start"
    BY <1>1 DEF Start, HaltWith, Numbers
  <2>2. step' \in Nat /\ vmax' \in Nat
    <3>1. CASE step' = step /\ vmax' = vmax
      BY <3>1 DEF Numbers
    <3>2. CASE step' = 1 /\ vmax' \in Speeds
      BY <1>0, <3>2
    <3>3. QED
      BY <1>1, <3>1, <3>2 DEF Start, HaltWith
  <2>3. Numbers'
    BY <2>1, <2>2 DEF Numbers
  <2>4. StepBounded'
    <3>1. dt' <= DtMax /\ ~(steps_done' > 0)
      BY <2>1, DriverAssumption DEF DriverAssumption, Numbers
    <3>2. QED
      BY <3>1 DEF StepBounded
  <2>5. QED
    BY <2>3, <2>4
<1>2. CASE SecondHalf
  <2>1. CASE UNCHANGED <<step, dt, vmax, cap, steps_done>> /\ at' = "stopped"
    BY <2>1 DEF Numbers, StepBounded, Kept
  <2>2. CASE /\ vmax' \in Speeds /\ cap' \in Caps
             /\ dt' = IF AutoStep THEN AutoDt(vmax', dt, cap') ELSE dt
             /\ steps_done' = step /\ step' = step + 1 /\ at' = "step"
    <3>1. dt \in 1 .. DtMax /\ vmax' \in Nat /\ cap' \in Nat
      BY <1>0, <2>2 DEF Numbers
    <3>2. AutoDt(vmax', dt, cap') \in 1 .. DtMax
      BY <2>2, <3>1, AutoDtBounded
    <3>3. Numbers'
      BY <2>2, <3>1, <3>2 DEF Numbers
    <3>4. dt' <= DtMax
      BY <3>3, DriverAssumption DEF Numbers, DriverAssumption
    <3>5. ASSUME AutoStep, vmax' > 0, C3Num \in 1 .. C3Den - 1
          PROVE  Kept(Displacement \div vmax)' /\ Kept(cap)'
      <4>1. dt' = AutoDt(vmax', dt, cap')
        BY <2>2, <3>5
      <4>2. QED
        BY <2>2, <3>1, <3>5, <4>1, AutoDtBounded DEF Kept
    <3>6. StepBounded'
      BY <3>4, <3>5 DEF StepBounded
    <3>7. QED
      BY <3>3, <3>6
  <2>3. QED
    BY <1>2, <2>1, <2>2 DEF SecondHalf
<1>3. CASE FirstHalf \/ Compute \/ Finish \/ Exit \/ Exited \/ UNCHANGED vars
  <2>1. UNCHANGED <<step, dt, vmax, cap, steps_done>>
    BY <1>3 DEF FirstHalf, Compute, HaltWith, Finish, Exit, Exited, vars, atoms
  <2>2. at' = "start" => at = "start"
    BY <1>3 DEF FirstHalf, Compute, HaltWith, Finish, Exit, Exited, vars, atoms
  <2>3. QED
    BY <2>1, <2>2 DEF Numbers, StepBounded, Kept
<1> QED BY <1>1, <1>2, <1>3 DEF Next

\* After every completed step the next time step is at most dt_max, moves the
\* fastest atom at most C1*cell_size/(1-C3) (or what dt_min moves it) and stays
\* within the temperature cap up to the same factor, for all coefficients.
THEOREM StepStaysBounded == Spec => []StepBounded
<1>1. Inv => StepBounded
  BY DEF Inv
<1> QED BY <1>1, InvInit, InvNext, PTL DEF Spec

-----------------------------------------------------------------------------
(* The frames.                                                               *)

InLoop == at \in {"step", "compute", "kick"}

\* Where the loop is tells how far the atoms are: whole steps between two passes
\* of the loop, a drift and a half-kick more inside one.
LoopInv ==
  /\ at \in {"start", "step", "compute", "kick", "stopped", "exited"}
  /\ halt \in {"None", "Overlap", "NonFiniteEnergy", "Causality"}
  /\ x \in Nat /\ v \in Nat /\ code \in Nat /\ step \in 0 .. Steps + 1
  /\ at = "start" => x = 0 /\ v = 0 /\ halt = "None" /\ frames = {}
  /\ InLoop => halt = "None" /\ step >= 1 /\ steps_done = step - 1
  /\ at = "step" => x = step - 1 /\ v = 2 * x
  /\ at \in {"compute", "kick"} => step <= Steps /\ x = step /\ v = 2 * step - 1

\* The steps that have a frame.
Shown == {f.step : f \in frames}
Due(h) == {g \in 0 .. h : g % FrameEvery = 0}

FrameInv ==
  /\ \A f \in frames : \E h \in Nat : f = Frame(h, h, 2 * h)
  /\ at # "start" /\ FrameEvery > 0 =>
       Shown = IF x = 0 /\ halt # "None" THEN {} ELSE Due(steps_done)

WholeInv == Inv /\ LoopInv /\ FrameInv

\* One more frame: those due up to h - 1 and the one of h, if it is due, are
\* those due up to h.
LEMMA OneMoreFrame ==
  \A F, G : \A h \in Nat \ {0} :
    /\ FrameEvery > 0
    /\ {f.step : f \in F} = Due(h - 1)
    /\ G = IF h % FrameEvery = 0 THEN {Frame(h, h, 2 * h)} ELSE {}
    => {f.step : f \in F \cup G} = Due(h)
<1> SUFFICES ASSUME NEW F, NEW G, NEW h \in Nat \ {0}, FrameEvery > 0,
                    {f.step : f \in F} = Due(h - 1),
                    G = IF h % FrameEvery = 0 THEN {Frame(h, h, 2 * h)} ELSE {}
             PROVE  {f.step : f \in F \cup G} = Due(h)
  OBVIOUS
<1>1. 0 .. h = (0 .. h - 1) \cup {h}
  OBVIOUS
<1>2. {f.step : f \in F \cup G} = {f.step : f \in F} \cup {f.step : f \in G}
  OBVIOUS
<1>3. CASE h % FrameEvery = 0
  <2>1. Due(h) = Due(h - 1) \cup {h}
    BY <1>1, <1>3 DEF Due
  <2>2. Frame(h, h, 2 * h).step = h
    BY DEF Frame
  <2>3. G = {Frame(h, h, 2 * h)}
    BY <1>3
  <2>4. {f.step : f \in G} = {h}
    BY <2>2, <2>3
  <2>5. QED
    BY <1>2, <2>1, <2>4
<1>4. CASE h % FrameEvery # 0
  <2>1. Due(h) = Due(h - 1)
    BY <1>1, <1>4 DEF Due
  <2>2. G = {}
    BY <1>4
  <2>3. {f.step : f \in G} = {}
    BY <2>2
  <2>4. QED
    BY <1>2, <2>1, <2>3
<1> QED BY <1>3, <1>4

LEMMA WholeInit == Init => WholeInv
BY InvInit, DriverAssumption
   DEF DriverAssumption, Init, WholeInv, LoopInv, FrameInv, InLoop

LEMMA WholeNext == WholeInv /\ [Next]_vars => WholeInv'
<1> SUFFICES ASSUME WholeInv, [Next]_vars PROVE LoopInv' /\ FrameInv'
  BY InvNext DEF WholeInv
<1> USE DEF WholeInv
<1>0. Steps \in Nat /\ FrameEvery \in Nat
  BY DriverAssumption DEF DriverAssumption
<1>1. CASE Start
  <2>1. UNCHANGED <<x, v, code, steps_done>> /\ at = "start"
    BY <1>1 DEF Start, HaltWith, atoms
  <2>2. x = 0 /\ v = 0 /\ steps_done = 0 /\ frames = {} /\ step \in 0 .. Steps + 1
    BY <2>1 DEF LoopInv, Inv, Numbers
  <2>3. CASE HaltWith("Overlap")
    <3>1. at' = "stopped" /\ halt' = "Overlap" /\ frames' = {} /\ step' = step
      BY <2>2, <2>3 DEF HaltWith
    <3>2. LoopInv'
      BY <2>1, <3>1 DEF LoopInv, InLoop
    <3>3. FrameInv'
      BY <2>1, <2>2, <3>1 DEF FrameInv, Shown
    <3>4. QED
      BY <3>2, <3>3
  <2>4. CASE ~HaltWith("Overlap")
    <3>1. /\ at' = "step" /\ step' = 1 /\ halt' = "None"
          /\ frames' = IF FrameEvery > 0 THEN {Frame(0, 0, 0)} ELSE {}
      BY <1>1, <2>1, <2>2, <2>4 DEF Start, LoopInv
    <3>2. LoopInv'
      BY <1>0, <2>1, <2>2, <3>1 DEF LoopInv, InLoop
    <3>3. FrameEvery > 0 => Shown' = {0} /\ Due(steps_done)' = {0}
      BY <1>0, <2>1, <2>2, <3>1 DEF Shown, Due, Frame
    <3>4. \A f \in frames' : f = Frame(0, 0, 2 * 0)
      BY <3>1
    <3>5. FrameInv'
      BY <3>1, <3>3, <3>4 DEF FrameInv
    <3>6. QED
      BY <3>2, <3>5
  <2>5. QED
    BY <2>3, <2>4
<1>2. CASE FirstHalf
  <2>1. /\ at = "step" /\ step <= Steps /\ at' = "compute"
        /\ x' = x + 1 /\ v' = v + 1
        /\ UNCHANGED <<step, frames, steps_done, halt, code>>
    BY <1>2 DEF FirstHalf
  <2>2. halt = "None"
    BY <2>1 DEF LoopInv, InLoop
  <2>3. LoopInv'
    BY <2>1 DEF LoopInv, InLoop
  <2>4. FrameInv'
    BY <2>1, <2>2 DEF FrameInv, Shown, Due
  <2>5. QED
    BY <2>3, <2>4
<1>3. CASE Compute
  <2>1. /\ at = "compute" /\ UNCHANGED <<x, v, step, frames, steps_done, code>>
        /\ \/ halt' = "Overlap" /\ at' = "stopped"
           \/ at' = "kick" /\ halt' = halt
    BY <1>3 DEF Compute, HaltWith, atoms
  <2>2. x # 0 /\ halt = "None"
    BY <2>1 DEF LoopInv, InLoop
  <2>3. LoopInv'
    BY <2>1 DEF LoopInv, InLoop
  <2>4. FrameInv'
    BY <2>1, <2>2 DEF FrameInv, Shown, Due
  <2>5. QED
    BY <2>3, <2>4
<1>4. CASE SecondHalf
  <2>1. /\ at = "kick" /\ v' = v + 1 /\ x' = x /\ code' = code
        /\ frames' = frames \cup FrameOf(step)
    BY <1>4 DEF SecondHalf
  <2>2. /\ halt = "None" /\ step \in 1 .. Steps /\ steps_done = step - 1
        /\ x = step /\ v = 2 * step - 1
    BY <1>0, <2>1 DEF LoopInv, InLoop
  <2>3. CASE \E kind \in {"NonFiniteEnergy", "Causality"} :
               /\ halt' = kind /\ at' = "stopped"
               /\ UNCHANGED <<step, dt, vmax, cap, steps_done>>
    <3>1. halt' \in {"NonFiniteEnergy", "Causality"} /\ at' = "stopped"
          /\ step' = step /\ steps_done' = steps_done
      BY <2>3
    <3>2. frames' = frames
      BY <2>1, <3>1 DEF FrameOf, FrameAfterChecks
    <3>3. LoopInv'
      BY <2>1, <2>2, <3>1 DEF LoopInv, InLoop
    <3>4. FrameInv'
      <4>1. x # 0 /\ x' # 0 /\ halt = "None" /\ at # "start"
        BY <2>1, <2>2
      <4>2. Shown' = Shown /\ Due(steps_done)' = Due(steps_done)
        BY <3>1, <3>2 DEF Shown, Due
      <4>3. FrameEvery > 0 => Shown = Due(steps_done)
        BY <4>1 DEF FrameInv
      <4>4. FrameEvery > 0 => Shown' = Due(steps_done)'
        BY <4>2, <4>3
      <4>5. \A f \in frames' : \E h \in Nat : f = Frame(h, h, 2 * h)
        BY <3>2 DEF FrameInv
      <4>6. QED
        BY <4>1, <4>4, <4>5 DEF FrameInv
    <3>5. QED
      BY <3>3, <3>4
  <2>4. CASE halt' = halt /\ steps_done' = step /\ step' = step + 1 /\ at' = "step"
    <3>1. LoopInv'
      BY <1>0, <2>1, <2>2, <2>4 DEF LoopInv, InLoop
    <3>2. FrameOf(step) = IF FrameEvery > 0 /\ step % FrameEvery = 0
                          THEN {Frame(step, step, 2 * step)} ELSE {}
      <4>1. x' = step /\ v' = 2 * step
        BY <2>1, <2>2
      <4>2. halt' = "None"
        BY <2>2, <2>4
      <4>3. QED
        BY <4>1, <4>2 DEF FrameOf, FrameAfterChecks
    <3>3. \A f \in frames' : \E h \in Nat : f = Frame(h, h, 2 * h)
      BY <2>1, <2>2, <3>2 DEF FrameInv
    <3>4. FrameEvery > 0 => Shown' = Due(step)
      <4>1. SUFFICES ASSUME FrameEvery > 0 PROVE Shown' = Due(step)
        OBVIOUS
      <4>2. {f.step : f \in frames} = Due(step - 1)
        BY <2>1, <2>2, <4>1 DEF FrameInv, Shown
      <4>3. {f.step : f \in frames \cup FrameOf(step)} = Due(step)
        <5>1. step \in Nat \ {0}
          BY <1>0, <2>2
        <5>2. FrameOf(step) = IF step % FrameEvery = 0
                              THEN {Frame(step, step, 2 * step)} ELSE {}
          BY <3>2, <4>1
        <5>3. QED
          BY <4>1, <4>2, <5>1, <5>2, OneMoreFrame
      <4>4. QED
        BY <2>1, <4>3 DEF Shown
    <3>5. FrameInv'
      <4>1. Due(steps_done)' = Due(step)
        BY <2>4 DEF Due
      <4>2. halt' = "None"
        BY <2>2, <2>4
      <4>3. QED
        BY <3>3, <3>4, <4>1, <4>2 DEF FrameInv
    <3>6. QED
      BY <3>1, <3>5
  <2>5. QED
    BY <1>4, <2>3, <2>4 DEF SecondHalf
<1>5. CASE Finish \/ Exit \/ Exited \/ UNCHANGED vars
  <2>1. UNCHANGED <<x, v, step, frames, steps_done, halt>>
    BY <1>5 DEF Finish, Exit, Exited, vars, atoms
  <2>2. \/ at' \in {"stopped", "exited"} /\ at # "start"
        \/ at' = at
    BY <1>5 DEF Finish, Exit, Exited, vars
  <2>3. code' \in Nat
    BY <1>5 DEF Finish, Exit, Exited, ExitCode, LoopInv, vars
  <2>4. LoopInv'
    BY <2>1, <2>2, <2>3 DEF LoopInv, InLoop
  <2>5. FrameInv'
    BY <2>1, <2>2 DEF FrameInv, Shown, Due
  <2>6. QED
    BY <2>4, <2>5
<1> QED BY <1>1, <1>2, <1>3, <1>4, <1>5 DEF Next

\* The loop counter stays within its bounds and every number is one.
THEOREM DriverTyped == Spec => []TypeOK
<1>1. WholeInv => TypeOK
  <2> SUFFICES ASSUME WholeInv PROVE TypeOK
    OBVIOUS
  <2>1. dt \in Nat
    BY DriverAssumption DEF WholeInv, Inv, Numbers, DriverAssumption
  <2>2. QED
    BY <2>1 DEF WholeInv, Inv, Numbers, LoopInv, TypeOK
<1> QED BY <1>1, WholeInit, WholeNext, PTL DEF Spec

\* Frames show whole steps only; when the program exits there is one for every
\* FrameEvery-th step that counts and none of the step that halted, for every
\* number of steps and every interval.
THEOREM FramesShowWholeSteps == Spec => []FramesWhole
<1>1. WholeInv => FramesWhole
  <2> SUFFICES ASSUME WholeInv PROVE FramesWhole
    OBVIOUS
  <2>1. \A f \in frames : f.x = f.step /\ f.v = 2 * f.step
    BY DEF WholeInv, FrameInv, Frame
  <2>2. QED
    BY <2>1 DEF WholeInv, FrameInv, FramesWhole, Shown, Due
<1> QED BY <1>1, WholeInit, WholeNext, PTL DEF Spec

=============================================================================
