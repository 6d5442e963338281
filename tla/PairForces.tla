----------------------------- MODULE PairForces -----------------------------
(***************************************************************************)
(* The fixed-point force sums of one pass (include/tdmd/core/              *)
(* fixed_accum.hpp, the pair loop of core/conveyor.hpp and core/zones.hpp, *)
(* and its device twin cuda/zone_force.cuh).  Every pair contribution is   *)
(* rounded once to a whole quantum and summed in integers, so that the     *)
(* order in which zones, threads and blocks evaluate the pairs leaves no   *)
(* trace in the sum, and host and device agree bit for bit.                *)
(*                                                                         *)
(* The host visits each pair once and writes both atoms; the device visits *)
(* it from either side.  One force component stands for three; a pair's    *)
(* energy has the value of its force.                                      *)
(***************************************************************************)
EXTENDS Integers, FiniteSetsExt

CONSTANTS Atoms,   \* numbered atoms
          Values,  \* contributions of a pair, in quarters of a quantum
          Half,    \* half the range of an accumulator (2^63)
          Limit    \* a rounded contribution must stay below it (9.2e18)

ASSUME PairForcesAssumption ==
  /\ Atoms \subseteq Nat /\ IsFiniteSet(Atoms)
  /\ Values \subseteq Int
  /\ Half \in Nat \ {0} /\ Limit \in Nat
  /\ Limit <= Half

VARIABLES
  x,          \* contribution of each pair to the force on its first atom
  hostLeft,   \* pairs the host has not evaluated
  hostForce,  \* raw accumulators of the host
  hostEnergy,
  thrown,     \* has FixedAccum::add thrown?
  devLeft,    \* (owner, neighbour) evaluations the device has left
  devForce, devEnergy,
  overflow    \* the sticky flag of the device

hostVars == <<hostLeft, hostForce, hostEnergy, thrown>>
devVars == <<devLeft, devForce, devEnergy, overflow>>
vars == <<x, hostVars, devVars>>

Pairs == {p \in Atoms \X Atoms : p[1] < p[2]}

\* Two's complement: the outcome of an overflow on the targets of this code,
\* although the language leaves the signed one undefined.
Wrap(v) == ((v + Half) % (2 * Half)) - Half

\* Mutant: round half up.
RoundHalfUp(c) == (c + 2) \div 4

\* rint: to the nearest quantum, ties to the even one.
RoundEven(c) ==
  LET lower == c \div 4
      rest == c % 4
  IN  IF rest < 2 \/ (rest = 2 /\ lower % 2 = 0) THEN lower ELSE lower + 1

InRange(q) == -Limit < q /\ q < Limit

Init ==
  /\ x \in [Pairs -> Values]
  /\ hostLeft = Pairs
  /\ hostForce = [a \in Atoms |-> 0] /\ hostEnergy = 0
  /\ thrown = FALSE
  /\ devLeft = {p \in Atoms \X Atoms : p[1] # p[2]}
  /\ devForce = [a \in Atoms |-> 0] /\ devEnergy = 0
  /\ overflow = FALSE

-----------------------------------------------------------------------------
\* Mutant: the sum is clamped to the range instead.
AddClamped(raw, q) ==
  LET s == raw + q
  IN  IF s >= Limit THEN Limit - 1 ELSE IF s <= -Limit THEN 1 - Limit ELSE s

\* The sum itself is not range-checked.
Add(raw, q) == Wrap(raw + q)

\* do_pair: energy once, force on both atoms; a contribution out of range
\* throws, and the pass ends.
HostPair(p) ==
  LET q == RoundEven(x[p])
      r == RoundEven(-x[p])
  IN  /\ ~thrown /\ p \in hostLeft
      /\ IF InRange(q) /\ InRange(r)
           THEN /\ hostLeft' = hostLeft \ {p}
                /\ hostForce' = [hostForce EXCEPT ![p[1]] = Add(@, q),
                                                  ![p[2]] = Add(@, r)]
                /\ hostEnergy' = Add(hostEnergy, q)
                /\ UNCHANGED thrown
           ELSE thrown' = TRUE /\ UNCHANGED <<hostLeft, hostForce, hostEnergy>>
      /\ UNCHANGED <<x, devVars>>

\* The contribution to the owner of an evaluation: the displacement, and with
\* it the force, changes sign with the side.
OwnerForce(o, j) == IF o < j THEN x[<<o, j>>] ELSE -x[<<j, o>>]

\* A contribution out of range counts as zero.
Quantize(c) == IF InRange(RoundEven(c)) THEN RoundEven(c) ELSE 0

\* The thread that owns atom o evaluates neighbour j; the energy is counted by
\* the owner with the lower index.
DevEvaluation(o, j) ==
  LET c == OwnerForce(o, j)
  IN  /\ <<o, j>> \in devLeft
      /\ devLeft' = devLeft \ {<<o, j>>}
      /\ devForce' = [devForce EXCEPT ![o] = Wrap(@ + Quantize(c))]
      /\ devEnergy' = IF o < j THEN Wrap(devEnergy + Quantize(c)) ELSE devEnergy
      /\ overflow' = (overflow \/ ~InRange(RoundEven(c)))
      /\ UNCHANGED <<x, hostVars>>

HostDone == thrown \/ hostLeft = {}
DevDone == devLeft = {}
Done == HostDone /\ DevDone /\ UNCHANGED vars

Next ==
  \/ \E p \in Pairs : HostPair(p)
  \/ \E o, j \in Atoms : DevEvaluation(o, j)
  \/ Done

Spec == Init /\ [][Next]_vars

-----------------------------------------------------------------------------
\* INV-9: whatever the two orders, host and device end with the same raw
\* accumulators, and one halts exactly if the other does.
BackendsAgree ==
  HostDone /\ DevDone =>
    /\ thrown <=> overflow
    /\ ~thrown => hostForce = devForce /\ hostEnergy = devEnergy

\* Newton's third law in whole quanta, hence an exactly conserved momentum: the
\* forces accumulated by the host cancel at every moment.
ForcesCancel == Wrap(MapThenSumSet(LAMBDA a : hostForce[a], Atoms)) = 0

\* The force on an atom as the sum of its rounded contributions.
ExactForce(a) ==
  MapThenSumSet(LAMBDA j : RoundEven(OwnerForce(a, j)), Atoms \ {a})

\* An accumulator that overflows is an exception and then HALT Internal, never a
\* silently wrong force (ZoneFSM document, section 9; conveyor.hpp's header).
NoSilentOverflow ==
  hostLeft = {} => \A a \in Atoms : hostForce[a] = ExactForce(a)
=============================================================================
