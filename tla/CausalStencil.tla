--------------------------- MODULE CausalStencil ---------------------------
(***************************************************************************)
(* What the conveyor promises whatever the number of nodes: the zones      *)
(* advance one time step at a time, and a zone takes a step only from      *)
(* states a serial time loop would have used.  When zone i takes step h,   *)
(* each neighbour has finished step h-1, so the positions at step h are    *)
(* determined, and none has gone past h, so its force on i was not yet     *)
(* overwritten.  No node, pass or message is left in this specification.   *)
(***************************************************************************)
EXTENDS ZoneRing

CONSTANT Steps

VARIABLE level   \* the last time step each zone has completed

TypeOK == level \in [Zones -> 0 .. Steps]

Init == level = [i \in Zones |-> 0]

Advance(i) ==
  /\ level[i] < Steps
  /\ \A b \in Adjacent(i) : level[b] \in {level[i], level[i] + 1}
  /\ level' = [level EXCEPT ![i] = @ + 1]

Next == \E i \in Zones : Advance(i)

Spec == Init /\ [][Next]_level

=============================================================================
