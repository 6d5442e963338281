------------------------------ MODULE ZoneFSM ------------------------------
(***************************************************************************)
(* The finite-state machine of a zone (include/tdmd/core/fsm.hpp): one     *)
(* event per type, around the cycle o -> d -> w -> c -> p -> o, and the    *)
(* two fields ZoneFSM::apply maintains beside the type.                    *)
(*                                                                         *)
(* contrib_mask is a set of contributors: "prev" is bit 0 (the cross       *)
(* contribution of the predecessor), "closure" is bit 1 (the contribution  *)
(* of the tail zone to the head across the periodic boundary).             *)
(***************************************************************************)
EXTENDS Integers

ZoneTypes == {"o", "d", "w", "c", "p"}
ZoneEvents == {"RECV", "SPHERE", "START", "END", "SEND"}
Contributors == {"prev", "closure"}

\* The fields of Zone the machine reads or writes.
ZoneRecords ==
  [type: ZoneTypes, force_complete: BOOLEAN, contrib_mask: SUBSET Contributors]

FreeZone == [type |-> "o", force_complete |-> FALSE, contrib_mask |-> {}]

Allowed(from, e) ==
  <<from, e>> \in {<<"o", "RECV">>, <<"d", "SPHERE">>, <<"w", "START">>,
                   <<"c", "END">>, <<"p", "SEND">>}

\* Target type of an allowed event; a forbidden one throws, so callers test
\* Allowed first.
Target(e) ==
  CASE e = "RECV"   -> "d"
    [] e = "SPHERE" -> "w"
    [] e = "START"  -> "c"
    [] e = "END"    -> "p"
    [] e = "SEND"   -> "o"

Apply(zone, e) ==
  [type           |-> Target(e),
   force_complete |-> e = "END",
   contrib_mask   |-> IF e \in {"RECV", "SEND"} THEN {} ELSE zone.contrib_mask]

Contribute(zone, who) ==
  [zone EXCEPT !.contrib_mask = @ \cup {who}]

\* Node numbers are 1-based here, as in the code: P1 starts with its data.
InitialZoneType(node_id) == IF node_id = 1 THEN "d" ELSE "o"

\* The first zone of a pass has no predecessor and is seeded artificially.
SeedFirstZone(zone) == Apply(zone, "SPHERE")

\* Order of the two transfers around each zone: odd nodes send first.
NodeIoOrder(node_id) ==
  IF node_id % 2 # 0 THEN <<"SEND", "RECV">> ELSE <<"RECV", "SEND">>

=============================================================================
