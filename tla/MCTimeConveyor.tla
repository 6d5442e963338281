--------------------------- MODULE MCTimeConveyor ---------------------------
(***************************************************************************)
(* Instances of TimeConveyor for TLC; the .cfg files give the ring's size. *)
(***************************************************************************)
EXTENDS TimeConveyor

AllFaults == FaultKinds

=============================================================================
