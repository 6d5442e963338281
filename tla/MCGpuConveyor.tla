--------------------------- MODULE MCGpuConveyor ---------------------------
(***************************************************************************)
(* Instances of GpuConveyor for TLC; the .cfg files give the ring's size   *)
(* and how it is cut into ranks.                                           *)
(***************************************************************************)
EXTENDS GpuConveyor

\* One fault for each place where a pass can fail.
OneOfEach == {"Overlap", "NonFiniteEnergy", "Device"}

=============================================================================
