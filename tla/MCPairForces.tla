----------------------------- MODULE MCPairForces -----------------------------
(* PairForces with every kind of contribution: below half a quantum, the ties  *)
(* to an even and to an odd quantum, large ones of which two exceed the        *)
(* accumulator, the last one in range and the first one out of it.             *)
EXTENDS PairForces

MCValues == {1, 2, -6, 7, -38, 56, 58}
===============================================================================
