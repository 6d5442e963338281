--------------------------- MODULE MCZoneMembership ---------------------------
(* ZoneMembership with positions from below the box to the top of the widest one.*)
EXTENDS ZoneCells

MCPositions == -3 .. 20
===============================================================================
