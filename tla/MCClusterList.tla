---------------------------- MODULE MCClusterList ----------------------------
(* ClusterList on a plane, periodic along the first dimension, with room for   *)
(* four grid cells along it; the first atom starts at the seam.               *)
EXTENDS ClusterList

MCBoxLen == [d \in {1, 2} |-> 17]
MCStarts ==
  {p \in [{1, 2, 3} -> {[d \in {1, 2} |-> IF d = 1 THEN a ELSE b] :
                          a \in {0, 1, 5, 8, 12, 16}, b \in {0, 3}}] :
     p[1] = [d \in {1, 2} |-> 0]}
MCMoves == {-2, 1, 2}
===============================================================================
