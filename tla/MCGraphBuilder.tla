--------------------------- MODULE MCGraphBuilder ---------------------------
(* Instances of GraphBuilder for TLC: a batch of two holds items of one     *)
(* group, or of two groups.                                                 *)
EXTENDS GraphBuilder

CONSTANTS i1, i2, g1, g2

Apart == [i \in Items |-> IF i = i1 THEN g1 ELSE g2]
=============================================================================
