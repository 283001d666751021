-------------------------- MODULE MCTasteProfile --------------------------
(* Instances of TasteProfile for TLC.                                    *)
EXTENDS TasteProfile

CONSTANTS u, v, w, x, y, z

\* Each shares one item, or u, if alone with v, shares all but y.
OneEach == [i \in Items |-> IF i = y THEN v
                            ELSE IF i = x \/ w \notin Users THEN u ELSE w]
===========================================================================
