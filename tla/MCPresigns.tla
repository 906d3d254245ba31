----------------------------- MODULE MCPresigns -----------------------------
(* A small instance of Presigns: three presigns, two of them of one group,  *)
(* and calls for one and for two presigns.                                  *)
EXTENDS Presigns

CONSTANTS i1, i2, i3, g1, g2, c1, c2, c3

MCGroupOf   == [i \in Ids |-> IF i = i3 THEN g2 ELSE g1]
MCBatchSize == [c \in Calls |-> IF c = c3 THEN 2 ELSE 1]
=============================================================================
