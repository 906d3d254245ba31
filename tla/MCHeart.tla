------------------------------- MODULE MCHeart -------------------------------
(* A small instance of Heart: a keygen and a signing, each submitted up to   *)
(* twice, and another keygen.                                                *)
EXTENDS Heart

CONSTANTS k1, k2, s1

MCAlgo       == [w \in Works |-> "ec"]
MCMaxSubmits == [w \in Works |-> IF w = k2 THEN 1 ELSE 2]
=============================================================================
