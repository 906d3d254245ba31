------------------------------ MODULE MCEngine ------------------------------
(* Small instances of Engine: which of the works k1, k2 (keygens) and s1 (a  *)
(* signing) take part is the choice of the configuration.                    *)
EXTENDS Engine

CONSTANTS k1, k2, s1, m1, p1, t1, t2, t3

MCWorkType == [w \in Works |-> CASE w = k1 -> "EcKeygen"
                                 [] w = k2 -> "EdKeygen"
                                 [] w = s1 -> "EcSigning"]
MCParties  == [w \in Works |-> {p1}]
MCWorkOf   == [m \in Msgs |-> s1]
MCFrom     == [m \in Msgs |-> p1]
=============================================================================
