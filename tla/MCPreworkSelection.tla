------------------------- MODULE MCPreworkSelection -------------------------
EXTENDS PreworkSelection

CONSTANTS n1, n2, n3

\* n1 is the leader; the other hashes are all above its own.
MCHash == [n \in Nodes |-> IF n = n1 THEN 0 ELSE 1]

MCPresigns == {{n1, n2}}
=============================================================================
