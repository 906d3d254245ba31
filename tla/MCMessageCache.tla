--------------------------- MODULE MCMessageCache ---------------------------
(* A small instance of MessageCache: two senders and two works.  The lists  *)
(* are long enough for two of them to share an array that has room.         *)
EXTENDS MessageCache

CONSTANTS a1, a2, a3, a4, a5, b1, s1, s2, w1, w2

MCFrom   == [m \in Msgs |-> IF m = b1 THEN s2 ELSE s1]
MCWorkOf == [m \in Msgs |-> IF m \in {a1, a2} THEN w1 ELSE w2]
=============================================================================
