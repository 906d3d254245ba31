---------------------------- MODULE MCConnections ----------------------------
(* A small instance of Connections. *)
EXTENDS Connections

CONSTANTS m1, m2, m3
=============================================================================
