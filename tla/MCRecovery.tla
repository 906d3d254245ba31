---------------------------- MODULE MCRecovery ----------------------------
(* Small instances of Recovery: the nodes, the work type and the bounds are *)
(* the choice of the configuration.                                         *)
EXTENDS Recovery

CONSTANTS n1, n2
=============================================================================
