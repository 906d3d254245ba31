---------------------------- MODULE MCExecution ----------------------------
(* Small instances of Execution: the work type, the batch and the peers are *)
(* the choice of the configuration.                                         *)
EXTENDS Execution

CONSTANTS p1, p2
=============================================================================
