--------------------------- MODULE MCNodeExecution ----------------------------
(* Instances of NodeExecution: every declaration of a node with few retries. *)
EXTENDS NodeExecution

CONSTANTS MaxRetry

MCConfig ==
    [declared : {"no", "usable", "unusable"}, sideEffect : BOOLEAN,
     retry : 0 .. MaxRetry, continue : BOOLEAN, required : BOOLEAN]
=============================================================================
