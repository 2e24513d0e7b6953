---------------------------- MODULE MCSeedWorkflows ---------------------------
(***************************************************************************)
(* The three seed workflows in full.                                       *)
(***************************************************************************)
EXTENDS WorkflowAnalysis

MCNode == SeedNames
=============================================================================
