----------------------------- MODULE MCRunCreation ----------------------------
(***************************************************************************)
(* Three requests to two API processes of a tenant.                        *)
(***************************************************************************)
EXTENDS RunCreation, TLC

Requests == Permutations(Call) \cup Permutations(Process) \cup Permutations(Source)
=============================================================================
