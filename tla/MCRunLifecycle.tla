---------------------------- MODULE MCRunLifecycle ----------------------------
(* Instances of RunLifecycle: Workers and slots are interchangeable. *)
EXTENDS RunLifecycle, TLC

CONSTANTS w1, w2, s1, s2

Interchangeable == Permutations(Worker) \cup Permutations(Slot)
=============================================================================
