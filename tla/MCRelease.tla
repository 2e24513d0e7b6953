------------------------------- MODULE MCRelease -------------------------------
(***************************************************************************)
(* Two runs on one repository, two versions of a change.                   *)
(***************************************************************************)
EXTENDS Release, TLC

Symmetry == Permutations(Run)

\* Bound: one of the runs at most changes its files a second time.
OneRewrites == Cardinality({r \in Run : work[r].work = MaxWrites}) <= 1
=============================================================================
