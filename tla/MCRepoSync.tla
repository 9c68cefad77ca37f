------------------------------ MODULE MCRepoSync ------------------------------
(* Submissions of one feature branch of one repository, for TLC.           *)
EXTENDS RepoSync, TLC

Symmetry == Permutations(Task)
=============================================================================
