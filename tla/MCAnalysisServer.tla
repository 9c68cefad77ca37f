-------------------------- MODULE MCAnalysisServer --------------------------
(* A small server for TLC: see README.md for why the bounds are enough.    *)
EXTENDS AnalysisServer, TLC

Symmetry == Permutations(Task) \cup Permutations(Key)
=============================================================================
