----------------------------- MODULE MCAgentLoop -----------------------------
(* Two runs for TLC, alone, or two of the same repository.          *)
EXTENDS AgentLoop

CONSTANTS r1, r2, repo1, repo2

SameRepo == [r \in {r1, r2} |-> repo1]
Alone == [r \in {r1} |-> repo1]
=============================================================================
