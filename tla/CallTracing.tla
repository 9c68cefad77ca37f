---------------------------- MODULE CallTracing ----------------------------
(***************************************************************************)
(* What an orchestrated analysis promises of the calls it traces across    *)
(* repositories, whatever its workers find: it plans a first set of work,  *)
(* then proceeds in rounds; a round queues only targets no earlier round   *)
(* has queued; a later round has something to analyse; there are at most   *)
(* MaxRounds rounds; and once it is over nothing more is queued.           *)
(***************************************************************************)
EXTENDS Naturals

CONSTANT MaxRounds  \* the cap on hops between repositories

VARIABLES frontier, \* what the next round is to analyse
          followed, \* every call target a round has queued
          rounds,   \* completed rounds
          over

vars == <<frontier, followed, rounds, over>>

Init ==
    /\ frontier = {}
    /\ followed = {}
    /\ rounds = 0
    /\ over = FALSE

\* Before the first round the frontier is found, extended and reduced.
Plan ==
    /\ ~over
    /\ rounds = 0
    /\ UNCHANGED <<followed, rounds, over>>

Round ==
    /\ ~over
    /\ rounds < MaxRounds
    /\ rounds > 0 => frontier # {}
    /\ frontier' \cap followed = {}
    /\ followed' = followed \cup frontier'
    /\ rounds' = rounds + 1
    /\ UNCHANGED over

Stop ==
    /\ ~over
    /\ over' = TRUE
    /\ UNCHANGED <<frontier, followed, rounds>>

Next == Plan \/ Round \/ Stop

Spec == Init /\ [][Next]_vars
=============================================================================
