\* Two submissions of one branch, a push, two merges, a crash.
SPECIFICATION FairSpec
CONSTANTS
    Task = {t1, t2}
    None = none
    Free = free
    Stale = stale
    MaxHead = 1
    MaxMerges = 2
    MaxCrashes = 1
INVARIANTS
    TypeOK
    DiffIsFresh
    RemovalIsSafe
PROPERTIES
    SubmissionEnds
