\* Liveness, with the semaphore under contention: two tasks and the nightly
\* index over the default single slot.
SPECIFICATION FairSpec
CONSTANTS
    Task = {t1, t2}
    Key = {k1}
    Nightly = nightly
    None = none
    MaxConcurrent = 1
    MaxCrashes = 2
    MaxFaults = 1
PROPERTIES
    TasksEnd
