\* Safety: two tasks, the nightly index, two inputs, two slots.
SPECIFICATION Spec
CONSTANTS
    Task = {t1, t2}
    Key = {k1, k2}
    Nightly = nightly
    None = none
    MaxConcurrent = 2
    MaxCrashes = 2
    MaxFaults = 2
SYMMETRY Symmetry
INVARIANTS
    TypeOK
    SlotAccounting
    RunningIsOwned
    WorktreesOwned
    CompletedHasResult
    AnswersOwnRequest
PROPERTIES
    LifecyclePromise
