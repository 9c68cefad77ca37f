\* Chunks of two entry points and two functions, three attempts per request.
SPECIFICATION Spec
CONSTANTS
    Tasks <- MCTasks
    Contents <- MCContents
    ModeSets = {{}, {"ut"}, {"chain"}}
    Exists = {"a", "b", "c", "other/f", "other/e"}
    InRepo = {"a", "b", "c"}
    Foreign = {"other/made", "other/f", "other/e"}
    NewFunctions = {"Added"}
    Variants <- MCVariants
    Hit <- MCHit
    Strangers <- MCStrangers
    MaxEPChunk = 2
    MaxUTChunk = 2
    MaxAttempts = 3
INVARIANTS
    TypeOK
    NothingElseLost
    FilesExist
    FollowUpsComplete
    RequestsBounded
