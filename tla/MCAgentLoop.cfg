\* One run, whose checkpoint no other run uses: two crashes, two faults.
SPECIFICATION Spec
CONSTANTS
    r1 = r1
    r2 = r2
    repo1 = repo1
    repo2 = repo2
    Run = {r1}
    Repo = {repo1}
    RepoOf <- Alone
    None = none
    NoFile = nofile
    Empty = empty
    Torn = torn
    MaxSteps = 4
    Window = 4
    Keep = 3
    MaxToolCalls = 2
    MaxCrashes = 2
    MaxFaults = 2
INVARIANTS
    TypeOK
    SeesOwnTask
    CheckpointFiles
    RequestsPaired
