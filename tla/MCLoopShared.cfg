\* Two runs of one repository, one after the other or at once: they use the same
\* checkpoint.  Tool calls are in the other run: here a tool_use has none.
SPECIFICATION FairSpec
CONSTANTS
    r1 = r1
    r2 = r2
    repo1 = repo1
    repo2 = repo2
    Run = {r1, r2}
    Repo = {repo1}
    RepoOf <- SameRepo
    None = none
    NoFile = nofile
    Empty = empty
    Torn = torn
    MaxSteps = 3
    Window = 2
    Keep = 1
    MaxToolCalls = 0
    MaxCrashes = 1
    MaxFaults = 1
INVARIANTS
    SeesOwnTask
    CheckpointFiles
PROPERTIES
    RunEnds
