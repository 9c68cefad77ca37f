\* Two batches of one repository, no crash and no fault.
SPECIFICATION Spec
CONSTANTS
    r1 = r1
    r2 = r2
    repo1 = repo1
    repo2 = repo2
    Run = {r1, r2}
    Repo = {repo1}
    RepoOf <- SameRepo
    None = none
    NoFile = nofile
    Empty = empty
    Torn = torn
    MaxSteps = 1
    Window = 2
    Keep = 1
    MaxToolCalls = 1
    MaxCrashes = 0
    MaxFaults = 0
INVARIANTS
    AnswersOwnTask
