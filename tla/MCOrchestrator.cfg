\* Batching, tiers and rounds with failing workers.
SPECIFICATION FairSpec
CONSTANTS
    api = api
    core = core
    fc = fc
    fcpp = fcpp
    fdir = fdir
    kc = kc
    kcpp = kcpp
    f = f
    g = g
    worker = worker
    v = v
    NoFile = nofile
    Whole = whole
    NoName = noname
    Nil = nil
    Repo <- MCRepo
    SourceRepo = core
    File <- MCFile
    Func <- MCFunc
    Var = {v}
    Key <- MCKey
    KeyOf <- MCKeyOf
    Begins <- MCBegins
    Within <- MCBegins
    Unslug <- MCUnslug
    Inner = {worker}
    Inputs <- MCInputs
    Scope = {}
    Answers = {"P0", "P2", "other"}
    Reports <- MCReports
    MaxRounds = 3
    MaxWorkers = 2
    MaxFuncs = 2
    MaxMerge = 2
INVARIANTS
    TypeOK
    TierOrder
    
    CallsFollowed
    ChangedCovered
PROPERTIES
    TracePromise
    AnalysisEnds
