\* Every subset of the nodes and of the edges, callers up to two calls away.
SPECIFICATION Spec
CONSTANTS
    Id = {1, 2, 3, 4, 5}
    SymbolOf <- MCSymbolOf
    Calls <- MCCalls
    Inputs <- MCInputs
    EntryRepo = {"web"}
    Suffix <- MCSuffix
    AnyFile = ""
    MaxDepth = 2
    Direct <- MCDirect
INVARIANTS
    TypeOK
    ImpactIsReach
