\* Two commits, a run of the command, one failure or crash.
SPECIFICATION Spec
CONSTANTS
    Order <- MCOrder
    Lang <- MCLang
    Decl <- MCDecl
    Use <- MCUse
    Broken <- MCBroken
    Lapses <- MCLapses
    None = none
    NoHash = nohash
    Unknown = unknown
    MaxRuns = 1
    MaxFaults = 1
INVARIANTS
    TypeOK
    HashesTrue
PROPERTIES
    NightlyRepairs
