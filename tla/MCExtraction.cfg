\* Two @@ sections in two files of three; the class's method is out of reach of
\* the function above it for MaxScan from its second line on.
SPECIFICATION Spec
CONSTANTS
    New <- MCNew
    Old <- MCOld
    Order <- MCOrder
    MaxSections = 2
    MaxScan = 4
    Indexes <- MCIndexes
    TestFile = {"t"}
    TestName = {}
    TestFunc = {"test_h"}
    Guesses <- MCGuesses
INVARIANTS
    TypeOK
    ReadersExact
    EnclosingAsked
    EveryHunkLookedUp
