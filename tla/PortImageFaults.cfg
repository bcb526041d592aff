CONSTANTS
    a1 = a1
    a2 = a2
    b1 = b1
    A = A
    B = B
    f = f
    g = g
    Scenarios = {"given"}
    Entries <- MCEntries
    Names <- MCNames
    Files <- MCFiles
    Port <- MCPort
    Contents <- MCContents
    ReplacedBy <- BReplacedByA
    Forcing = {TRUE, FALSE}
    Interactive = FALSE
    SecondsPass = FALSE
    UserMidCommand = TRUE
    MaxStamp = 1
    MaxUser = 1
    MaxFails = 1
    MaxCrashes = 1
SPECIFICATION CasesSpec
INVARIANTS UniqueOwner ActivatesOne
