CONSTANTS
    a1 = a1
    a2 = a2
    b1 = b1
    A = A
    B = B
    f = f
    g = g
    Scenarios = {"given"}
    Entries <- MCEntries
    Names <- MCNames
    Files <- MCFiles
    Port <- MCPort
    Contents <- MCContents
    ReplacedBy <- NoneReplaced
    Forcing = {TRUE, FALSE}
    Interactive = FALSE
    SecondsPass = TRUE
    UserMidCommand = FALSE
    MaxStamp = 1
    MaxUser = 0
    MaxFails = 1
    MaxCrashes = 0
SPECIFICATION CasesSpec
INVARIANTS DiskAgrees
