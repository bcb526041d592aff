CONSTANTS
    a1 = a1
    a2 = a2
    b1 = b1
    A = A
    B = B
    f = f
    g = g
    Scenarios = {"given", "recover"}
    Entries <- MCEntries
    Names <- MCNames
    Files <- MCFiles
    Port <- MCPort
    Contents <- MCContents
    ReplacedBy <- BothReplaced
    Forcing = {FALSE}
    Interactive = FALSE
    SecondsPass = TRUE
    UserMidCommand = TRUE
    MaxStamp = 2
    MaxUser = 2
    MaxFails = 2
    MaxCrashes = 1
SPECIFICATION CasesSpec
INVARIANTS StoresAgree 
PROPERTIES UnforcedKeepsUserFiles CommandsEnd
