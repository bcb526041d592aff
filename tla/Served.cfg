CONSTANTS
    p1 = p1
    p2 = p2
    p3 = p3
    Procs = {p1, p2, p3}
    Prompted = {p1}
    Writers = {p1, p2}
    Erring = {p2, p3}
    Words = {"install", "build", "bogus"}
    Actions = {"install", "build"}
    Guess <- MCGuess
    Faults = {"EOPNOTSUPP", "other"}
    MaxExecs = 1
    MaxLocked = 2
    None = None
SPECIFICATION FairSpec
 
PROPERTIES WaitersServed
