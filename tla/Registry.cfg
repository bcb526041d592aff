SPECIFICATION StoresSpec
CONSTANTS
    p1 = p1
    p2 = p2
    NotOpen = NotOpen
    Procs <- MCProcs
    Calls <- MCCalls
    MaxId = 2
    MaxObjects = 3
    Found = {"absent", "1.0", "1.1"}
    Faults = {"full"}
    Habits = {"again"}
INVARIANTS RegistryWhole
PROPERTIES ImplementsAtomicRegistry  CallsEnd
CHECK_DEADLOCK FALSE
