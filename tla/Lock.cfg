CONSTANTS
    p1 = p1
    p2 = p2
    p3 = p3
    Procs = {p1, p2, p3}
    Prompted = {p1, p2, p3}
    Writers = {p1, p2, p3}
    Erring = {p1, p2, p3}
    Words = {"install", "build"}
    Actions <- MCActions
    Guess <- MCGuess
    Faults = {}
    MaxExecs = 2
    MaxLocked = 3
    None = None
    Builders = {"p1", "p2"}
    SharedBuilds <- MCSharedBuilds
    AloneBuilds <- MCAloneBuilds
    PortVersions = {1, 2, 3, 4}
    PortOf <- MCPortOf
    Registries <- MCRegistries
    PortCommands = 1
    PortNumbers = {1, 2, 3}
    Upgrades <- MCUpgrades
    UpgradeFailing = {"open", "install", "uninstall", "deactivate", "activate", "conflict"}
    PortFaults = 1
SPECIFICATION CommandsSpec
INVARIANTS MutualExclusion LockKept BuildsAreSafe PortsAreSafe CommandsComplete
PROPERTIES CommandsEnd
CHECK_DEADLOCK FALSE
