SPECIFICATION Spec
CONSTANTS
    Subjects = {"trace", "install", "owners", "version", "system", "walk", "scan"}
    Tracees = {"t1", "t2"}
    Conns = {"c1", "c2", "c3"}
    NoConn = NoConn
    Slots = 3
    TracePlans <- MCTracePlans
    InstallOptions <- MCInstallOptions
    InstallFaults = {"open", "rename", "write", "strip", "stat", "chown", "chmod", "chflags",
                     "unlink", "exec"}
    MaxInstallFaults = 2
    MaxLines = 2
    PipeSize = 1
    NumFds = 3
    None = None
    FileProcs = {"p1", "p2"}
    Entries = {"m1", "n1"}
    FilePaths = {"a", "b", "a_bak"}
    Name <- MCPortNames
    Books <- MCBooks
    Lists <- MCLists
    MaxCalls <- MCFileCalls
    Bare = {"deactivate", "state", "ask"}
INVARIANTS InstallIsSafe ReturnsOrder OkMeansDone WalkIsComplete BinariesScanned
PROPERTIES  OwnersImplemented CallsEnd
CHECK_DEADLOCK FALSE
