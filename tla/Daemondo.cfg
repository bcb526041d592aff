CONSTANTS
    LastPid = 4
    Styles = {"none", "exec", "fileauto", "fileclean"}
    StopCmds = {TRUE, FALSE}
    MaxCalls = 3
SPECIFICATION FairSpec
INVARIANTS DaemonTracked
PROPERTIES ChildDeathNoticed TermEnds
