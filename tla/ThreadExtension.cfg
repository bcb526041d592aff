SPECIFICATION Spec
CONSTANTS
    Subjects = {"threads", "pool", "sync", "sv"}
    Nobody = Nobody
    SendThreads = {"m", "w", "n"}
    SendPlans <- MCSendPlans
    Posters = {"a", "b"}
    Workers = {"u", "v"}
    MaxJobs = 3
    PoolPlans <- MCPoolPlans
    SyncThreads = {"a", "b", "c"}
    SyncPlans <- MCSyncPlans
    SvThreads = {"t", "u"}
    Arrays = {"a", "b"}
    NumBuckets = 1
    BucketOf <- MCBucketOf
    Keys = {"k", "l"}
    NumCells = 4
    MaxVal = 1
    SvPlans <- MCSvPlans
INVARIANTS AnswerOnItsWay  MutexExcludes 
PROPERTIES RemoteImplemented  
CHECK_DEADLOCK FALSE
