--------------------------- MODULE MCThreadExtension --------------------------
(* The components of the thread extension for TLC. They share no state: a      *)
(* behaviour is one of the subject it has from the start, and the variables of *)
(* the others stay 0. Variables of one name are the subject's.                 *)
EXTENDS Integers, FiniteSets, Sequences

CONSTANTS Subjects,  \* those that are checked
          Nobody,
          SendThreads, SendPlans,
          Posters, Workers, MaxJobs, PoolPlans,
          SyncThreads, SyncPlans,
          SvThreads, Arrays, NumBuckets, BucketOf, Keys, NumCells, MaxVal, SvPlans

VARIABLES subject, plan, calls, thread,
          listed, tsd, queue, run, result, chan, errorThread,
          pool, work, jobsDone, waiters, poster, worker,
          mux, cond, bucket,
          mem, store, lock

planVars == <<plan, calls>>
sendVars == <<listed, tsd, queue, run, result, chan, errorThread>>
poolVars == <<pool, work, jobsDone, waiters, poster, worker>>
syncVars == <<mux, cond, bucket>>
svVars == <<mem, store, lock>>
vars == <<subject, planVars, thread, sendVars, poolVars, syncVars, svVars>>

-------------------------------------------------------------------------------
(* Threads: two run at first, and a third may be created, or runs too.         *)

Two(n, uses) == [calls |-> n, commands |-> uses, born |-> {"m", "w"}]
Three(n, uses) == [calls |-> n, commands |-> uses, born |-> {"m", "w", "n"}]
MCSendPlans ==
    {Three(3, {"send", "release"}), Two(3, {"send", "unwind", "join"}),
     Two(3, {"send", "exit", "create"}), Two(3, {"send", "preserve", "release"}),
     Two(3, {"async", "configure"}), Two(2, {"async", "configure", "errorproc"}),
     Two(2, {"broadcast", "async", "release"}), Three(2, {"transfer", "release", "detach"})}
Thr == INSTANCE ThreadCmd WITH
    Threads <- SendThreads, Marks <- {0, 1}, Plans <- SendPlans, Habits <- {}
ASSUME ThreadAssumption == Thr!ThreadAssumption

(* A pool: what one thread, or two, may do with it.                            *)

PoolPlan(who, least, most, n, uses) ==
    [posters |-> who, min |-> least, max |-> most, calls |-> n,
     commands |-> uses \cup {"create"}, idle |-> FALSE, fails |-> FALSE]
MCPoolPlans == LET one == {CHOOSE t \in Posters : TRUE} IN
    {PoolPlan(one, 0, 2, 6, {"post", "wait", "get", "cancel"}),
     PoolPlan(one, 1, 2, 6, {"nowait", "detach", "wait", "release"}),
     PoolPlan(Posters, 0, 1, 4, {"post", "nowait"}),
     PoolPlan(Posters, 1, 2, 5, {"post", "cancel"}),
     [PoolPlan(Posters, 1, 2, 4, {"post", "nowait"}) EXCEPT !.idle = TRUE]}
Pool == INSTANCE TPool WITH Plans <- PoolPlans
ASSUME PoolAssumption == Pool!PoolAssumption

(* Three threads, one mutex of each kind.                                      *)

SyncPlan(sort, n, uses) == [kind |-> sort, calls |-> n, commands |-> uses]
MCSyncPlans ==
    {SyncPlan("exclusive", 4, {"lock"}), SyncPlan("recursive", 4, {"lock"}),
     SyncPlan("rw", 5, {"rlock", "wlock"}), SyncPlan("eval", 4, {"eval"}),
     SyncPlan("exclusive", 4, {"lock", "wait"}), SyncPlan("exclusive", 2, {"lock", "destroy"}),
     SyncPlan("exclusive", 3, {"lock", "wait", "conddestroy"}),
     SyncPlan("recursive", 2, {"lock", "eval"})}
Sync == INSTANCE SyncCmd WITH Threads <- SyncThreads, Plans <- SyncPlans
ASSUME SyncAssumption == Sync!SyncAssumption

(* Two arrays in one bucket, two threads: one each, or shared in tsv::lock.    *)

MCBucketOf == [a \in Arrays |-> 0]
Own == [t \in SvThreads |-> IF t = "t" THEN {"a"} ELSE {"b"}]
Alone == [t \in SvThreads |-> IF t = "t" THEN {"a"} ELSE {}]
Shared == [t \in SvThreads |-> {"a"}]
Both == [t \in SvThreads |-> {"a", "b"}]
SvPlan(use, locked, n, uses) ==
    [use |-> use, locked |-> locked, calls |-> n, commands |-> uses,
     stored |-> IF "bind" \in uses THEN {{}, {"k"}} ELSE {{}}, fails |-> FALSE]
MCSvPlans ==
    {SvPlan(Own, FALSE, 3, {"set", "append", "pop", "unset", "move", "object"}),
     SvPlan(Own, FALSE, 4, {"set", "append", "pop", "move"}),
     [SvPlan(Alone, FALSE, 4, {"bind", "set", "pop", "unset", "move", "object"})
        EXCEPT !.fails = TRUE],
     SvPlan(Own, FALSE, 3, {"set", "arrayset", "reset", "unsetarray", "names"}),
     SvPlan(Shared, TRUE, 5, {"set", "incr", "pop", "move", "object"}),
     SvPlan(Shared, TRUE, 5, {"set", "incr", "append", "unset", "move", "bind"}),
     SvPlan(Both, TRUE, 5, {"set", "bind"}),
     SvPlan(Shared, TRUE, 5, {"set", "reset", "arrayset", "bind", "unbind", "pop", "unsetarray"})}
Sv == INSTANCE SharedVars WITH
    Threads <- SvThreads, Plans <- SvPlans
ASSUME SvAssumption == Sv!SvAssumption

-------------------------------------------------------------------------------
NoThreads == listed = 0 /\ tsd = 0 /\ queue = 0 /\ run = 0 /\ result = 0 /\ chan = 0
             /\ errorThread = 0
NoPool == pool = 0 /\ work = 0 /\ jobsDone = 0 /\ waiters = 0 /\ poster = 0 /\ worker = 0
NoSync == mux = 0 /\ cond = 0 /\ bucket = 0
NoSv == mem = 0 /\ store = 0 /\ lock = 0

Init ==
    /\ subject \in Subjects
    /\ IF subject = "threads" THEN Thr!Init ELSE NoThreads
    /\ IF subject = "pool" THEN Pool!Init ELSE NoPool
    /\ IF subject = "sync" THEN Sync!Init ELSE NoSync
    /\ IF subject = "sv" THEN Sv!Init ELSE NoSv
    /\ subject \notin {"sync", "sv"} => thread = 0

ThreadSteps(A) ==
    /\ subject = "threads" /\ A
    /\ UNCHANGED <<subject, thread, poolVars, syncVars, svVars>>
PoolSteps(A) ==
    /\ subject = "pool" /\ A
    /\ UNCHANGED <<subject, thread, sendVars, syncVars, svVars>>
SyncSteps(A) ==
    /\ subject = "sync" /\ A
    /\ UNCHANGED <<subject, sendVars, poolVars, svVars>>
SvSteps(A) ==
    /\ subject = "sv" /\ A
    /\ UNCHANGED <<subject, sendVars, poolVars, syncVars>>

Next == \/ ThreadSteps(Thr!Next) \/ PoolSteps(Pool!Next) \/ SyncSteps(Sync!Next)
        \/ SvSteps(Sv!Next)

\* The fairness of each component.
Spec ==
    /\ Init /\ [][Next]_vars
    /\ \A t \in SendThreads : WF_vars(ThreadSteps(Thr!Proceed(t)))
    /\ \A t \in Posters : WF_vars(PoolSteps(Pool!Poster(t)))
    /\ \A w \in Workers : WF_vars(PoolSteps(Pool!Worker(w)))
    /\ \A t \in SyncThreads :
        SF_vars(SyncSteps(Sync!Proceed(t))) /\ WF_vars(SyncSteps(Sync!Release(t)))

-------------------------------------------------------------------------------
(* thread::send, thread::transfer: no result structure is used after its wait,  *)
(* and whoever waits will be answered (threadCmd.c).                            *)
AnswerOnItsWay == subject = "threads" => Thr!AnswerOnItsWay

\* Each synchronous send is run at most once and truthfully answered.
RemoteImplemented ==
    /\ subject = "threads" => Thr!Remote!Init
    /\ [][subject = "threads" => Thr!Remote!Step]_vars

\* tpool: no thread uses a pool that was freed (threadPoolCmd.c).
PoolFreedIsUnused == subject = "pool" => Pool!FreedIsUnused

\* Each job is run at most once, the oldest first, and its result is kept.
QueueImplemented ==
    /\ subject = "pool" => Pool!Queue!Init
    /\ [][subject = "pool" => Pool!Queue!Step]_vars

\* thread::mutex, thread::rwmutex, thread::eval: who has locked is alone, or
\* with other readers (threadSpCmd.c).
MutexExcludes == subject = "sync" => Sync!Exclusion

\* tsv: a container belongs to one element or to none, what a command uses
\* after it has unlocked is still there, and the persistent store has what a
\* bound array has (threadSvCmd.c).
SharedCellsKept ==
    subject = "sv" => Sv!CellsKept /\ Sv!InUseKept /\ Sv!StoreAgrees

\* Scripts use a bounded number of commands, and each comes to its end: every
\* send, transfer and release -wait unless threads wait for each other; every
\* command on a pool unless it waits for a job that is not there; and every lock
\* of a mutex, unless one was asked for with its bucket locked, or twice.
CallsEnd == <>[](
    /\ subject = "threads" =>
        \A t \in SendThreads : run[t].pc = "blocked" => t \in Thr!Stuck
    /\ subject = "pool" => \A t \in Posters : Pool!Moving(t)
    /\ subject = "sync" =>
        (\A t \in SyncThreads : ~Sync!Waiting(t)) \/ Sync!Jammed \/ ~Sync!TwiceIsRefused)
===============================================================================
