-------------------------------- MODULE TPool -------------------------------
(***************************************************************************)
(* A pool of worker threads (thread2.6/generic/threadPoolCmd.c): scripts   *)
(* are posted to it, run by the first worker that is free, waited for,     *)
(* cancelled and collected.                                                *)
(*                                                                         *)
(* What happens while the pool's mutex is held is one step, except         *)
(* starting a worker, which is waited for with the mutex held. A thread    *)
(* that has to wait gives the mutex up and runs its event loop until a     *)
(* worker sends it a stop event.                                           *)
(***************************************************************************)
EXTENDS Integers, Sequences, FiniteSets, SequencesExt

CONSTANTS
    Posters,  \* threads that use the pool
    Workers,  \* threads the pool may start
    MaxJobs,  \* bound: jobs posted
    Plans     \* what a behaviour is about: -minworkers, -maxworkers, whether
              \* -idletime is set, whether the init script may fail, the
              \* commands used, how many of them and by whom

PoolAssumption ==
    /\ MaxJobs \in Nat /\ Posters \intersect Workers = {}
    /\ \A p \in Plans : p.min \in Nat /\ p.max \in Nat /\ p.calls \in Nat

VARIABLES
    pool,     \* ThreadPool: state, tearDown, numWorkers, idleWorkers, refCount, jobId;
              \* made: how many workers tpool::create has started
    work,     \* jobs queued, the oldest first
    jobsDone, \* the processed ones
    waiters,  \* threads to signal, the longest waiting first
    poster,   \* thread -> where it is, jobs it waits for, stop events queued to it
    worker,   \* worker -> where it is, the job it runs
    plan, calls  \* commands and time-outs still to come

vars == <<pool, work, jobsDone, waiters, poster, worker, plan, calls>>

NoJob == [n |-> 0, detached |-> FALSE]

Init ==
    /\ plan \in Plans /\ calls = plan.calls
    /\ pool = [state |-> "none", tear |-> FALSE, num |-> 0, idle |-> 0, refs |-> 0, jobs |-> 0,
             made |-> 0]
    /\ work = <<>> /\ jobsDone = {} /\ waiters = <<>>
    /\ poster = [t \in Posters |-> [pc |-> "script", want |-> {}, job |-> NoJob, stops |-> 0]]
    /\ worker = [w \in Workers |-> [pc |-> "none", job |-> NoJob]]

-----------------------------------------------------------------------------
(* The pool's mutex, its waiters, its workers *)

\* The mutex is held from one step to the next only while a worker starts,
\* that of the list only while a pool is torn down.
Unlocked == \A t \in Posters : poster[t].pc \notin {"starting", "startnow"}
ListUnlocked == \A t \in Posters : poster[t].pc \notin {"reap", "reaping"}

At(t, pc) == poster' = [poster EXCEPT ![t].pc = pc]

\* PushWaiter, the mutex is given up and the event loop entered.
Park(t, pc) ==
    /\ waiters' = Append(waiters, t)
    /\ At(t, pc)

\* SignalWaiter: one waiter gets a stop event.
Signalled == [t \in Posters |->
    IF waiters # <<>> /\ Head(waiters) = t THEN [poster[t] EXCEPT !.stops = @ + 1]
    ELSE poster[t]]
SignalWaiter ==
    /\ poster' = Signalled
    /\ waiters' = IF waiters = <<>> THEN waiters ELSE Tail(waiters)

\* CreateWorker: the thread is made, and waited for.
Spawn(t, pc) ==
    /\ \E w \in Workers :
        /\ worker[w].pc = "none"
        /\ worker' = [worker EXCEPT ![w].pc = "start"]
    /\ At(t, pc)

\* RunStopEvent ends the wait; back at the mutex.
Resume(t) ==
    /\ poster[t].pc \in {"posting", "nowaiting", "waiting", "reaping"} /\ poster[t].stops > 0
    /\ poster' = [poster EXCEPT ![t].stops = @ - 1, ![t].pc =
         [posting |-> "post", nowaiting |-> "push", waiting |-> "wait",
          reaping |-> "reap"][poster[t].pc]]
    /\ UNCHANGED <<pool, work, jobsDone, waiters, worker, plan, calls>>

-----------------------------------------------------------------------------
(* Commands *)

Uses(t, command) ==
    /\ command \in plan.commands /\ t \in plan.posters
    /\ poster[t].pc = "script" /\ calls > 0
    /\ calls' = calls - 1
    /\ UNCHANGED plan

\* GetTpool
Finds(t, command) ==
    Uses(t, command) /\ ListUnlocked /\ pool.state = "listed"

\* tpool::create starts the workers before the pool is listed.
Create(t) ==
    /\ Uses(t, "create") /\ pool.state = "none"
    /\ pool' = [pool EXCEPT !.state = "made"]
    /\ At(t, "create")
    /\ UNCHANGED <<work, jobsDone, waiters, worker>>
CreateNext(t) ==
    /\ poster[t].pc = "create"
    /\ IF pool.made < plan.min
       THEN Spawn(t, "creating") /\ pool' = [pool EXCEPT !.made = @ + 1]
       ELSE /\ ListUnlocked
            /\ pool' = [pool EXCEPT !.state = "listed"]
            /\ At(t, "script") /\ UNCHANGED worker
    /\ UNCHANGED <<work, jobsDone, waiters, plan, calls>>

\* tpool::post
Posting == {"post", "nowait", "push", "starting", "startnow", "posting", "nowaiting"}
Post(t) ==
    /\ \E detached, nowait \in BOOLEAN :
        /\ Finds(t, IF nowait THEN "nowait" ELSE "post")
        /\ detached => "detach" \in plan.commands
        /\ poster' = [poster EXCEPT ![t].pc = IF nowait THEN "nowait" ELSE "post",
                                    ![t].job = [n |-> 0, detached |-> detached]]
    /\ pool.jobs + Cardinality({u \in Posters : poster[u].pc \in Posting}) < MaxJobs
    /\ UNCHANGED <<pool, work, jobsDone, waiters, worker>>

\* Waits until a worker is idle: one that is started first when there may be
\* more of them.
PostWaits(t) ==
    /\ poster[t].pc = "post" /\ Unlocked /\ pool.idle = 0
    /\ waiters' = Append(waiters, t)
    /\ IF pool.num < plan.max
       THEN Spawn(t, "starting")
       ELSE At(t, "posting") /\ UNCHANGED worker
    /\ UNCHANGED <<pool, work, jobsDone, plan, calls>>

\* -nowait waits only for a worker that it starts.
NowaitStarts(t) ==
    /\ poster[t].pc = "nowait" /\ Unlocked /\ pool.num < plan.max
    /\ waiters' = Append(waiters, t)
    /\ Spawn(t, "startnow")
    /\ UNCHANGED <<pool, work, jobsDone, plan, calls>>

\* The job gets its number and is queued, and every sleeping worker is woken.
Push(t) ==
    /\ Unlocked
    /\ \/ poster[t].pc = "push"
       \/ poster[t].pc = "post" /\ pool.idle > 0
       \/ poster[t].pc = "nowait" /\ pool.num >= plan.max
    /\ pool' = [pool EXCEPT !.jobs = @ + 1]
    /\ work' = Append(work, [poster[t].job EXCEPT !.n = pool.jobs + 1])
    /\ poster' = [poster EXCEPT ![t].pc = "script", ![t].job = NoJob]
    /\ UNCHANGED <<jobsDone, waiters, worker, plan, calls>>

\* tpool::wait for jobs that were posted and not detached.
Live == {work[i] : i \in DOMAIN work} \cup {worker[w].job : w \in Workers} \cup jobsDone
Known == {j.n : j \in {i \in Live : ~i.detached /\ i.n > 0}}
Wait(t) ==
    /\ Finds(t, "wait")
    /\ \E want \in SUBSET Known \ {{}} :
        poster' = [poster EXCEPT ![t].pc = "wait", ![t].want = want]
    /\ UNCHANGED <<pool, work, jobsDone, waiters, worker>>
\* Slip: the poster is not put in the list.
WaitUnseen(t) ==
    /\ poster[t].pc = "wait" /\ Unlocked
    /\ IF \E j \in jobsDone : j.n \in poster[t].want
       THEN poster' = [poster EXCEPT ![t].pc = "script", ![t].want = {}]
       ELSE At(t, "waiting")
    /\ UNCHANGED <<pool, work, jobsDone, waiters, worker, plan, calls>>
WaitLooks(t) ==
    /\ poster[t].pc = "wait" /\ Unlocked
    /\ IF \E j \in jobsDone : j.n \in poster[t].want
       THEN /\ poster' = [poster EXCEPT ![t].pc = "script", ![t].want = {}]
            /\ UNCHANGED waiters
       ELSE Park(t, "waiting")
    /\ UNCHANGED <<pool, work, jobsDone, worker, plan, calls>>

\* tpool::cancel takes out of the queue those that are still in it.
Cancel(t) ==
    /\ Finds(t, "cancel") /\ Unlocked
    /\ \E id \in Known :
        \/ \E i \in DOMAIN work : work[i].n = id /\ work' = RemoveAt(work, i)
        \/ (\A i \in DOMAIN work : work[i].n # id) /\ UNCHANGED work
    /\ UNCHANGED <<pool, jobsDone, waiters, poster, worker>>

\* tpool::get of one that is done
GetDone(t) ==
    /\ Finds(t, "get") /\ Unlocked
    /\ \E j \in jobsDone : jobsDone' = jobsDone \ {j}
    /\ UNCHANGED <<pool, work, waiters, poster, worker>>

\* tpool::preserve and tpool::release; the last release takes the pool out of
\* the list and tears it down.
Preserve(t) ==
    /\ Finds(t, "release")
    /\ pool' = [pool EXCEPT !.refs = @ + 1]
    /\ UNCHANGED <<work, jobsDone, waiters, poster, worker>>
Release(t) ==
    /\ Finds(t, "release")
    /\ LET last == pool.refs - 1 <= 0 IN
        /\ pool' = [pool EXCEPT !.refs = @ - 1, !.tear = last,
                                !.state = IF last THEN "unlisted" ELSE @]
        /\ At(t, IF last THEN "reap" ELSE "script")
    /\ UNCHANGED <<work, jobsDone, waiters, worker>>

\* Slip: only workers that run a job are waited for.
ReapBusy(t) ==
    /\ poster[t].pc = "reap" /\ Unlocked
    /\ IF pool.num > pool.idle
       THEN Park(t, "reaping") /\ UNCHANGED <<pool, work, jobsDone>>
       ELSE /\ pool' = [pool EXCEPT !.state = "freed"]
            /\ work' = <<>> /\ jobsDone' = {}
            /\ At(t, "script") /\ UNCHANGED waiters
    /\ UNCHANGED <<worker, plan, calls>>
\* Every worker is woken and one waited for at a time, until all are gone.
Reap(t) ==
    /\ poster[t].pc = "reap" /\ Unlocked
    /\ IF pool.num > 0
       THEN Park(t, "reaping") /\ UNCHANGED <<pool, work, jobsDone>>
       ELSE /\ pool' = [pool EXCEPT !.state = "freed"]
            /\ work' = <<>> /\ jobsDone' = {}
            /\ At(t, "script") /\ UNCHANGED waiters
    /\ UNCHANGED <<worker, plan, calls>>

-----------------------------------------------------------------------------
(* TpoolWorker *)

\* The init script has run: whoever started this worker goes on.
Starter == CHOOSE t \in Posters : poster[t].pc \in {"starting", "startnow", "creating"}
Start(w) ==
    LET t == Starter
        pc == [creating |-> "create", starting |-> "posting",
               startnow |-> "nowaiting"][poster[t].pc]
    IN  /\ worker[w].pc = "start"
        /\ \/ /\ worker' = [worker EXCEPT ![w].pc = "idle"]
              /\ pool' = [pool EXCEPT !.num = @ + 1]
              /\ At(t, pc)
           \/ /\ plan.fails
              /\ worker' = [worker EXCEPT ![w].pc = "none"]
              /\ pool' = IF pc = "create" THEN [pool EXCEPT !.state = "freed"] ELSE pool
              /\ poster' = [poster EXCEPT ![t].pc = "script", ![t].job = NoJob]
        /\ UNCHANGED <<work, jobsDone, waiters, plan, calls>>

\* The top of the loop, with the mutex held: the worker says that it is idle,
\* takes the oldest job or sleeps.
Settle(w) ==
    IF pool.tear
    THEN /\ worker' = [worker EXCEPT ![w] = [pc |-> "leave", job |-> NoJob]]
         /\ UNCHANGED <<pool, work, waiters, poster>>
    ELSE /\ SignalWaiter
         /\ IF work = <<>>
            THEN /\ worker' = [worker EXCEPT ![w] = [pc |-> "sleep", job |-> NoJob]]
                 /\ pool' = [pool EXCEPT !.idle = @ + 1]
                 /\ UNCHANGED work
            ELSE /\ worker' = [worker EXCEPT ![w] = [pc |-> "eval", job |-> Head(work)]]
                 /\ work' = Tail(work) /\ UNCHANGED pool

Begin(w) ==
    /\ worker[w].pc = "idle" /\ Unlocked
    /\ Settle(w)
    /\ UNCHANGED <<jobsDone, plan, calls>>

\* Notified of work, or of the end.
Awake(w) ==
    /\ worker[w].pc = "sleep" /\ Unlocked
    /\ pool.tear \/ work # <<>>
    /\ pool' = [pool EXCEPT !.idle = @ - 1]
    /\ IF pool.tear
       THEN worker' = [worker EXCEPT ![w].pc = "leave"] /\ UNCHANGED work
       ELSE /\ worker' = [worker EXCEPT ![w] = [pc |-> "eval", job |-> Head(work)]]
            /\ work' = Tail(work)
    /\ UNCHANGED <<jobsDone, waiters, poster, plan, calls>>

\* -idletime has passed: nothing else is looked at.
TimeOut(w) ==
    /\ plan.idle /\ worker[w].pc = "sleep" /\ Unlocked
    /\ calls > 0 /\ calls' = calls - 1
    /\ pool' = [pool EXCEPT !.idle = @ - 1]
    /\ worker' = [worker EXCEPT ![w].pc = "leave"]
    /\ UNCHANGED <<work, jobsDone, waiters, poster, plan>>

\* Slip: the newest job first.
FinishNewest(w) ==
    /\ worker[w].pc = "eval" /\ Unlocked
    /\ jobsDone' = IF worker[w].job.detached THEN jobsDone ELSE jobsDone \cup {worker[w].job}
    /\ IF pool.tear \/ work = <<>> THEN Settle(w)
       ELSE /\ SignalWaiter
            /\ worker' = [worker EXCEPT ![w].job = Last(work)]
            /\ work' = Front(work) /\ UNCHANGED pool
    /\ UNCHANGED <<plan, calls>>

\* The script has run; its result is kept unless the job is detached.
Finish(w) ==
    /\ worker[w].pc = "eval" /\ Unlocked
    /\ jobsDone' = IF worker[w].job.detached THEN jobsDone ELSE jobsDone \cup {worker[w].job}
    /\ Settle(w)
    /\ UNCHANGED <<plan, calls>>

Leave(w) ==
    /\ worker[w].pc = "leave" /\ Unlocked
    /\ pool' = [pool EXCEPT !.num = @ - 1]
    /\ SignalWaiter
    /\ worker' = [worker EXCEPT ![w].pc = "none"]
    /\ UNCHANGED <<work, jobsDone, plan, calls>>

Command(t) ==
    Create(t) \/ Post(t) \/ Wait(t) \/ Cancel(t) \/ GetDone(t) \/ Preserve(t) \/ Release(t)
Poster(t) ==
    \/ Resume(t) \/ CreateNext(t) \/ PostWaits(t) \/ NowaitStarts(t) \/ Push(t)
    \/ WaitLooks(t) \/ Reap(t)
Worker(w) == Start(w) \/ Begin(w) \/ Awake(w) \/ Finish(w) \/ Leave(w)

Next == \/ \E t \in Posters : Command(t) \/ Poster(t)
        \/ \E w \in Workers : Worker(w) \/ TimeOut(w)

\* Threads that can go on do, and scripts come to an end.
Fairness == /\ \A t \in Posters : WF_vars(Poster(t))
            /\ \A w \in Workers : WF_vars(Worker(w))
Spec == Init /\ [][Next]_vars /\ Fairness

-----------------------------------------------------------------------------
(* Properties *)

\* The jobs' way through the queue, the workers and the results: each run at
\* most once, in order, and kept until it is collected.
Status(n) ==
    IF n > pool.jobs THEN "none"
    ELSE IF \E i \in DOMAIN work : work[i].n = n THEN "queued"
    ELSE IF \E w \in Workers : worker[w].job.n = n THEN "running"
    ELSE IF \E j \in jobsDone : j.n = n THEN "done" ELSE "gone"
Queue == INSTANCE JobQueue WITH Jobs <- 1..MaxJobs, job <- [n \in 1..MaxJobs |-> Status(n)]
ImplementsJobQueue == Queue!Spec

\* Every command returns: posts find a worker, waits see one of their jobs
\* done, a release sees all workers gone. A wait for nothing that is left does not.
Moving(t) ==
    \/ poster[t].pc = "script"
    \/ poster[t].pc = "waiting" /\ poster[t].want \cap Known = {}
CallsEnd == \A t \in Posters : poster[t].pc # "script" ~> Moving(t)

\* A job that was queued does not stay there.
JobsServed == \A n \in 1..MaxJobs : Status(n) = "queued" ~> Status(n) # "queued"

\* No thread is in the list of waiters twice: its one structure links it.
WaiterOnce == \A i, j \in DOMAIN waiters : waiters[i] = waiters[j] => i = j

\* A pool that was freed is not used any more.
FreedIsUnused == pool.state = "freed" =>
    /\ \A t \in Posters : poster[t].pc = "script"
    /\ \A w \in Workers : worker[w].pc = "none"
=============================================================================
