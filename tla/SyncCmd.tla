------------------------------- MODULE SyncCmd ------------------------------
(***************************************************************************)
(* Mutexes and condition variables for scripts                             *)
(* (thread2.6/generic/threadSpCmd.c). A handle is looked up in a bucket,   *)
(* whose lock is held while the command looks at the mutex; a command that *)
(* finds the mutex locked gives the bucket up before it waits for it, one  *)
(* that finds it unlocked does not. The critical sections of recursive and *)
(* read-write mutexes, which hold an inner lock without waiting, are one   *)
(* step each.                                                              *)
(***************************************************************************)
EXTENDS Integers, FiniteSets

CONSTANTS
    Threads,
    Nobody,
    Plans     \* the kind of the mutex of a behaviour, the commands its scripts
              \* use and how many of them

SyncAssumption ==
    /\ Nobody \notin Threads
    /\ \A p \in Plans : p.kind \in {"exclusive", "recursive", "rw", "eval"} /\ p.calls \in Nat

VARIABLES
    mux,     \* freed; owner and lockcount; holder of the native lock of an
             \* exclusive mutex; readers and writers counted as waiting
    cond,    \* the condition variable: freed, waited
    bucket,  \* the thread that holds the bucket's lock
    thread,  \* thread -> where it is, the command it is in, the locks that it
             \* has, "r", "w" or "none", and how often
    plan, calls

vars == <<mux, cond, bucket, thread, plan, calls>>

Init ==
    /\ plan \in Plans /\ calls = plan.calls
    /\ mux = [freed |-> FALSE, owner |-> Nobody, count |-> 0, native |-> Nobody,
              numrd |-> 0, numwr |-> 0]
    /\ cond = [freed |-> FALSE, waited |-> FALSE]
    /\ bucket = Nobody
    /\ thread = [t \in Threads |-> [pc |-> "script", op |-> "none", mode |-> "none", held |-> 0]]

IsLocked == mux.count # 0

-----------------------------------------------------------------------------
(* Commands of a script. It unlocks what it has locked, and does not ask    *)
(* for a read or write lock while it has one of the other kind.             *)

\* thread::eval -lock runs a script that uses no mutex itself.
Evaluates(t) == plan.kind # "eval" /\ thread[t].op = "eval" /\ thread[t].held > 0

Begin(t, op) ==
    /\ op \in plan.commands /\ ~Evaluates(t) /\ thread[t].pc = "script"
    /\ calls > 0 /\ calls' = calls - 1
    /\ thread' = [thread EXCEPT ![t].pc = IF plan.kind = "eval" THEN "lock" ELSE "get",
                                ![t].op = op]
    /\ UNCHANGED <<mux, cond, bucket, plan>>

Lock(t) ==
    \/ plan.kind \in {"exclusive", "recursive"} /\ Begin(t, "lock")
    \/ thread[t].held = 0 /\ Begin(t, "rlock")
    \/ thread[t].mode # "r" /\ Begin(t, "wlock")
Destroy(t) == thread[t].held = 0 /\ Begin(t, "destroy")
Eval(t) ==
    /\ plan.kind # "rw" /\ (thread[t].held > 0 => plan.kind = "eval")
    /\ Begin(t, "eval")

Unlock(t) ==
    /\ ~Evaluates(t)
    /\ thread[t].pc = "script" /\ thread[t].held > 0
    /\ thread' = [thread EXCEPT ![t].pc = IF plan.kind = "eval" THEN "release" ELSE "get",
                                ![t].op = "unlock"]
    /\ UNCHANGED <<mux, cond, bucket, plan, calls>>

Goes(t, pc) == thread' = [thread EXCEPT ![t].pc = pc]

\* GetMutex and what is looked at before the bucket is given up. Where it is
\* kept for the lock, lockcount may change until then all the same.
Look(t) ==
    LET op == thread[t].op
        twice == IsLocked /\ mux.owner = t /\ plan.kind # "recursive" /\ op # "rlock"
    IN  /\ thread[t].pc = "get" /\ bucket = Nobody /\ op \in {"lock", "eval", "rlock", "wlock"}
        /\ IF mux.freed \/ twice
           THEN Goes(t, "script") /\ UNCHANGED bucket
           ELSE Goes(t, "lock") /\ bucket' = IF IsLocked THEN bucket ELSE t
        /\ UNCHANGED <<mux, cond, plan, calls>>

LookDestroy(t) ==
    /\ thread[t].pc = "get" /\ thread[t].op = "destroy" /\ bucket = Nobody
    /\ mux' = [mux EXCEPT !.freed = @ \/ ~IsLocked]
    /\ Goes(t, "script")
    /\ UNCHANGED <<cond, bucket, plan, calls>>

\* The lock is got, and the bucket given up by who still has it.
Got(t, mode) ==
    /\ thread' = [thread EXCEPT ![t].pc = "script", ![t].mode = mode, ![t].held = @ + 1]
    /\ bucket' = IF bucket = t THEN Nobody ELSE bucket

\* Sp_ExclusiveMutexLock
LockExclusive(t) ==
    /\ plan.kind = "exclusive" /\ thread[t].pc = "lock" /\ mux.native = Nobody
    /\ mux' = [mux EXCEPT !.native = t, !.owner = t, !.count = @ + 1]
    /\ Got(t, "w")
    /\ UNCHANGED <<cond, plan, calls>>

\* Sp_RecursiveMutexLock, also that of thread::eval itself
LockRecursive(t) ==
    /\ plan.kind \in {"recursive", "eval"} /\ thread[t].pc \in {"lock", "woken"}
    /\ IF mux.owner \in {t, Nobody}
       THEN /\ mux' = [mux EXCEPT !.owner = t,
                                  !.count = IF mux.owner = t THEN @ + 1 ELSE 1]
            /\ Got(t, "w")
       ELSE Goes(t, "asleep") /\ UNCHANGED <<mux, bucket>>
    /\ UNCHANGED <<cond, plan, calls>>

\* Sp_ReadWriteMutexRLock: readers let a waiting writer go first.
LockRead(t) ==
    LET rd == IF thread[t].pc = "woken" THEN mux.numrd - 1 ELSE mux.numrd
    IN  /\ plan.kind = "rw" /\ thread[t].op = "rlock" /\ thread[t].pc \in {"lock", "woken"}
        /\ IF mux.count < 0 \/ mux.numwr > 0
           THEN /\ mux' = [mux EXCEPT !.numrd = rd + 1]
                /\ Goes(t, "asleep") /\ UNCHANGED bucket
           ELSE /\ mux' = [mux EXCEPT !.numrd = rd, !.count = @ + 1, !.owner = Nobody]
                /\ Got(t, "r")
        /\ UNCHANGED <<cond, plan, calls>>

\* Slip: a writer looks at writers only.
LockWriteOverReaders(t) ==
    LET wr == IF thread[t].pc = "woken" THEN mux.numwr - 1 ELSE mux.numwr
    IN  /\ plan.kind = "rw" /\ thread[t].op = "wlock" /\ thread[t].pc \in {"lock", "woken"}
        /\ IF mux.count < 0
           THEN /\ mux' = [mux EXCEPT !.numwr = wr + 1]
                /\ Goes(t, "asleep") /\ UNCHANGED bucket
           ELSE /\ mux' = [mux EXCEPT !.numwr = wr, !.count = -1, !.owner = t]
                /\ Got(t, "w")
        /\ UNCHANGED <<cond, plan, calls>>
\* Sp_ReadWriteMutexWLock
LockWrite(t) ==
    LET wr == IF thread[t].pc = "woken" THEN mux.numwr - 1 ELSE mux.numwr
    IN  /\ plan.kind = "rw" /\ thread[t].op = "wlock" /\ thread[t].pc \in {"lock", "woken"}
        /\ IF mux.count # 0
           THEN /\ mux' = [mux EXCEPT !.numwr = wr + 1]
                /\ Goes(t, "asleep") /\ UNCHANGED bucket
           ELSE /\ mux' = [mux EXCEPT !.numwr = wr, !.count = -1, !.owner = t]
                /\ Got(t, "w")
        /\ UNCHANGED <<cond, plan, calls>>

\* Who is woken by an unlock: everybody who waits on the condition variable
\* that is notified.
Notified(count) ==
    IF plan.kind = "rw"
    THEN {t \in Threads : thread[t].op = IF mux.numwr > 0 THEN "wlock" ELSE "rlock"}
    ELSE IF count = 0 THEN Threads ELSE {}

\* Sp_ExclusiveMutexUnlock, Sp_RecursiveMutexUnlock, Sp_ReadWriteMutexUnlock
Unlocked(t, then) ==
    LET count == IF plan.kind = "rw" /\ mux.count < 0 THEN 0 ELSE mux.count - 1
        keeps == IF plan.kind = "rw" THEN mux.count > 0
                 ELSE plan.kind # "exclusive" /\ count > 0
    IN  /\ mux' = [mux EXCEPT !.count = count, !.native = Nobody,
                              !.owner = IF keeps THEN @ ELSE Nobody]
        /\ thread' = [u \in Threads |->
             IF u = t THEN [thread[t] EXCEPT !.pc = then, !.held = @ - 1,
                                             !.mode = IF thread[t].held = 1 THEN "none" ELSE @]
             ELSE IF thread[u].pc = "asleep" /\ u \in Notified(count)
                  THEN [thread[u] EXCEPT !.pc = "woken"]
             ELSE thread[u]]

\* Slip: readers are not woken.
UnlockForWriters(t) ==
    /\ thread[t].pc = "get" /\ thread[t].op = "unlock" /\ bucket = Nobody
    /\ IF plan.kind = "rw" /\ mux.numwr = 0
       THEN /\ mux' = [mux EXCEPT !.count = IF @ < 0 THEN 0 ELSE @ - 1, !.owner = Nobody]
            /\ thread' = [thread EXCEPT ![t].pc = "script", ![t].held = 0, ![t].mode = "none"]
       ELSE Unlocked(t, "script")
    /\ UNCHANGED <<cond, bucket, plan, calls>>
LookUnlock(t) ==
    /\ ~Evaluates(t)
    /\ thread[t].pc = "get" /\ thread[t].op = "unlock" /\ bucket = Nobody
    /\ IF IsLocked THEN Unlocked(t, "script") ELSE Goes(t, "script") /\ UNCHANGED mux
    /\ UNCHANGED <<cond, bucket, plan, calls>>

\* thread::eval with its own mutex uses no handle.
ReleaseEval(t) ==
    /\ thread[t].pc = "release"
    /\ Unlocked(t, "script")
    /\ UNCHANGED <<cond, bucket, plan, calls>>

\* thread::eval -lock ends: the mutex is unlocked without a look in the bucket,
\* which is then given up by a thread that does not have it: that may free it
\* under another one, or have no effect.
EvalEnds(t) ==
    /\ Evaluates(t) /\ thread[t].pc = "script"
    /\ Unlocked(t, "script")
    /\ bucket' \in {bucket, Nobody}
    /\ UNCHANGED <<cond, plan, calls>>

-----------------------------------------------------------------------------
(* Condition variables. The exclusive mutex that a wait gives up stays      *)
(* marked as locked.                                                        *)

Wait(t) ==
    /\ "wait" \in plan.commands /\ thread[t].pc = "script" /\ mux.native = t
    /\ calls > 0 /\ calls' = calls - 1
    /\ bucket = Nobody /\ ~cond.freed
    /\ cond' = [cond EXCEPT !.waited = TRUE]
    /\ thread' = [thread EXCEPT ![t].pc = "wait", ![t].op = "wait"]
    /\ UNCHANGED <<mux, bucket, plan>>
WaitSleeps(t) ==
    /\ thread[t].pc = "wait"
    /\ mux' = [mux EXCEPT !.native = Nobody]
    /\ Goes(t, "sleeping")
    /\ UNCHANGED <<cond, bucket, plan, calls>>
Notify(t) ==
    /\ "wait" \in plan.commands /\ thread[t].pc = "script" /\ ~cond.freed
    /\ calls > 0 /\ calls' = calls - 1
    /\ thread' = [u \in Threads |->
         IF thread[u].pc = "sleeping" THEN [thread[u] EXCEPT !.pc = "waking"] ELSE thread[u]]
    /\ UNCHANGED <<mux, cond, bucket, plan>>
\* The time given for the wait has passed.
WaitTimesOut(t) ==
    /\ thread[t].pc = "sleeping"
    /\ Goes(t, "waking")
    /\ UNCHANGED <<mux, cond, bucket, plan, calls>>
WaitEnds(t) ==
    /\ thread[t].pc = "waking" /\ mux.native = Nobody
    /\ mux' = [mux EXCEPT !.native = t]
    /\ cond' = [cond EXCEPT !.waited = FALSE]
    /\ thread' = [thread EXCEPT ![t].pc = "script", ![t].op = "lock"]
    /\ UNCHANGED <<bucket, plan, calls>>
CondDestroy(t) ==
    /\ "conddestroy" \in plan.commands /\ thread[t].pc = "script" /\ calls > 0
    /\ calls' = calls - 1
    /\ cond' = [cond EXCEPT !.freed = @ \/ ~cond.waited]
    /\ UNCHANGED <<mux, bucket, thread, plan>>

Command(t) == Lock(t) \/ Destroy(t) \/ Eval(t) \/ Wait(t) \/ Notify(t) \/ CondDestroy(t)
Proceed(t) ==
    \/ Look(t) \/ LookDestroy(t) \/ LookUnlock(t) \/ ReleaseEval(t)
    \/ LockExclusive(t) \/ LockRecursive(t) \/ LockRead(t) \/ LockWrite(t)
    \/ WaitSleeps(t) \/ WaitEnds(t) \/ WaitTimesOut(t)
Release(t) == Unlock(t) \/ EvalEnds(t)

Next == \E t \in Threads : Command(t) \/ Proceed(t) \/ Release(t)

\* Threads that can go on do, get a lock they are often offered, and scripts
\* unlock what they have locked.
Spec == /\ Init /\ [][Next]_vars
        /\ \A t \in Threads : SF_vars(Proceed(t)) /\ WF_vars(Release(t))

-----------------------------------------------------------------------------
(* Properties *)

Has(t) == thread[t].held > 0 /\ thread[t].pc \notin {"sleeping", "waking"}

\* Who has the lock for writing, or has locked the mutex, is alone with it.
Exclusion == \A t, u \in Threads : t # u /\ Has(t) /\ Has(u) =>
    thread[t].mode = "r" /\ thread[u].mode = "r"

\* A thread waits for the mutex and keeps the bucket, which who has the mutex
\* needs to unlock it.
Jammed == \E t \in Threads :
    bucket = t /\ thread[t].pc \in {"lock", "asleep", "woken"}
    /\ \E u \in Threads \ {t} : thread[u].held > 0

\* A thread that locks the exclusive mutex it has already gets an error, even
\* after a wait for the condition variable.
TwiceIsRefused == \A t \in Threads : ~(thread[t].pc = "lock" /\ mux.native = t)

\* Who waits for a mutex gets it, and who unlocks one can, unless such a jam
\* has come about, or a thread that waits for itself.
Waiting(t) == thread[t].pc # "script"
LocksEnd == \A t \in Threads :
    Waiting(t) ~> (~Waiting(t) \/ Jammed \/ ~TwiceIsRefused)

\* An unlock comes to its end, so that another thread may lock the mutex.
UnlocksEnd == \A t \in Threads :
    (thread[t].pc = "get" /\ thread[t].op = "unlock") ~> thread[t].pc = "script"

\* A condition variable that a thread sleeps on is not destroyed.
SleptOnIsKept ==
    cond.freed => \A t \in Threads : thread[t].pc \notin {"wait", "sleeping", "waking"}

\* A mutex that is locked or waited for is not destroyed.
WaitedForIsKept ==
    mux.freed => \A t \in Threads : thread[t].held = 0 /\ thread[t].pc \notin {"lock", "asleep", "woken"}

\* The lock of a bucket is given up by the thread that has it.
BucketKept == [][\A t \in Threads :
    bucket = t /\ bucket' # t => thread'[t].pc = "script"]_vars
=============================================================================
