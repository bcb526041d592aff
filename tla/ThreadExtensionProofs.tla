------------------------- MODULE ThreadExtensionProofs -------------------------
(***************************************************************************)
(* The thread extension: proofs about its components as MCThreadExtension  *)
(* has them, for any threads and any plans, in three parts.                *)
(*                                                                         *)
(* Threads that send each other scripts. Who waits for an answer has one   *)
(* event on its way, in the queue of the thread it waits for or served by  *)
(* it; the events of those who do not wait have no sender. A step moves    *)
(* such an event, answers it or loses it with its thread, which then tells *)
(* the sender that it died.                                                *)
(*                                                                         *)
(* Pools, for plans that UsedAlone allows. What the freeing rests on is    *)
(* what the threads may be at in each phase of the pool: before it is      *)
(* listed its creator is the only one, while one tears it down nobody else *)
(* has it, and the count of the workers is the number of those that run,   *)
(* so that none is left when it is 0. What the jobs rest on is that a      *)
(* number is at one place, and that the queue has them in the order of     *)
(* their numbers.                                                          *)
(*                                                                         *)
(* Mutexes of scripts. What makes them exclude differs with the kind of    *)
(* the mutex. An exclusive one has a native lock, which whoever has locked *)
(* it holds except while it sleeps on the condition variable. A recursive  *)
(* one, and that of thread::eval, names its owner, who has locked it as    *)
(* often as it counts. A read-write one counts its readers, or -1 for one  *)
(* writer; for that, no thread may ask for it that has it, which is the    *)
(* test for locking twice.                                                 *)
(***************************************************************************)
EXTENDS MCThreadExtension, FiniteSetTheorems, SequenceTheorems, TLAPS

-----------------------------------------------------------------------------
(* Threads: the inductive invariant *)

\* What queues, threads and result structures are.
SendPcs == {"unborn", "script", "serving", "report", "blocked", "asleep", "throttled",
            "casting", "creating", "joining", "error", "callback", "check", "loop", "event",
            "unlist", "discard", "ending", "exit", "dead"}
Returns == {"script", "serving", "casting", "check", "callback", "ending"}
Kinds == {"none", "script", "idle", "broadcast", "wake", "channel"}
Waited == {"none", "send", "release", "transfer"}
Codes == {"none", "given", "died"}
Someone == SendThreads \cup {Nobody}
Events == [kind : Kinds, src : Someone, back : Someone]
Runs == [pc : SendPcs, ret : Returns, cur : Events, bad : BOOLEAN, on : Someone,
         todo : SUBSET SendThreads]
Results == [on : Someone, kind : Waited, code : Codes]
SendTypes ==
    /\ queue \in [SendThreads -> Seq(Events)]
    /\ run \in [SendThreads -> Runs]
    /\ result \in [SendThreads -> Results]
    /\ listed \subseteq SendThreads
    /\ errorThread \in Someone

\* Where a thread is while an event of a thread that waits is its current one,
\* and where it goes on after waits of its own.
CurrentKept(r) == r.cur.src \in SendThreads =>
    /\ r.pc \in Thr!Serving \cup {"check", "exit"}
    /\ r.pc \in {"blocked", "creating", "joining"} => r.ret = "serving"
    /\ r.pc \in {"asleep", "throttled"} => r.ret \in {"serving", "casting"}

\* A thread with the record r serves an event of c.
Serves(r, c) == r.pc \in Thr!Serving /\ r.cur.src = c

\* The event at place i of u's queue, or for 0 the one that u serves, will be
\* answered to c.
Due(u, i, c) ==
    \/ i = 0 /\ Serves(run[u], c)
    \/ i \in DOMAIN queue[u] /\ queue[u][i].src = c

\* c waits, and waits for an answer that has not come.
Blocked(c) == run[c].pc = "blocked"
Unanswered(c) == Blocked(c) /\ result[c].code = "none"

\* There is at most one such event; it is in the thread that c waits for, and
\* while there is none that thread is on its way out.
DueOnce(c) == \A u \in SendThreads, i, j \in Nat : Due(u, i, c) /\ Due(u, j, c) => i = j
DueWaits(c) == \A u \in SendThreads, i \in Nat : Due(u, i, c) =>
    /\ Unanswered(c) /\ result[c].on = u
    /\ i # 0 /\ queue[u][i].kind = "channel" => result[c].kind = "transfer"
WaitsDue(c) == Unanswered(c) =>
    /\ result[c].on \in SendThreads
    /\ \/ run[result[c].on].pc \in {"ending", "exit"}
       \/ \E i \in Nat : Due(result[c].on, i, c)

SendInv ==
    /\ SendTypes
    /\ \A u \in SendThreads : CurrentKept(run[u])
    /\ \A c \in SendThreads : DueOnce(c) /\ DueWaits(c) /\ WaitsDue(c)

LEMMA NobodySends == Nobody \notin SendThreads
BY ThreadAssumption DEF Thr!ThreadAssumption

-----------------------------------------------------------------------------
(* Steps of one thread *)

\* The record of t becomes r.
Turns(t, r) == run' = [run EXCEPT ![t] = r]

\* From r to q a thread goes on serving whom it serves, neither begins nor ends
\* a wait for an answer, and stays on its way out.
Calm(r, q) ==
    /\ \A c \in SendThreads : Serves(r, c) <=> Serves(q, c)
    /\ r.pc = "blocked" <=> q.pc = "blocked"
    /\ r.pc \in {"ending", "exit"} => q.pc \in {"ending", "exit"}

\* Such a step keeps the type, and the other threads as they are.
LEMMA TurnsType ==
    ASSUME SendTypes, NEW t \in SendThreads, NEW r \in Runs, Turns(t, r)
    PROVE  /\ run' \in [SendThreads -> Runs] /\ run'[t] = r
           /\ \A u \in SendThreads : u # t => run'[u] = run[u]
BY DEF Turns, SendTypes

\* Post moves t on or puts it to sleep, and queues an event without a sender.
LEMMA PostSteps ==
    ASSUME SendTypes, NEW t \in SendThreads, NEW u \in Someone, NEW kind \in Kinds,
           NEW back \in Someone, NEW then \in Returns, NEW todo \in SUBSET SendThreads,
           Thr!Post(t, u, kind, back, then, todo)
    PROVE  /\ \E r \in Runs : Turns(t, r) /\ r.cur = run[t].cur
                /\ (r.pc = then \/ (r.pc = "asleep" /\ r.ret = then))
           /\ \/ queue' = queue
              \/ \E e \in Events : e.src = Nobody /\ queue' = [queue EXCEPT ![u] = Append(@, e)]
<1>0. run[t] \in Runs
  BY DEF SendTypes
<1>1. CASE Thr!Refuses(u)
  <2>1. PICK r : r = [run[t] EXCEPT !.pc = then, !.todo = todo]
    OBVIOUS
  <2>2. r \in Runs /\ r.cur = run[t].cur /\ r.pc = then
    BY <1>0, <2>1 DEF Runs, Returns, SendPcs
  <2>3. run' = [run EXCEPT ![t].pc = then, ![t].todo = todo] /\ queue' = queue
    BY <1>1 DEF Thr!Post
  <2>4. Turns(t, r)
    BY <1>0, <2>1, <2>3 DEF Turns, Runs
  <2> QED BY <2>2, <2>3, <2>4
<1>2. CASE ~Thr!Refuses(u)
  <2>1. PICK pc \in {then, "asleep"} :
          run' = [run EXCEPT ![t].pc = pc, ![t].ret = then, ![t].on = u, ![t].todo = todo]
    BY <1>2 DEF Thr!Post
  <2>2. PICK r : r = [run[t] EXCEPT !.pc = pc, !.ret = then, !.on = u, !.todo = todo]
    OBVIOUS
  <2>3. pc \in SendPcs
    BY DEF SendPcs, Returns
  <2>4. r \in Runs /\ r.cur = run[t].cur /\ r.pc = pc /\ r.ret = then
    BY <1>0, <2>2, <2>3 DEF Runs
  <2>5. Turns(t, r)
    BY <1>0, <2>1, <2>2 DEF Turns, Runs
  <2>6. PICK e \in Events : e.src = Nobody /\ queue' = [queue EXCEPT ![u] = Append(@, e)]
    <3>1. PICK k \in Kinds : queue' = [queue EXCEPT ![u] =
                              Append(@, [kind |-> k, src |-> Nobody, back |-> back])]
      BY <1>2 DEF Thr!Post, Thr!Enqueue, Kinds
    <3>2. [kind |-> k, src |-> Nobody, back |-> back] \in Events
      BY DEF Events, Someone
    <3> QED BY <3>1, <3>2
  <2> QED BY <2>1, <2>4, <2>5, <2>6
<1> QED BY <1>1, <1>2

\* What a step does that changes nobody's wait.
QuietQueue == queue' \in [SendThreads -> Seq(Events)] /\ \A u \in SendThreads :
    queue'[u] = queue[u] \/ \E e \in Events : e.src = Nobody /\ queue'[u] = Append(queue[u], e)
QuietRun == run' \in [SendThreads -> Runs] /\ \A u \in SendThreads :
    Calm(run[u], run'[u]) /\ CurrentKept(run'[u])

\* One calm thread makes a quiet step.
LEMMA QuietTurn ==
    ASSUME SendInv, NEW t \in SendThreads, NEW r \in Runs, Turns(t, r),
           Calm(run[t], r), CurrentKept(r)
    PROVE  QuietRun
<1>1. SendTypes
  BY DEF SendInv
<1>2. run' \in [SendThreads -> Runs] /\ run'[t] = r
      /\ \A u \in SendThreads : u # t => run'[u] = run[u]
  BY <1>1, TurnsType
<1> QED BY <1>2 DEF SendInv, QuietRun, Calm

LEMMA QuietPost ==
    ASSUME SendInv, NEW t \in SendThreads, NEW u \in Someone, NEW kind \in Kinds,
           NEW back \in Someone, NEW then \in Returns, NEW todo \in SUBSET SendThreads,
           Thr!Post(t, u, kind, back, then, todo),
           run[t].pc \notin {"blocked", "ending", "exit"},
           \/ /\ run[t].pc \in Thr!Serving
              /\ run[t].cur.src \in SendThreads => then \in {"serving", "casting"}
           \/ run[t].cur.src \notin SendThreads,
           then \notin {"blocked"}
    PROVE  QuietRun /\ QuietQueue
<1>1. SendTypes
  BY DEF SendInv
<1>2. PICK r \in Runs : Turns(t, r) /\ r.cur = run[t].cur
                /\ (r.pc = then \/ (r.pc = "asleep" /\ r.ret = then))
  BY <1>1, PostSteps
<1>3. \/ queue' = queue
      \/ \E e \in Events : e.src = Nobody /\ queue' = [queue EXCEPT ![u] = Append(@, e)]
  BY <1>1, PostSteps
<1>4. Calm(run[t], r)
  BY <1>2 DEF Calm, Serves, Thr!Serving
<1>5. CurrentKept(r)
  BY <1>2 DEF CurrentKept, Thr!Serving
<1>6. QuietRun
  BY <1>2, <1>4, <1>5, QuietTurn
<1>7. QuietQueue
  <2>0. queue \in [SendThreads -> Seq(Events)]
    BY <1>1 DEF SendTypes
  <2>1. CASE queue' = queue
    BY <2>0, <2>1 DEF QuietQueue
  <2>2. CASE queue' # queue
    <3>1. PICK e \in Events : e.src = Nobody /\ queue' = [queue EXCEPT ![u] = Append(@, e)]
      BY <1>3, <2>2
    <3>2. \A w \in SendThreads : queue'[w] = IF w = u THEN Append(queue[w], e) ELSE queue[w]
      BY <2>0, <3>1
    <3>3. \A w \in SendThreads : queue'[w] \in Seq(Events)
      <4>1. \A s \in Seq(Events) : Append(s, e) \in Seq(Events)
        BY AppendProperties
      <4> QED BY <2>0, <3>2, <4>1
    <3>4. queue' \in [SendThreads -> Seq(Events)]
      BY <2>0, <3>1, <3>3
    <3> QED BY <3>1, <3>2, <3>4 DEF QuietQueue
  <2> QED BY <2>1, <2>2
<1> QED BY <1>6, <1>7

\* The fields a step assigns make a record of the same type.
Turned(t, pc, ret, cur) ==
    \E r \in Runs : Turns(t, r) /\ r.pc = pc /\ r.ret = ret /\ r.cur = cur

LEMMA TurnForms ==
    ASSUME SendTypes, NEW t \in SendThreads, NEW pc \in SendPcs, NEW ret \in Returns,
           NEW cur \in Events, NEW bad \in BOOLEAN, NEW on \in Someone,
           NEW todo \in SUBSET SendThreads
    PROVE  /\ run' = [run EXCEPT ![t].pc = pc] => Turned(t, pc, run[t].ret, run[t].cur)
           /\ run' = [run EXCEPT ![t].pc = pc, ![t].ret = ret]
                => Turned(t, pc, ret, run[t].cur)
           /\ run' = [run EXCEPT ![t].pc = pc, ![t].ret = ret, ![t].on = on]
                => Turned(t, pc, ret, run[t].cur)
           /\ run' = [run EXCEPT ![t].pc = pc, ![t].ret = ret, ![t].todo = todo]
                => Turned(t, pc, ret, run[t].cur)
           /\ run' = [run EXCEPT ![t].bad = bad, ![t].ret = ret, ![t].pc = pc]
                => Turned(t, pc, ret, run[t].cur)
           /\ run' = [run EXCEPT ![t].pc = pc, ![t].cur = cur, ![t].bad = bad]
                => Turned(t, pc, run[t].ret, cur)
           /\ run' = [run EXCEPT ![t].cur = cur, ![t].pc = pc]
                => Turned(t, pc, run[t].ret, cur)
<1>0. run[t] \in Runs
  BY DEF SendTypes
<1>1. ASSUME run' = [run EXCEPT ![t].pc = pc]
     PROVE  Turned(t, pc, run[t].ret, run[t].cur)
  <2>1. PICK r : r = [run[t] EXCEPT !.pc = pc]
    OBVIOUS
  <2>2. r \in Runs /\ r.pc = pc /\ r.ret = run[t].ret /\ r.cur = run[t].cur
    BY <1>0, <2>1 DEF Runs
  <2>3. Turns(t, r)
    BY <1>0, <1>1, <2>1 DEF Turns, Runs
  <2> QED BY <2>2, <2>3 DEF Turned
<1>2. ASSUME run' = [run EXCEPT ![t].pc = pc, ![t].ret = ret]
     PROVE  Turned(t, pc, ret, run[t].cur)
  <2>1. PICK r : r = [run[t] EXCEPT !.pc = pc, !.ret = ret]
    OBVIOUS
  <2>2. r \in Runs /\ r.pc = pc /\ r.ret = ret /\ r.cur = run[t].cur
    BY <1>0, <2>1 DEF Runs
  <2>3. Turns(t, r)
    BY <1>0, <1>2, <2>1 DEF Turns, Runs
  <2> QED BY <2>2, <2>3 DEF Turned
<1>3. ASSUME run' = [run EXCEPT ![t].pc = pc, ![t].ret = ret, ![t].on = on]
     PROVE  Turned(t, pc, ret, run[t].cur)
  <2>1. PICK r : r = [run[t] EXCEPT !.pc = pc, !.ret = ret, !.on = on]
    OBVIOUS
  <2>2. r \in Runs /\ r.pc = pc /\ r.ret = ret /\ r.cur = run[t].cur
    BY <1>0, <2>1 DEF Runs
  <2>3. Turns(t, r)
    BY <1>0, <1>3, <2>1 DEF Turns, Runs
  <2> QED BY <2>2, <2>3 DEF Turned
<1>4. ASSUME run' = [run EXCEPT ![t].pc = pc, ![t].ret = ret, ![t].todo = todo]
     PROVE  Turned(t, pc, ret, run[t].cur)
  <2>1. PICK r : r = [run[t] EXCEPT !.pc = pc, !.ret = ret, !.todo = todo]
    OBVIOUS
  <2>2. r \in Runs /\ r.pc = pc /\ r.ret = ret /\ r.cur = run[t].cur
    BY <1>0, <2>1 DEF Runs
  <2>3. Turns(t, r)
    BY <1>0, <1>4, <2>1 DEF Turns, Runs
  <2> QED BY <2>2, <2>3 DEF Turned
<1>5. ASSUME run' = [run EXCEPT ![t].bad = bad, ![t].ret = ret, ![t].pc = pc]
     PROVE  Turned(t, pc, ret, run[t].cur)
  <2>1. PICK r : r = [run[t] EXCEPT !.bad = bad, !.ret = ret, !.pc = pc]
    OBVIOUS
  <2>2. r \in Runs /\ r.pc = pc /\ r.ret = ret /\ r.cur = run[t].cur
    BY <1>0, <2>1 DEF Runs
  <2>3. Turns(t, r)
    BY <1>0, <1>5, <2>1 DEF Turns, Runs
  <2> QED BY <2>2, <2>3 DEF Turned
<1>6. ASSUME run' = [run EXCEPT ![t].pc = pc, ![t].cur = cur, ![t].bad = bad]
     PROVE  Turned(t, pc, run[t].ret, cur)
  <2>1. PICK r : r = [run[t] EXCEPT !.pc = pc, !.cur = cur, !.bad = bad]
    OBVIOUS
  <2>2. r \in Runs /\ r.pc = pc /\ r.ret = run[t].ret /\ r.cur = cur
    BY <1>0, <2>1 DEF Runs
  <2>3. Turns(t, r)
    BY <1>0, <1>6, <2>1 DEF Turns, Runs
  <2> QED BY <2>2, <2>3 DEF Turned
<1>7. ASSUME run' = [run EXCEPT ![t].cur = cur, ![t].pc = pc]
     PROVE  Turned(t, pc, run[t].ret, cur)
  <2>1. PICK r : r = [run[t] EXCEPT !.cur = cur, !.pc = pc]
    OBVIOUS
  <2>2. r \in Runs /\ r.pc = pc /\ r.ret = run[t].ret /\ r.cur = cur
    BY <1>0, <2>1 DEF Runs
  <2>3. Turns(t, r)
    BY <1>0, <1>7, <2>1 DEF Turns, Runs
  <2> QED BY <2>2, <2>3 DEF Turned
<1> QED BY <1>1, <1>2, <1>3, <1>4, <1>5, <1>6, <1>7

\* The same by the fields of the record.
LEMMA QuietTurned ==
    ASSUME SendInv, NEW t \in SendThreads, NEW pc, NEW ret, NEW cur, Turned(t, pc, ret, cur),
           \A c \in SendThreads : Serves(run[t], c) <=> (pc \in Thr!Serving /\ cur.src = c),
           run[t].pc = "blocked" <=> pc = "blocked",
           run[t].pc \in {"ending", "exit"} => pc \in {"ending", "exit"},
           cur.src \in SendThreads =>
               /\ pc \in Thr!Serving \cup {"check", "exit"}
               /\ pc \in {"blocked", "creating", "joining"} => ret = "serving"
               /\ pc \in {"asleep", "throttled"} => ret \in {"serving", "casting"}
    PROVE  QuietRun
<1>1. PICK r \in Runs : Turns(t, r) /\ r.pc = pc /\ r.ret = ret /\ r.cur = cur
  BY DEF Turned
<1>2. Calm(run[t], r)
  BY <1>1 DEF Calm, Serves
<1>3. CurrentKept(r)
  BY <1>1 DEF CurrentKept
<1> QED BY <1>1, <1>2, <1>3, QuietTurn

LEMMA QuietSame ==
    ASSUME SendInv
    PROVE  run' = run => QuietRun
BY DEF SendInv, SendTypes, QuietRun, Calm

LEMMA QuietStill ==
    ASSUME SendInv
    PROVE  queue' = queue => QuietQueue
BY DEF SendInv, SendTypes, QuietQueue

\* What is known of a thread before it moves.
LEMMA RunFacts ==
    ASSUME SendInv, NEW t \in SendThreads
    PROVE  /\ run[t].pc \in SendPcs /\ run[t].ret \in Returns /\ run[t].cur \in Events
           /\ run[t].on \in Someone /\ run[t].todo \subseteq SendThreads
           /\ run[t].cur.src \in Someone /\ run[t].cur.back \in Someone
           /\ run[t].cur.src \in SendThreads =>
               /\ run[t].pc \in Thr!Serving \cup {"check", "exit"}
               /\ run[t].pc \in {"blocked", "creating", "joining"} => run[t].ret = "serving"
               /\ run[t].pc \in {"asleep", "throttled"} => run[t].ret \in {"serving", "casting"}
<1>1. run[t] \in Runs /\ CurrentKept(run[t])
  BY DEF SendInv, SendTypes
<1> QED BY <1>1 DEF Runs, Events, CurrentKept

\* The actions that change nobody's wait, one after another.
LEMMA QuietWords ==
    ASSUME SendInv, NEW t \in SendThreads,
           \/ Thr!Preserve(t) \/ Thr!Unwind(t) \/ Thr!Configure(t) \/ Thr!ErrorProc(t)
           \/ Thr!Detach(t) \/ Thr!Attach(t)
    PROVE  SendTypes' /\ QuietRun /\ QuietQueue /\ result' = result
<1>1. run' = run /\ queue' = queue /\ result' = result /\ listed' = listed
      /\ errorThread' \in {errorThread, t}
  BY DEF Thr!Preserve, Thr!Unwind, Thr!Configure, Thr!ErrorProc, Thr!Detach, Thr!Attach
<1>2. SendTypes'
  BY <1>1 DEF SendInv, SendTypes, Someone
<1> QED BY <1>1, <1>2, QuietSame, QuietStill

LEMMA QuietBroadcast ==
    ASSUME SendInv, NEW t \in SendThreads, Thr!Broadcast(t)
    PROVE  SendTypes' /\ QuietRun /\ QuietQueue /\ result' = result
<1>0. SendTypes
  BY DEF SendInv
<1>1. /\ run[t].pc \in {"script", "serving"} /\ queue' = queue /\ result' = result
      /\ listed' = listed /\ errorThread' = errorThread
  BY DEF Thr!Broadcast, Thr!Uses
<1>2. run' = [run EXCEPT ![t].pc = "casting", ![t].ret = run[t].pc, ![t].todo = listed \ {t}]
  BY DEF Thr!Broadcast
<1>3. "casting" \in SendPcs /\ run[t].pc \in Returns /\ listed \ {t} \in SUBSET SendThreads /\ run[t].bad \in BOOLEAN
      /\ t \in Someone
  BY <1>0, <1>1 DEF SendPcs, Returns, SendTypes, Runs, Someone
<1>4. Turned(t, "casting", run[t].pc, run[t].cur)
  BY <1>0, <1>2, <1>3, RunFacts, TurnForms
<1>5. QuietRun
  BY <1>1, <1>4, RunFacts, QuietTurned DEF Serves, Thr!Serving
<1>6. SendTypes'
  BY <1>0, <1>1, <1>5, QuietStill DEF SendTypes, QuietRun
<1> QED BY <1>1, <1>5, <1>6, QuietStill

LEMMA QuietJoin ==
    ASSUME SendInv, NEW t \in SendThreads, Thr!Join(t)
    PROVE  SendTypes' /\ QuietRun /\ QuietQueue /\ result' = result
<1>0. SendTypes
  BY DEF SendInv
<1>1. /\ run[t].pc \in {"script", "serving"} /\ queue' = queue /\ result' = result
      /\ listed' = listed /\ errorThread' = errorThread
  BY DEF Thr!Join, Thr!Uses
<1>2. PICK u \in SendThreads :
        run' = [run EXCEPT ![t].pc = "joining", ![t].ret = run[t].pc, ![t].on = u]
  BY DEF Thr!Join, Thr!Known
<1>3. "joining" \in SendPcs /\ run[t].pc \in Returns /\ u \in Someone /\ run[t].bad \in BOOLEAN
  BY <1>0, <1>1 DEF SendPcs, Returns, SendTypes, Runs, Someone
<1>4. Turned(t, "joining", run[t].pc, run[t].cur)
  BY <1>0, <1>2, <1>3, RunFacts, TurnForms
<1>5. QuietRun
  BY <1>1, <1>4, RunFacts, QuietTurned DEF Serves, Thr!Serving
<1>6. SendTypes'
  BY <1>0, <1>1, <1>5, QuietStill DEF SendTypes, QuietRun
<1> QED BY <1>1, <1>5, <1>6, QuietStill

LEMMA QuietSendAsync ==
    ASSUME SendInv, NEW t \in SendThreads, Thr!SendAsync(t)
    PROVE  SendTypes' /\ QuietRun /\ QuietQueue /\ result' = result
<1>0. SendTypes
  BY DEF SendInv
<1>1. /\ run[t].pc \in {"script", "serving"} /\ result' = result
      /\ listed' = listed /\ errorThread' = errorThread
  BY DEF Thr!SendAsync, Thr!Uses
<1>2. PICK u \in SendThreads, back \in {t, Nobody} : Thr!Post(t, u, "script", back, run[t].pc, {})
  BY DEF Thr!SendAsync, Thr!Known
<1>3. "script" \in Kinds /\ run[t].pc \in Returns /\ u \in Someone /\ back \in Someone /\ {} \in SUBSET SendThreads
  BY <1>1 DEF Kinds, Someone, Returns
<1>4. run[t].pc \in Thr!Serving \/ run[t].cur.src \notin SendThreads
  BY <1>1, RunFacts DEF Thr!Serving
<1>5. QuietRun /\ QuietQueue
  BY <1>1, <1>2, <1>3, <1>4, RunFacts, QuietPost DEF Thr!Serving
<1>6. SendTypes'
  BY <1>0, <1>1, <1>5 DEF SendTypes, QuietRun, QuietQueue
<1> QED BY <1>1, <1>5, <1>6

LEMMA QuietCreate ==
    ASSUME SendInv, NEW t \in SendThreads, Thr!Create(t)
    PROVE  SendTypes' /\ QuietRun /\ QuietQueue /\ result' = result
<1>0. SendTypes /\ run[t] \in Runs
  BY DEF SendInv, SendTypes
<1>1. /\ run[t].pc \in {"script", "serving"} /\ queue' = queue /\ result' = result
      /\ errorThread' = errorThread
  BY DEF Thr!Create, Thr!Uses
<1>2. PICK u \in SendThreads :
        /\ run[u].pc = "unborn" /\ listed' = listed \cup {u}
        /\ run' = [run EXCEPT ![u].pc = "script",
                              ![t].pc = "creating", ![t].ret = run[t].pc, ![t].on = u]
  BY DEF Thr!Create
<1>3. u # t /\ run[u] \in Runs
  BY <1>0, <1>1, <1>2 DEF SendTypes
<1>4. PICK r : r = [run[t] EXCEPT !.pc = "creating", !.ret = run[t].pc, !.on = u]
  OBVIOUS
<1>5. PICK q : q = [run[u] EXCEPT !.pc = "script"]
  OBVIOUS
<1>6. /\ r \in Runs /\ r.pc = "creating" /\ r.ret = run[t].pc /\ r.cur = run[t].cur
      /\ q \in Runs /\ q.pc = "script" /\ q.cur = run[u].cur
  BY <1>0, <1>1, <1>3, <1>4, <1>5 DEF Runs, SendPcs, Returns, Someone
<1>7. run' = [run EXCEPT ![u] = q, ![t] = r]
  BY <1>0, <1>2, <1>3, <1>4, <1>5 DEF SendTypes, Runs
<1>8. /\ run' \in [SendThreads -> Runs] /\ run'[t] = r /\ run'[u] = q
      /\ \A w \in SendThreads : w # t /\ w # u => run'[w] = run[w]
  BY <1>0, <1>3, <1>6, <1>7 DEF SendTypes
<1>9. run[u].cur.src \notin SendThreads
  BY <1>2, RunFacts DEF Thr!Serving
<1>10. Calm(run[t], r) /\ CurrentKept(r)
  BY <1>1, <1>6, RunFacts DEF Calm, Serves, CurrentKept, Thr!Serving
<1>11. Calm(run[u], q) /\ CurrentKept(q)
  BY <1>2, <1>6, <1>9 DEF Calm, Serves, CurrentKept, Thr!Serving
<1>12. QuietRun
  BY <1>8, <1>10, <1>11 DEF SendInv, QuietRun, Calm
<1>13. SendTypes'
  BY <1>0, <1>1, <1>2, <1>12 DEF SendTypes, QuietRun
<1> QED BY <1>1, <1>12, <1>13, QuietStill

LEMMA QuietRelease ==
    ASSUME SendInv, NEW t \in SendThreads, Thr!Release(t), run' = run
    PROVE  SendTypes' /\ QuietRun /\ QuietQueue /\ result' = result
<1>0. SendTypes /\ run[t] \in Runs
  BY DEF SendInv, SendTypes
<1>1. run[t].pc \in {"script", "serving"} /\ errorThread' = errorThread
  BY DEF Thr!Release, Thr!Uses
<1>2. PICK u \in SendThreads, wait \in BOOLEAN :
        LET last == tsd[u].users - 1 <= 0 IN
        /\ listed' = IF last THEN listed \ {u} ELSE listed
        /\ IF last THEN Thr!Enqueue(u, "wake", IF wait THEN t ELSE Nobody, Nobody)
           ELSE queue' = queue
        /\ IF last /\ wait THEN Thr!Await(t, u, "release") ELSE result' = result
  BY DEF Thr!Release, Thr!Known
<1>3. ASSUME Thr!Await(t, u, "release") PROVE FALSE
  <2>1. run' = [run EXCEPT ![t].pc = "blocked", ![t].ret = run[t].pc]
    BY <1>3 DEF Thr!Await
  <2>2. run'[t].pc = "blocked"
    BY <1>0, <2>1 DEF SendTypes, Runs
  <2> QED BY <1>1, <2>2
<1>4. result' = result
  BY <1>2, <1>3
<1>5. QuietQueue
  <2>1. CASE ~(tsd[u].users - 1 <= 0)
    BY <1>2, <2>1, QuietStill
  <2>2. CASE tsd[u].users - 1 <= 0
    <3>1. ~wait
      BY <1>2, <1>3, <2>2
    <3>2. PICK e \in Events : e.src = Nobody /\ queue' = [queue EXCEPT ![u] = Append(@, e)]
      <4>1. queue' = [queue EXCEPT ![u] =
                        Append(@, [kind |-> "wake", src |-> Nobody, back |-> Nobody])]
        BY <1>2, <2>2, <3>1 DEF Thr!Enqueue
      <4>2. [kind |-> "wake", src |-> Nobody, back |-> Nobody] \in Events
        BY DEF Events, Kinds, Someone
      <4> QED BY <4>1, <4>2
    <3>3. \A w \in SendThreads : queue'[w] = IF w = u THEN Append(queue[w], e) ELSE queue[w]
      BY <1>0, <3>2 DEF SendTypes
    <3>4. \A s \in Seq(Events) : Append(s, e) \in Seq(Events)
      BY AppendProperties
    <3>5. queue' \in [SendThreads -> Seq(Events)]
      BY <1>0, <3>2, <3>3, <3>4 DEF SendTypes
    <3> QED BY <3>2, <3>3, <3>5 DEF QuietQueue
  <2> QED BY <2>1, <2>2
<1>6. QuietRun
  BY QuietSame
<1>7. SendTypes'
  BY <1>0, <1>1, <1>2, <1>4, <1>5 DEF SendTypes, QuietQueue
<1> QED BY <1>4, <1>5, <1>6, <1>7

LEMMA QuietBroadcastNext ==
    ASSUME SendInv, NEW t \in SendThreads, Thr!BroadcastNext(t)
    PROVE  SendTypes' /\ QuietRun /\ QuietQueue /\ result' = result
<1>0. SendTypes /\ run[t] \in Runs
  BY DEF SendInv, SendTypes
<1>1. /\ run[t].pc = "casting" /\ result' = result
      /\ listed' = listed /\ errorThread' = errorThread
  BY DEF Thr!BroadcastNext
<1>2. \/ /\ queue' = queue
         /\ run' = [run EXCEPT ![t].pc = IF run[t].cur = Thr!NoEvent THEN "script" ELSE "serving"]
      \/ \E u \in run[t].todo :
           Thr!Post(t, u, "broadcast", Nobody, "casting", run[t].todo \ {u})
  BY DEF Thr!BroadcastNext
<1>3. QuietRun /\ QuietQueue
  <2>1. CASE /\ queue' = queue
             /\ run' = [run EXCEPT ![t].pc = IF run[t].cur = Thr!NoEvent THEN "script" ELSE "serving"]
    <3>1. PICK pc \in {"script", "serving"} : run' = [run EXCEPT ![t].pc = pc]
                /\ (run[t].cur # Thr!NoEvent => pc = "serving")
      BY <2>1
    <3>2. pc \in SendPcs /\ run[t].bad \in BOOLEAN /\ t \in Someone
      BY <1>0 DEF SendPcs, Runs, Someone
    <3>3. Turned(t, pc, run[t].ret, run[t].cur)
      BY <1>0, <3>1, <3>2, RunFacts, TurnForms
    <3>4. run[t].cur.src \in SendThreads => pc = "serving"
      BY <3>1, NobodySends DEF Thr!NoEvent
    <3>5. QuietRun
      BY <1>1, <3>1, <3>3, <3>4, QuietTurned DEF Serves, Thr!Serving
    <3> QED BY <2>1, <3>5, QuietStill
  <2>2. CASE \E u \in run[t].todo :
               Thr!Post(t, u, "broadcast", Nobody, "casting", run[t].todo \ {u})
    <3>1. PICK u \in run[t].todo :
               Thr!Post(t, u, "broadcast", Nobody, "casting", run[t].todo \ {u})
      BY <2>2
    <3>2. "broadcast" \in Kinds /\ "casting" \in Returns /\ u \in Someone /\ Nobody \in Someone
          /\ run[t].todo \ {u} \in SUBSET SendThreads
      BY RunFacts DEF Kinds, Returns, Someone
    <3>3. run[t].pc \in Thr!Serving
      BY <1>1 DEF Thr!Serving
    <3> QED BY <1>1, <3>1, <3>2, <3>3, QuietPost
  <2> QED BY <1>2, <2>1, <2>2
<1>4. SendTypes'
  BY <1>0, <1>1, <1>3 DEF SendTypes, QuietRun, QuietQueue
<1> QED BY <1>1, <1>3, <1>4

LEMMA QuietGoes ==
    ASSUME SendInv, NEW t \in SendThreads, NEW pc \in SendPcs,
           run' = [run EXCEPT ![t].pc = pc], queue' = queue, result' = result,
           listed' \subseteq listed, errorThread' = errorThread,
           run[t].pc # "blocked", pc # "blocked",
           run[t].pc \in {"ending", "exit"} => pc \in {"ending", "exit"},
           run[t].cur.src \in SendThreads =>
               /\ run[t].pc \in Thr!Serving /\ pc \in Thr!Serving
               /\ pc \in {"creating", "joining"} => run[t].ret = "serving"
               /\ pc \in {"asleep", "throttled"} => run[t].ret \in {"serving", "casting"}
    PROVE  SendTypes' /\ QuietRun /\ QuietQueue /\ result' = result
<1>0. SendTypes /\ run[t] \in Runs
  BY DEF SendInv, SendTypes
<1>1. t \in Someone /\ run[t].bad \in BOOLEAN
  BY <1>0 DEF Runs, Someone
<1>2. Turned(t, pc, run[t].ret, run[t].cur)
  BY <1>0, <1>1, RunFacts, TurnForms
<1>3. QuietRun
  BY <1>2, QuietTurned DEF Serves
<1>4. SendTypes'
  BY <1>0, <1>3 DEF SendTypes, QuietRun
<1> QED BY <1>3, <1>4, QuietStill

LEMMA QuietBack ==
    ASSUME SendInv, NEW t \in SendThreads,
           Thr!Throttled(t) \/ Thr!Created(t) \/ Thr!Joined(t) \/ Thr!Unlist(t) \/ Thr!Ending(t)
    PROVE  SendTypes' /\ QuietRun /\ QuietQueue /\ result' = result
<1>0. SendTypes /\ run[t] \in Runs
  BY DEF SendInv, SendTypes
<1>1. queue' = queue /\ result' = result /\ listed' \subseteq listed /\ errorThread' = errorThread
  BY DEF Thr!Throttled, Thr!Created, Thr!Joined, Thr!Unlist, Thr!Ending
<1>2. PICK pc \in {"asleep", run[t].ret, "discard", "exit"} :
        /\ run' = [run EXCEPT ![t].pc = pc]
        /\ \/ /\ run[t].pc \in {"throttled", "creating", "joining"}
              /\ pc = run[t].ret \/ (pc = "asleep" /\ run[t].pc = "throttled")
           \/ run[t].pc = "unlist" /\ pc = "discard"
           \/ run[t].pc = "ending" /\ pc = "exit"
  BY DEF Thr!Throttled, Thr!Created, Thr!Joined, Thr!Unlist, Thr!Ending
<1>3. pc \in SendPcs /\ pc # "blocked"
  BY <1>2, RunFacts DEF SendPcs, Returns
<1>4. run[t].pc # "blocked" /\ (run[t].pc \in {"ending", "exit"} => pc \in {"ending", "exit"})
  BY <1>2
<1>5. run[t].cur.src \in SendThreads =>
        /\ run[t].pc \in Thr!Serving /\ pc \in Thr!Serving
        /\ pc \in {"creating", "joining"} => run[t].ret = "serving"
        /\ pc \in {"asleep", "throttled"} => run[t].ret \in {"serving", "casting"}
  BY <1>2, RunFacts DEF Thr!Serving
<1> QED BY <1>1, <1>2, <1>3, <1>4, <1>5, QuietGoes

LEMMA QuietScriptEnds ==
    ASSUME SendInv, NEW t \in SendThreads, Thr!ScriptEnds(t)
    PROVE  SendTypes' /\ QuietRun /\ QuietQueue /\ result' = result
<1>0. SendTypes
  BY DEF SendInv
<1>1. /\ run[t].pc \in {"script", "serving"} /\ queue' = queue /\ result' = result
      /\ listed' = listed /\ errorThread' = errorThread
  BY DEF Thr!ScriptEnds
<1>2. PICK bad \in BOOLEAN, after \in {"ending", "callback", "check"},
           pc \in {"loop", "report", "error", "ending", "callback", "check"} :
        /\ run' = [run EXCEPT ![t].bad = bad, ![t].ret = after, ![t].pc = pc]
        /\ run[t].pc = "serving" /\ run[t].cur.src # Nobody => pc = "report"
  BY <1>1 DEF Thr!ScriptEnds
<1>3. pc \in SendPcs /\ after \in Returns /\ t \in Someone
  BY DEF SendPcs, Returns, Someone
<1>4. Turned(t, pc, after, run[t].cur)
  BY <1>0, <1>2, <1>3, RunFacts, TurnForms
<1>5. run[t].cur.src \in SendThreads => run[t].pc = "serving" /\ pc = "report"
  BY <1>1, <1>2, RunFacts, NobodySends DEF Thr!Serving
<1>6. QuietRun
  BY <1>1, <1>4, <1>5, QuietTurned DEF Serves, Thr!Serving
<1>7. SendTypes'
  BY <1>0, <1>1, <1>6 DEF SendTypes, QuietRun
<1> QED BY <1>1, <1>6, <1>7, QuietStill

LEMMA QuietReport ==
    ASSUME SendInv, NEW t \in SendThreads, Thr!ReportError(t) \/ Thr!Callback(t)
    PROVE  SendTypes' /\ QuietRun /\ QuietQueue /\ result' = result
<1>0. SendTypes /\ run[t] \in Runs
  BY DEF SendInv, SendTypes
<1>1. /\ run[t].pc \in {"error", "callback"} /\ result' = result
      /\ listed' = listed /\ errorThread' = errorThread
  BY DEF Thr!ReportError, Thr!Callback
<1>2. run[t].cur.src \notin SendThreads
  BY <1>1, RunFacts DEF Thr!Serving
<1>3. QuietRun /\ QuietQueue
  <2>1. CASE run' = [run EXCEPT ![t].pc = run[t].ret] /\ queue' = queue
    <3>1. run[t].ret \in SendPcs /\ run[t].ret # "blocked"
      BY RunFacts DEF SendPcs, Returns
    <3> QED BY <1>1, <1>2, <2>1, <3>1, QuietGoes
  <2>2. CASE \E u \in Someone, then \in Returns : Thr!Post(t, u, "script", Nobody, then, {})
    <3>1. PICK u \in Someone, then \in Returns : Thr!Post(t, u, "script", Nobody, then, {})
      BY <2>2
    <3>2. "script" \in Kinds /\ Nobody \in Someone /\ {} \in SUBSET SendThreads /\ then # "blocked"
      BY DEF Kinds, Someone, Returns
    <3> QED BY <1>1, <1>2, <3>1, <3>2, QuietPost
  <2>3. "check" \in Returns /\ run[t].ret \in Returns /\ run[t].cur.back \in Someone
        /\ errorThread \in Someone
    BY <1>0, RunFacts DEF Returns, SendTypes
  <2> QED BY <2>1, <2>2, <2>3 DEF Thr!ReportError, Thr!Callback
<1>4. SendTypes'
  BY <1>0, <1>1, <1>3 DEF SendTypes, QuietRun, QuietQueue
<1> QED BY <1>1, <1>3, <1>4

LEMMA QuietCheck ==
    ASSUME SendInv, NEW t \in SendThreads, Thr!Check(t)
    PROVE  SendTypes' /\ QuietRun /\ QuietQueue /\ result' = result
<1>0. SendTypes
  BY DEF SendInv
<1>1. /\ run[t].pc = "check" /\ queue' = queue /\ result' = result
      /\ listed' = listed /\ errorThread' = errorThread
  BY DEF Thr!Check
<1>2. PICK pc \in {"unlist", "loop"} :
        run' = [run EXCEPT ![t].pc = pc, ![t].cur = Thr!NoEvent, ![t].bad = FALSE]
  BY DEF Thr!Check
<1>3. pc \in SendPcs /\ t \in Someone
  BY DEF SendPcs, Someone
<1>4. Thr!NoEvent \in Events /\ Thr!NoEvent.src \notin SendThreads
  BY NobodySends DEF Thr!NoEvent, Events, Kinds, Someone
<1>5. Turned(t, pc, run[t].ret, Thr!NoEvent)
  BY <1>0, <1>2, <1>3, <1>4, RunFacts, TurnForms
<1>6. QuietRun
  BY <1>1, <1>4, <1>5, QuietTurned DEF Serves, Thr!Serving
<1>7. SendTypes'
  BY <1>0, <1>1, <1>6 DEF SendTypes, QuietRun
<1> QED BY <1>1, <1>6, <1>7, QuietStill

LEMMA QuietLoop ==
    ASSUME SendInv, NEW t \in SendThreads, Thr!Loop(t)
    PROVE  SendTypes' /\ QuietRun /\ QuietQueue /\ result' = result
<1>0. SendTypes
  BY DEF SendInv
<1>1. /\ run[t].pc = "loop" /\ queue' = queue /\ result' = result
      /\ listed' = listed /\ errorThread' = errorThread
  BY DEF Thr!Loop
<1>2. /\ DOMAIN run' = SendThreads
      /\ \A u \in SendThreads :
           \/ u = t /\ run'[u] = [run[u] EXCEPT !.pc = "event"]
           \/ u # t /\ run[u].pc = "asleep" /\ run'[u] = [run[u] EXCEPT !.pc = "throttled"]
           \/ u # t /\ run'[u] = run[u]
  BY DEF Thr!Loop
<1>3. run[t].cur.src \notin SendThreads
  BY <1>1, RunFacts DEF Thr!Serving
<1>4. \A u \in SendThreads :
        run'[u] \in Runs /\ Calm(run[u], run'[u]) /\ CurrentKept(run'[u])
  <2> SUFFICES ASSUME NEW u \in SendThreads
               PROVE  run'[u] \in Runs /\ Calm(run[u], run'[u]) /\ CurrentKept(run'[u])
    OBVIOUS
  <2>0. run[u] \in Runs /\ CurrentKept(run[u])
    BY DEF SendInv, SendTypes
  <2>1. CASE u = t /\ run'[u] = [run[u] EXCEPT !.pc = "event"]
    <3>1. run'[u] \in Runs /\ run'[u].pc = "event" /\ run'[u].cur = run[u].cur
      BY <2>0, <2>1 DEF Runs, SendPcs
    <3> QED BY <1>1, <1>3, <2>1, <3>1 DEF Calm, Serves, CurrentKept, Thr!Serving
  <2>2. CASE run[u].pc = "asleep" /\ run'[u] = [run[u] EXCEPT !.pc = "throttled"]
    <3>1. run'[u] \in Runs /\ run'[u].pc = "throttled" /\ run'[u].cur = run[u].cur
          /\ run'[u].ret = run[u].ret
      BY <2>0, <2>2 DEF Runs, SendPcs
    <3> QED BY <2>0, <2>2, <3>1 DEF Calm, Serves, CurrentKept, Thr!Serving
  <2>3. CASE run'[u] = run[u]
    BY <2>0, <2>3 DEF Calm
  <2> QED BY <1>2, <2>1, <2>2, <2>3
<1>5. run' \in [SendThreads -> Runs]
  <2>1. run' = [u \in SendThreads |-> run'[u]]
    BY DEF Thr!Loop
  <2> QED BY <1>4, <2>1
<1>6. QuietRun
  BY <1>4, <1>5 DEF QuietRun
<1>7. SendTypes'
  BY <1>0, <1>1, <1>6 DEF SendTypes, QuietRun
<1> QED BY <1>1, <1>6, <1>7, QuietStill

-----------------------------------------------------------------------------
(* What quiet steps keep *)

\* The places of a queue are numbers other than 0.
LEMMA QueueTypes ==
    ASSUME SendTypes, NEW u \in SendThreads
    PROVE  /\ queue[u] \in Seq(Events) /\ Len(queue[u]) \in Nat
           /\ DOMAIN queue[u] = 1 .. Len(queue[u])
           /\ 0 \notin DOMAIN queue[u]
<1>1. queue[u] \in Seq(Events)
  BY DEF SendTypes
<1>2. Len(queue[u]) \in Nat /\ DOMAIN queue[u] = 1 .. Len(queue[u])
  BY <1>1, LenProperties
<1> QED BY <1>1, <1>2

\* A quiet step leaves every event that will be answered where it is.
LEMMA QuietDue ==
    ASSUME SendInv, QuietRun, QuietQueue, NEW u \in SendThreads, NEW c \in SendThreads,
           NEW i \in Nat
    PROVE  /\ Due(u, i, c)' <=> Due(u, i, c)
           /\ Due(u, i, c) /\ i # 0 => queue'[u][i] = queue[u][i]
<1>1. Serves(run'[u], c) <=> Serves(run[u], c)
  BY DEF QuietRun, Calm
<1>2. queue[u] \in Seq(Events)
  BY DEF SendInv, SendTypes
<1>3. CASE queue'[u] = queue[u]
  BY <1>1, <1>3 DEF Due, Serves
<1>4. CASE \E e \in Events : e.src = Nobody /\ queue'[u] = Append(queue[u], e)
  <2>1. PICK e \in Events : e.src = Nobody /\ queue'[u] = Append(queue[u], e)
    BY <1>4
  <2>2. /\ Len(queue[u]) \in Nat /\ DOMAIN queue[u] = 1 .. Len(queue[u])
        /\ DOMAIN queue'[u] = 1 .. (Len(queue[u]) + 1)
        /\ \A k \in 1 .. Len(queue[u]) : queue'[u][k] = queue[u][k]
        /\ queue'[u][Len(queue[u]) + 1] = e
    BY <1>2, <2>1, AppendProperties, LenProperties
  <2>3. c # Nobody
    BY NobodySends
  <2>4. i \in DOMAIN queue'[u] <=> i \in DOMAIN queue[u] \/ i = Len(queue[u]) + 1
    BY <2>2
  <2> QED BY <1>1, <2>1, <2>2, <2>3, <2>4 DEF Due, Serves
<1> QED BY <1>3, <1>4 DEF QuietQueue

LEMMA QuietInv ==
    ASSUME SendInv, SendTypes', QuietRun, QuietQueue, result' = result
    PROVE  SendInv'
<1>1. \A u, c \in SendThreads, i \in Nat :
        /\ Due(u, i, c)' <=> Due(u, i, c)
        /\ Due(u, i, c) /\ i # 0 => queue'[u][i] = queue[u][i]
  BY QuietDue
<1>2. \A c \in SendThreads : Unanswered(c)' <=> Unanswered(c)
  BY DEF QuietRun, Calm, Unanswered, Blocked
<1>3. \A c \in SendThreads : DueOnce(c)'
  BY <1>1 DEF SendInv, DueOnce
<1>4. \A c \in SendThreads : DueWaits(c)'
  BY <1>1, <1>2 DEF SendInv, DueWaits
<1>5. \A c \in SendThreads : WaitsDue(c)'
  BY <1>1, <1>2 DEF SendInv, WaitsDue, QuietRun, Calm
<1>6. \A u \in SendThreads : CurrentKept(run[u])'
  BY DEF QuietRun, CurrentKept
<1> QED BY <1>3, <1>4, <1>5, <1>6 DEF SendInv

-----------------------------------------------------------------------------
(* Steps that begin, answer or end a wait *)

\* t asks u and waits for the answer.
AsksFor(t, u, sort, kind) ==
    /\ run[t].pc \in {"script", "serving"}
    /\ Thr!Enqueue(u, sort, t, Nobody)
    /\ Thr!Await(t, u, kind)
    /\ listed' \subseteq listed /\ errorThread' = errorThread

\* What asking assigns, and where the new event is.
LEMMA AsksTypes ==
    ASSUME SendInv, NEW t \in SendThreads, NEW u \in SendThreads, NEW sort \in Kinds,
           NEW kind \in Waited, AsksFor(t, u, sort, kind)
    PROVE  /\ SendTypes'
           /\ run'[t].pc = "blocked" /\ run'[t].ret = run[t].pc /\ run'[t].cur = run[t].cur
           /\ \A w \in SendThreads : w # t => run'[w] = run[w]
           /\ result'[t] = [on |-> u, kind |-> kind, code |-> "none"]
           /\ \A w \in SendThreads : w # t => result'[w] = result[w]
           /\ queue'[u] = Append(queue[u], [kind |-> sort, src |-> t, back |-> Nobody])
           /\ \A w \in SendThreads : w # u => queue'[w] = queue[w]
<1>0. SendTypes /\ run[t] \in Runs
  BY DEF SendInv, SendTypes
<1>1. run' = [run EXCEPT ![t].pc = "blocked", ![t].ret = run[t].pc]
  BY DEF AsksFor, Thr!Await
<1>2. "blocked" \in SendPcs /\ run[t].pc \in Returns /\ run[t].bad \in BOOLEAN /\ t \in Someone
      /\ u \in Someone /\ Nobody \in Someone /\ "none" \in Codes
  BY <1>0 DEF AsksFor, SendPcs, Returns, Runs, Someone, Codes
<1>3. Turned(t, "blocked", run[t].pc, run[t].cur)
  BY <1>0, <1>1, <1>2, RunFacts, TurnForms
<1>4. PICK r \in Runs : Turns(t, r) /\ r.pc = "blocked" /\ r.ret = run[t].pc /\ r.cur = run[t].cur
  BY <1>3 DEF Turned
<1>5. /\ run' \in [SendThreads -> Runs] /\ run'[t] = r
      /\ \A w \in SendThreads : w # t => run'[w] = run[w]
  BY <1>0, <1>4, TurnsType
<1>6. [on |-> u, kind |-> kind, code |-> "none"] \in Results
  BY <1>2 DEF Results
<1>7. result' = [result EXCEPT ![t] = [on |-> u, kind |-> kind, code |-> "none"]]
  BY DEF AsksFor, Thr!Await
<1>8. /\ result' \in [SendThreads -> Results]
      /\ result'[t] = [on |-> u, kind |-> kind, code |-> "none"]
      /\ \A w \in SendThreads : w # t => result'[w] = result[w]
  BY <1>0, <1>6, <1>7 DEF SendTypes
<1>9. PICK e : e = [kind |-> sort, src |-> t, back |-> Nobody]
  OBVIOUS
<1>10. e \in Events
  BY <1>2, <1>9 DEF Events
<1>11. queue' = [queue EXCEPT ![u] = Append(@, e)]
  BY <1>9 DEF AsksFor, Thr!Enqueue
<1>12. /\ queue'[u] = Append(queue[u], e)
       /\ \A w \in SendThreads : w # u => queue'[w] = queue[w]
  BY <1>0, <1>11 DEF SendTypes
<1>13. queue' \in [SendThreads -> Seq(Events)]
  <2>1. queue[u] \in Seq(Events)
    BY <1>0 DEF SendTypes
  <2>2. Append(queue[u], e) \in Seq(Events)
    BY <1>10, <2>1, AppendProperties
  <2> QED BY <1>0, <1>11, <2>2 DEF SendTypes
<1>14. SendTypes'
  BY <1>0, <1>5, <1>8, <1>13 DEF SendTypes, AsksFor
<1> QED BY <1>4, <1>5, <1>8, <1>9, <1>12, <1>14

LEMMA AsksServes ==
    ASSUME SendInv, NEW t \in SendThreads, NEW u \in SendThreads, NEW sort \in Kinds,
           NEW kind \in Waited, AsksFor(t, u, sort, kind)
    PROVE  \A w, c \in SendThreads : Serves(run'[w], c) <=> Serves(run[w], c)
<1>1. run[t].pc \in {"script", "serving"}
  BY DEF AsksFor
<1>2. run[t].pc = "script" => run[t].cur.src \notin SendThreads
  BY RunFacts DEF Thr!Serving
<1>3. \A c \in SendThreads : Serves(run'[t], c) <=> Serves(run[t], c)
  BY <1>1, <1>2, AsksTypes DEF Serves, Thr!Serving
<1>4. \A w \in SendThreads : w # t => run'[w] = run[w]
  BY AsksTypes
<1> QED BY <1>3, <1>4

LEMMA AsksDue ==
    ASSUME SendInv, NEW t \in SendThreads, NEW u \in SendThreads, NEW sort \in Kinds,
           NEW kind \in Waited, AsksFor(t, u, sort, kind),
           NEW w \in SendThreads, NEW c \in SendThreads, NEW i \in Nat
    PROVE  /\ Due(w, i, c)' <=> Due(w, i, c) \/ (w = u /\ c = t /\ i = Len(queue[u]) + 1)
           /\ ~Due(w, i, t)
           /\ Due(w, i, c) /\ i # 0 => queue'[w][i] = queue[w][i]
<1>1. Serves(run'[w], c) <=> Serves(run[w], c)
  BY AsksServes
<1>2. ~Due(w, i, t)
  BY DEF SendInv, DueWaits, Unanswered, Blocked, AsksFor
<1>3. CASE w # u
  <2>1. queue'[w] = queue[w]
    BY ZenonT(60), <1>3, AsksTypes
  <2> QED BY <1>1, <1>2, <1>3, <2>1 DEF Due, Serves
<1>4. CASE w = u
  <2>1. queue[u] \in Seq(Events)
    BY DEF SendInv, SendTypes
  <2>2. PICK e : e = [kind |-> sort, src |-> t, back |-> Nobody]
    OBVIOUS
  <2>3. e \in Events
    BY <2>2 DEF Events, Someone
  <2>4. queue'[u] = Append(queue[u], e)
    BY <2>2, AsksTypes
  <2>5. /\ Len(queue[u]) \in Nat /\ DOMAIN queue[u] = 1 .. Len(queue[u])
        /\ DOMAIN queue'[u] = 1 .. (Len(queue[u]) + 1)
        /\ \A k \in 1 .. Len(queue[u]) : queue'[u][k] = queue[u][k]
        /\ queue'[u][Len(queue[u]) + 1] = e
    BY <2>1, <2>3, <2>4, AppendProperties, LenProperties
  <2>6. i \in DOMAIN queue'[u] <=> i \in DOMAIN queue[u] \/ i = Len(queue[u]) + 1
    BY <2>5
  <2>7. e.src = t
    BY <2>2
  <2> QED BY <1>1, <1>2, <1>4, <2>5, <2>6, <2>7 DEF Due, Serves
<1> QED BY <1>3, <1>4

LEMMA AsksInv ==
    ASSUME SendInv, NEW t \in SendThreads, NEW u \in SendThreads, NEW sort \in Kinds,
           NEW kind \in Waited, AsksFor(t, u, sort, kind), sort = "channel" => kind = "transfer"
    PROVE  SendInv'
<1>00. /\ SendTypes'
       /\ run'[t].pc = "blocked" /\ run'[t].ret = run[t].pc /\ run'[t].cur = run[t].cur
       /\ \A w \in SendThreads : w # t => run'[w] = run[w]
       /\ result'[t] = [on |-> u, kind |-> kind, code |-> "none"]
       /\ \A w \in SendThreads : w # t => result'[w] = result[w]
       /\ queue'[u] = Append(queue[u], [kind |-> sort, src |-> t, back |-> Nobody])
  BY AsksTypes
<1>0. /\ SendTypes' /\ run'[t].pc = "blocked" /\ run'[t].ret = run[t].pc /\ run'[t].cur = run[t].cur
      /\ \A w \in SendThreads : w # t => run'[w] = run[w] /\ result'[w] = result[w]
      /\ result'[t].on = u /\ result'[t].kind = kind /\ result'[t].code = "none"
      /\ queue'[u] = Append(queue[u], [kind |-> sort, src |-> t, back |-> Nobody])
  BY <1>00
<1>1. Len(queue[u]) \in Nat
  BY QueueTypes DEF SendInv
<1>2. PICK n \in Nat : n = Len(queue[u]) + 1
  BY <1>1
<1>3. \A w, c \in SendThreads, i \in Nat :
        /\ Due(w, i, c)' <=> Due(w, i, c) \/ (w = u /\ c = t /\ i = n)
        /\ ~Due(w, i, t)
        /\ Due(w, i, c) /\ i # 0 => queue'[w][i] = queue[w][i]
  BY <1>2, AsksDue
<1>4. queue'[u][n].kind = sort
  <2>1. queue[u] \in Seq(Events)
    BY DEF SendInv, SendTypes
  <2> QED BY <1>0, <1>2, <2>1, AppendProperties
<1>5. \A c \in SendThreads : c # t => (Unanswered(c)' <=> Unanswered(c))
  BY <1>0 DEF Unanswered, Blocked
<1>6. Unanswered(t)'
  BY <1>0 DEF Unanswered, Blocked
<1>7. \A c \in SendThreads : DueOnce(c)'
  BY <1>3 DEF SendInv, DueOnce
<1>8. \A c \in SendThreads : DueWaits(c)'
  <2>1. SUFFICES ASSUME NEW c \in SendThreads, NEW w \in SendThreads, NEW i \in Nat, Due(w, i, c)'
                 PROVE  /\ Unanswered(c)' /\ result'[c].on = w
                        /\ i # 0 /\ queue'[w][i].kind = "channel" => result'[c].kind = "transfer"
    BY DEF DueWaits
  <2>2. CASE c = t
    BY <1>0, <1>3, <1>4, <1>6, <2>1, <2>2
  <2>3. CASE c # t
    <3>1. Due(w, i, c) /\ (i # 0 => queue'[w][i] = queue[w][i])
      BY <1>3, <2>1, <2>3
    <3> QED BY <1>0, <1>5, <2>3, <3>1 DEF SendInv, DueWaits
  <2> QED BY <2>2, <2>3
<1>9. \A c \in SendThreads : WaitsDue(c)'
  <2>1. WaitsDue(t)'
    BY <1>0, <1>3 DEF WaitsDue
  <2>2. ASSUME NEW c \in SendThreads, c # t PROVE WaitsDue(c)'
    <3>1. WaitsDue(c)
      BY DEF SendInv
    <3>2. result'[c] = result[c]
      BY <1>0, <2>2
    <3>3. \A w \in SendThreads : run[w].pc \in {"ending", "exit"} => run'[w].pc \in {"ending", "exit"}
      BY <1>0 DEF AsksFor
    <3> QED BY <1>3, <1>5, <2>2, <3>1, <3>2, <3>3 DEF WaitsDue
  <2> QED BY <2>1, <2>2
<1>10. \A w \in SendThreads : CurrentKept(run[w])'
  <2>1. CurrentKept(run'[t])
    BY <1>0, RunFacts DEF CurrentKept, AsksFor, Thr!Serving
  <2> QED BY <1>0, <2>1 DEF SendInv, CurrentKept
<1> QED BY <1>0, <1>7, <1>8, <1>9, <1>10 DEF SendInv

\* What a step does to the wait of c: it goes on, perhaps with its event moved
\* or removed from one place to another of the same thread; it is over; or it
\* has lost its event with the thread that had it.
\* w has an event of c.
Asked(w, c) == \E i \in Nat : Due(w, i, c)
Carried(c) ==
    /\ Blocked(c)' <=> Blocked(c)
    /\ result'[c] = result[c]
    /\ Unanswered(c) /\ run[result[c].on].pc \in {"ending", "exit"}
         => run'[result[c].on].pc \in {"ending", "exit"}
    /\ \A w \in SendThreads : Asked(w, c)' <=> Asked(w, c)
    /\ \A w \in SendThreads : Due(w, 0, c) => Due(w, 0, c)'
    /\ DueOnce(c)'
    /\ \A w \in SendThreads, i \in Nat :
         i # 0 /\ Due(w, i, c)' /\ queue'[w][i].kind = "channel" =>
            \E j \in Nat : j # 0 /\ Due(w, j, c) /\ queue[w][j].kind = "channel"
NoneDue(c) == \A w \in SendThreads, i \in Nat : ~Due(w, i, c)
Freed(c) == ~Unanswered(c)' /\ NoneDue(c)'
Lost(c) ==
    /\ Unanswered(c)' /\ NoneDue(c)'
    /\ result'[c].on \in SendThreads /\ run'[result'[c].on].pc \in {"ending", "exit"}

\* These three keep the invariant.
LEMMA WaitsKept ==
    ASSUME SendInv, SendTypes', \A u \in SendThreads : CurrentKept(run'[u]),
           \A c \in SendThreads : Carried(c) \/ Freed(c) \/ Lost(c)
    PROVE  SendInv'
<1> SUFFICES ASSUME NEW c \in SendThreads PROVE DueOnce(c)' /\ DueWaits(c)' /\ WaitsDue(c)'
  BY DEF SendInv, CurrentKept
<1>0. DueOnce(c) /\ DueWaits(c) /\ WaitsDue(c)
  BY DEF SendInv
<1>1. CASE Freed(c)
  BY <1>1 DEF Freed, NoneDue, DueOnce, DueWaits, WaitsDue
<1>2. CASE Lost(c)
  BY <1>2 DEF Lost, NoneDue, DueOnce, DueWaits, WaitsDue
<1>4. Carried(c) => (Unanswered(c)' <=> Unanswered(c))
  BY DEF Carried, Unanswered, Blocked
<1>3. CASE Carried(c)
  <2>1. DueWaits(c)'
    <3>1. SUFFICES ASSUME NEW w \in SendThreads, NEW i \in Nat, Due(w, i, c)'
                   PROVE  /\ Unanswered(c)' /\ result'[c].on = w
                          /\ i # 0 /\ queue'[w][i].kind = "channel" => result'[c].kind = "transfer"
      BY DEF DueWaits
    <3>2. Asked(w, c)'
      BY <3>1 DEF Asked
    <3>3. PICK j \in Nat : Due(w, j, c)
      BY <1>3, <3>2 DEF Carried, Asked
    <3>4. Unanswered(c)' /\ result'[c].on = w
      BY <1>0, <1>3, <1>4, <3>3 DEF DueWaits, Carried
    <3>5. ASSUME i # 0 /\ queue'[w][i].kind = "channel" PROVE result'[c].kind = "transfer"
      <4>1. PICK k \in Nat : k # 0 /\ Due(w, k, c) /\ queue[w][k].kind = "channel"
        BY <1>3, <3>1, <3>5 DEF Carried
      <4> QED BY <1>0, <1>3, <4>1 DEF DueWaits, Carried
    <3> QED BY <3>4, <3>5
  <2>2. WaitsDue(c)'
    <3>1. SUFFICES ASSUME Unanswered(c)'
                   PROVE  /\ result'[c].on \in SendThreads
                          /\ run'[result'[c].on].pc \in {"ending", "exit"} \/ Asked(result[c].on, c)'
      BY <1>3 DEF WaitsDue, Asked, Carried
    <3>2. /\ Unanswered(c) /\ result[c].on \in SendThreads
          /\ run[result[c].on].pc \in {"ending", "exit"} \/ Asked(result[c].on, c)
      BY <1>0, <1>3, <1>4, <3>1 DEF WaitsDue, Asked, Carried
    <3> QED BY <1>3, <3>2 DEF Carried
  <2> QED BY <1>3, <2>1, <2>2 DEF Carried
<1> QED BY <1>1, <1>2, <1>3

\* Where nothing of c's changes place.
LEMMA CarriedSame ==
    ASSUME SendInv, NEW c \in SendThreads, Blocked(c)' <=> Blocked(c),
           result'[c] = result[c],
           Unanswered(c) /\ run[result[c].on].pc \in {"ending", "exit"}
             => run'[result[c].on].pc \in {"ending", "exit"},
           \A w \in SendThreads, i \in Nat : Due(w, i, c)' <=> Due(w, i, c),
           \A w \in SendThreads, i \in Nat :
             Due(w, i, c) /\ i # 0 => queue'[w][i] = queue[w][i]
    PROVE  Carried(c)
<1>1. DueOnce(c)
  BY DEF SendInv
<1>2. DueOnce(c)'
  BY <1>1 DEF DueOnce
<1>3. \A w \in SendThreads : Asked(w, c)' <=> Asked(w, c)
  BY DEF Asked
<1> QED BY <1>2, <1>3 DEF Carried

LEMMA WakeInv ==
    ASSUME SendInv, NEW t \in SendThreads, Thr!Wake(t)
    PROVE  SendInv' /\ Freed(t) /\ \A c \in SendThreads : c # t => Carried(c)
<1>0. SendTypes /\ run[t] \in Runs
  BY DEF SendInv, SendTypes
<1>1. /\ run[t].pc = "blocked" /\ result[t].code # "none" /\ queue' = queue
      /\ listed' = listed /\ errorThread' = errorThread
      /\ result' = [result EXCEPT ![t] = Thr!NoResult]
      /\ run' = [run EXCEPT ![t].pc = run[t].ret]
  BY DEF Thr!Wake
<1>2. run[t].ret \in SendPcs /\ run[t].ret # "blocked" /\ t \in Someone /\ run[t].bad \in BOOLEAN
  BY <1>0, RunFacts DEF Returns, SendPcs, Someone, Runs
<1>3. Turned(t, run[t].ret, run[t].ret, run[t].cur)
  BY <1>0, <1>1, <1>2, RunFacts, TurnForms
<1>4. PICK r \in Runs : Turns(t, r) /\ r.pc = run[t].ret /\ r.cur = run[t].cur
  BY <1>3 DEF Turned
<1>5. /\ run' \in [SendThreads -> Runs] /\ run'[t] = r
      /\ \A w \in SendThreads : w # t => run'[w] = run[w]
  BY <1>0, <1>4, TurnsType
<1>6. Thr!NoResult \in Results
  BY DEF Thr!NoResult, Results, Someone, Waited, Codes
<1>7. /\ result' \in [SendThreads -> Results]
      /\ \A w \in SendThreads : w # t => result'[w] = result[w]
  BY <1>0, <1>1, <1>6 DEF SendTypes
<1>8. SendTypes'
  BY <1>0, <1>1, <1>5, <1>7 DEF SendTypes
<1>9. run[t].cur.src \in SendThreads => r.pc = "serving"
  BY <1>1, <1>4, RunFacts
<1>10. \A w \in SendThreads : CurrentKept(run'[w])
  <2>1. CurrentKept(r)
    BY <1>4, <1>9 DEF CurrentKept, Thr!Serving
  <2> QED BY <1>5, <2>1 DEF SendInv
<1>11. \A w, c \in SendThreads : Serves(run'[w], c) <=> Serves(run[w], c)
  <2>1. \A c \in SendThreads : Serves(r, c) <=> Serves(run[t], c)
    BY <1>1, <1>4, <1>9 DEF Serves, Thr!Serving
  <2> QED BY <1>5, <2>1
<1>12. \A w, c \in SendThreads, i \in Nat : Due(w, i, c)' <=> Due(w, i, c)
  BY <1>1, <1>11 DEF Due, Serves
<1>13. Freed(t)
  <2>1. ~Unanswered(t)'
    BY <1>2, <1>4, <1>5 DEF Unanswered, Blocked
  <2>2. NoneDue(t)
    BY <1>1 DEF SendInv, DueWaits, Unanswered, Blocked, NoneDue
  <2> QED BY <1>12, <2>1, <2>2 DEF Freed, NoneDue
<1>14. ASSUME NEW c \in SendThreads, c # t PROVE Carried(c)
  <2>1. Blocked(c)' <=> Blocked(c)
    BY <1>5, <1>7, <1>14 DEF Unanswered, Blocked
  <2>2. \A w \in SendThreads : run[w].pc \in {"ending", "exit"} => run'[w].pc \in {"ending", "exit"}
    BY <1>1, <1>5
  <2>3. Unanswered(c) => result[c].on \in SendThreads
    BY DEF SendInv, WaitsDue
  <2> QED BY <1>1, <1>7, <1>12, <1>14, <2>1, <2>2, <2>3, CarriedSame
<1>15. SendInv'
  BY <1>8, <1>10, <1>13, <1>14, WaitsKept
<1> QED BY <1>13, <1>14, <1>15

\* A step of one thread: the others' records stay.
LEMMA GoesTo ==
    ASSUME SendInv, NEW t \in SendThreads, NEW pc \in SendPcs, run' = [run EXCEPT ![t].pc = pc]
    PROVE  /\ run' \in [SendThreads -> Runs] /\ run'[t].pc = pc
           /\ run'[t].cur = run[t].cur /\ run'[t].ret = run[t].ret
           /\ \A w \in SendThreads : w # t => run'[w] = run[w]
<1>0. SendTypes /\ run[t] \in Runs
  BY DEF SendInv, SendTypes
<1>1. t \in Someone /\ run[t].bad \in BOOLEAN
  BY <1>0 DEF Runs, Someone
<1>2. Turned(t, pc, run[t].ret, run[t].cur)
  BY <1>0, <1>1, RunFacts, TurnForms
<1>3. PICK r \in Runs : Turns(t, r) /\ r.pc = pc /\ r.cur = run[t].cur /\ r.ret = run[t].ret
  BY <1>2 DEF Turned
<1> QED BY <1>0, <1>3, TurnsType

LEMMA WaitedFor ==
    ASSUME SendInv, NEW c \in SendThreads, Unanswered(c)
    PROVE  result[c].on \in SendThreads
BY DEF SendInv, WaitsDue

LEMMA ReportInv ==
    ASSUME SendInv, NEW t \in SendThreads, Thr!Report(t)
    PROVE  SendInv' /\ \A c \in SendThreads : IF c = run[t].cur.src THEN Freed(c) ELSE Carried(c)
<1>0. SendTypes /\ run[t] \in Runs
  BY DEF SendInv, SendTypes
<1>1. /\ run[t].pc = "report" /\ queue' = queue /\ listed' = listed /\ errorThread' = errorThread
      /\ result' = [result EXCEPT ![run[t].cur.src].code = "given"]
      /\ run' = [run EXCEPT ![t].pc = "check"]
  BY DEF Thr!Report
<1>2. "check" \in SendPcs
  BY DEF SendPcs
<1>3. /\ run' \in [SendThreads -> Runs] /\ run'[t].pc = "check" /\ run'[t].cur = run[t].cur
      /\ \A w \in SendThreads : w # t => run'[w] = run[w]
  BY <1>1, <1>2, GoesTo
<1>4. \A w \in SendThreads : result[w] \in Results /\ result'[w] =
         IF w = run[t].cur.src THEN [result[w] EXCEPT !.code = "given"] ELSE result[w]
  BY <1>0, <1>1 DEF SendTypes
<1>5. result' \in [SendThreads -> Results]
  <2>1. \A w \in SendThreads : result'[w] \in Results
    BY <1>4 DEF Results, Codes
  <2>2. DOMAIN result' = SendThreads /\ result' = [w \in SendThreads |-> result'[w]]
    BY <1>0, <1>1 DEF SendTypes
  <2> QED BY <2>1, <2>2
<1>6. SendTypes'
  BY <1>0, <1>1, <1>3, <1>5 DEF SendTypes
<1>7. \A w \in SendThreads : CurrentKept(run'[w])
  BY <1>3 DEF SendInv, CurrentKept
<1>8. \A w, c \in SendThreads : w # t => (Serves(run'[w], c) <=> Serves(run[w], c))
  BY <1>3
<1>9. \A c \in SendThreads : ~Serves(run'[t], c)
  BY <1>3 DEF Serves, Thr!Serving
<1>10. ASSUME NEW c \in SendThreads, c = run[t].cur.src PROVE Freed(c)
  <2>1. Due(t, 0, c)
    BY <1>1, <1>10 DEF Due, Serves, Thr!Serving
  <2>2. result'[c].code = "given"
    BY <1>4, <1>10 DEF Results
  <2>3. \A w \in SendThreads, i \in Nat : Due(w, i, c)' => Due(w, i, c)
    BY <1>1, <1>8, <1>9 DEF Due, Serves
  <2>4. \A w \in SendThreads, i \in Nat : Due(w, i, c) => w = t /\ i = 0
    <3>1. DueOnce(c) /\ DueWaits(c)
      BY DEF SendInv
    <3> QED BY <2>1, <3>1 DEF DueOnce, DueWaits
  <2>5. ~Due(t, 0, c)'
    BY <1>0, <1>1, <1>9, QueueTypes DEF Due, Serves
  <2>6. NoneDue(c)'
    BY <2>3, <2>4, <2>5 DEF NoneDue
  <2> QED BY <2>2, <2>6 DEF Freed, Unanswered, Blocked
<1>11. ASSUME NEW c \in SendThreads, c # run[t].cur.src PROVE Carried(c)
  <2>1. \A w \in SendThreads : Serves(run'[w], c) <=> Serves(run[w], c)
    BY <1>8, <1>9, <1>11 DEF Serves
  <2>2. \A w \in SendThreads, i \in Nat : Due(w, i, c)' <=> Due(w, i, c)
    BY <1>1, <2>1 DEF Due, Serves
  <2>3. result'[c] = result[c]
    BY <1>4, <1>11
  <2>4. Blocked(c)' <=> Blocked(c)
    BY <1>1, <1>3, <2>3 DEF Unanswered, Blocked
  <2>5. \A w \in SendThreads : run[w].pc \in {"ending", "exit"} => run'[w].pc \in {"ending", "exit"}
    BY <1>1, <1>3
  <2> QED BY <1>1, <2>2, <2>3, <2>4, <2>5, WaitedFor, CarriedSame
<1>12. SendInv'
  BY <1>6, <1>7, <1>10, <1>11, WaitsKept
<1> QED BY <1>10, <1>11, <1>12

\* A thread that leaves, by thread::exit or by its events being discarded.
LEMMA LeavesInv ==
    ASSUME SendInv, NEW t \in SendThreads, Thr!Exit(t) \/ Thr!Discard(t)
    PROVE  /\ SendInv'
           /\ \A c \in SendThreads : Carried(c)
                \/ (Lost(c) /\ result'[c] = result[c] /\ Unanswered(c) /\ Asked(t, c))
<1>0. SendTypes /\ run[t] \in Runs
  BY DEF SendInv, SendTypes
<1>1. PICK pc \in {"exit", "ending"} :
        /\ run' = [run EXCEPT ![t].pc = pc]
        /\ result' = result /\ listed' \subseteq listed /\ errorThread' = errorThread
        /\ \/ /\ pc = "exit" /\ run[t].pc \in {"script", "serving"} /\ queue' = queue
           \/ /\ run[t].pc = "discard" /\ queue' = [queue EXCEPT ![t] = <<>>] /\ pc = "ending"
  BY DEF Thr!Exit, Thr!Discard, Thr!Uses
<1>2. pc \in SendPcs
  BY DEF SendPcs
<1>3. /\ run' \in [SendThreads -> Runs] /\ run'[t].pc = pc /\ run'[t].cur = run[t].cur
      /\ \A w \in SendThreads : w # t => run'[w] = run[w]
  BY <1>1, <1>2, GoesTo
<1>4. /\ queue' \in [SendThreads -> Seq(Events)]
      /\ \A w \in SendThreads : w # t => queue'[w] = queue[w]
      /\ queue'[t] = queue[t] \/ queue'[t] = <<>>
  <2>1. <<>> \in Seq(Events)
    BY EmptySeq
  <2> QED BY <1>0, <1>1, <2>1 DEF SendTypes
<1>5. SendTypes'
  BY <1>0, <1>1, <1>3, <1>4 DEF SendTypes
<1>6. \A w \in SendThreads : CurrentKept(run'[w])
  <2>1. run[t].pc = "discard" => run[t].cur.src \notin SendThreads
    BY RunFacts DEF Thr!Serving
  <2>2. CurrentKept(run'[t])
    BY <1>1, <1>3, <2>1 DEF CurrentKept
  <2> QED BY <1>3, <2>2 DEF SendInv
<1>7. \A c \in SendThreads : ~Serves(run'[t], c)
  BY <1>3 DEF Serves, Thr!Serving
<1>8. \A w, c \in SendThreads, i \in Nat : w # t => (Due(w, i, c)' <=> Due(w, i, c))
  BY <1>3, <1>4 DEF Due, Serves
<1>9. \A c \in SendThreads, i \in Nat : Due(t, i, c)' => Due(t, i, c) /\ i # 0 /\ queue'[t] = queue[t]
  <2>1. SUFFICES ASSUME NEW c \in SendThreads, NEW i \in Nat, Due(t, i, c)'
                 PROVE  Due(t, i, c) /\ i # 0 /\ queue'[t] = queue[t]
    OBVIOUS
  <2>2. i \in DOMAIN queue'[t] /\ queue'[t][i].src = c
    BY <1>7, <2>1 DEF Due, Serves
  <2>3. queue'[t] # <<>>
    BY <2>2
  <2>4. queue'[t] = queue[t]
    BY <1>4, <2>3
  <2> QED BY <1>0, <2>2, <2>4, QueueTypes DEF Due
<1>10. \A c \in SendThreads : Blocked(c)' <=> Blocked(c)
  BY <1>1, <1>3 DEF Unanswered, Blocked
<1>11. \A w \in SendThreads : run[w].pc \in {"ending", "exit"} => run'[w].pc \in {"ending", "exit"}
  BY <1>1, <1>3
<1>12. ASSUME NEW c \in SendThreads, Asked(t, c), ~Asked(t, c)'
       PROVE  Lost(c) /\ Unanswered(c)
  <2>1. PICK i \in Nat : Due(t, i, c)
    BY <1>12 DEF Asked
  <2>2. Unanswered(c) /\ result[c].on = t
    BY <2>1 DEF SendInv, DueWaits
  <2>3. NoneDue(c)'
    <3>1. SUFFICES ASSUME NEW w \in SendThreads, NEW j \in Nat, Due(w, j, c)' PROVE FALSE
      BY DEF NoneDue
    <3>2. w # t
      BY <1>12, <3>1 DEF Asked
    <3>3. Due(w, j, c)
      BY <1>8, <3>1, <3>2
    <3> QED BY <2>2, <3>2, <3>3 DEF SendInv, DueWaits
  <2> QED BY <1>1, <1>3, <1>10, <2>2, <2>3 DEF Lost, Unanswered
<1>13. ASSUME NEW c \in SendThreads, Asked(t, c) => Asked(t, c)'
       PROVE  Carried(c)
  <2>1. \A w \in SendThreads : Asked(w, c)' <=> Asked(w, c)
    BY <1>8, <1>9, <1>13 DEF Asked
  <2>2. \A w \in SendThreads, i \in Nat : Due(w, i, c)' => Due(w, i, c) /\ queue'[w] = queue[w]
    BY <1>4, <1>8, <1>9
  <2>3. DueOnce(c)'
    BY <2>2 DEF SendInv, DueOnce
  <2>4. \A w \in SendThreads : Due(w, 0, c) => Due(w, 0, c)'
    <3>1. SUFFICES ASSUME Due(t, 0, c), ~Due(t, 0, c)' PROVE FALSE
      BY <1>8
    <3>2. PICK i \in Nat : Due(t, i, c)'
      BY <1>13, <3>1 DEF Asked
    <3>3. Due(t, i, c) /\ i # 0
      BY <1>9, <3>2
    <3> QED BY <3>1, <3>3 DEF SendInv, DueOnce
  <2> QED BY <1>1, <1>10, <1>11, <2>1, <2>2, <2>3, <2>4, WaitedFor DEF Carried
<1>14. \A c \in SendThreads : Carried(c)
                \/ (Lost(c) /\ result'[c] = result[c] /\ Unanswered(c) /\ Asked(t, c))
  BY <1>1, <1>12, <1>13
<1>15. SendInv'
  BY <1>5, <1>6, <1>14, WaitsKept
<1> QED BY <1>14, <1>15

\* The end of a thread frees all who wait for it.
LEMMA ExitProcInv ==
    ASSUME SendInv, NEW t \in SendThreads, Thr!ExitProc(t)
    PROVE  /\ SendInv'
           /\ \A c \in SendThreads : IF result[c].on = t THEN Freed(c) ELSE Carried(c)
<1>0. SendTypes /\ run[t] \in Runs
  BY DEF SendInv, SendTypes
<1>1. /\ run[t].pc = "exit" /\ listed' \subseteq listed /\ errorThread' = errorThread
      /\ queue' = [queue EXCEPT ![t] = <<>>]
      /\ result' = Thr!Tell(t)
      /\ run' = [run EXCEPT ![t].pc = "dead", ![t].cur = Thr!NoEvent]
  BY DEF Thr!ExitProc
<1>2. PICK r : r = [run[t] EXCEPT !.pc = "dead", !.cur = Thr!NoEvent]
  OBVIOUS
<1>3. Thr!NoEvent \in Events /\ Thr!NoEvent.src = Nobody
  BY DEF Thr!NoEvent, Events, Kinds, Someone
<1>4. r \in Runs /\ r.pc = "dead" /\ r.cur = Thr!NoEvent
  BY <1>0, <1>2, <1>3 DEF Runs, SendPcs
<1>5. Turns(t, r)
  BY <1>0, <1>1, <1>2 DEF Turns, Runs
<1>6. /\ run' \in [SendThreads -> Runs] /\ run'[t] = r
      /\ \A w \in SendThreads : w # t => run'[w] = run[w]
  BY <1>0, <1>4, <1>5, TurnsType
<1>7. /\ queue' \in [SendThreads -> Seq(Events)]
      /\ \A w \in SendThreads : w # t => queue'[w] = queue[w]
      /\ queue'[t] = <<>>
  <2>1. <<>> \in Seq(Events)
    BY EmptySeq
  <2> QED BY <1>0, <1>1, <2>1 DEF SendTypes
<1>8. \A w \in SendThreads : result[w] \in Results /\ result'[w] =
         IF result[w].on = t THEN [result[w] EXCEPT !.code = "died"] ELSE result[w]
  BY <1>0, <1>1 DEF SendTypes, Thr!Tell
<1>9. result' \in [SendThreads -> Results]
  <2>1. \A w \in SendThreads : result'[w] \in Results
    BY <1>8 DEF Results, Codes
  <2>2. result' = [w \in SendThreads |-> result'[w]]
    BY <1>1 DEF Thr!Tell
  <2> QED BY <2>1, <2>2
<1>10. SendTypes'
  BY <1>0, <1>1, <1>6, <1>7, <1>9 DEF SendTypes
<1>11. \A w \in SendThreads : CurrentKept(run'[w])
  <2>1. CurrentKept(r)
    BY <1>3, <1>4, NobodySends DEF CurrentKept
  <2> QED BY <1>6, <2>1 DEF SendInv
<1>12. \A c \in SendThreads, i \in Nat : ~Due(t, i, c)'
  <2>1. \A c \in SendThreads : ~Serves(run'[t], c)
    BY <1>4, <1>6 DEF Serves, Thr!Serving
  <2> QED BY <1>7, <2>1 DEF Due, Serves
<1>13. \A w, c \in SendThreads, i \in Nat : w # t => (Due(w, i, c)' <=> Due(w, i, c))
  BY <1>6, <1>7 DEF Due, Serves
<1>14. ASSUME NEW c \in SendThreads, result[c].on = t PROVE Freed(c)
  <2>1. result'[c].code = "died"
    BY <1>8, <1>14 DEF Results
  <2>2. \A w \in SendThreads, i \in Nat : Due(w, i, c) => w = t
    BY <1>14 DEF SendInv, DueWaits
  <2>3. NoneDue(c)'
    BY <1>12, <1>13, <2>2 DEF NoneDue
  <2> QED BY <2>1, <2>3 DEF Freed, Unanswered, Blocked
<1>15. ASSUME NEW c \in SendThreads, result[c].on # t PROVE Carried(c)
  <2>1. result'[c] = result[c]
    BY <1>8, <1>15
  <2>2. Blocked(c)' <=> Blocked(c)
    BY <1>1, <1>4, <1>6, <2>1 DEF Unanswered, Blocked
  <2>3. \A i \in Nat : ~Due(t, i, c)
    BY <1>15 DEF SendInv, DueWaits
  <2>4. \A w \in SendThreads, i \in Nat : Due(w, i, c)' <=> Due(w, i, c)
    BY <1>12, <1>13, <2>3
  <2>5. \A w \in SendThreads, i \in Nat : Due(w, i, c) /\ i # 0 => queue'[w][i] = queue[w][i]
    BY <1>7, <2>3
  <2>6. Unanswered(c) /\ run[result[c].on].pc \in {"ending", "exit"}
             => run'[result[c].on].pc \in {"ending", "exit"}
    BY <1>6, <1>15, WaitedFor
  <2> QED BY <2>1, <2>2, <2>4, <2>5, <2>6, CarriedSame
<1>16. SendInv'
  BY <1>10, <1>11, <1>14, <1>15, WaitsKept
<1> QED BY <1>14, <1>15, <1>16

\* A sequence without its element at i: where the others are.
LEMMA RemovedAt ==
    ASSUME NEW S, NEW s \in Seq(S), NEW i \in 1 .. Len(s)
    PROVE  /\ Thr!RemoveAt(s, i) \in Seq(S)
           /\ Len(Thr!RemoveAt(s, i)) = Len(s) - 1
           /\ \A j \in 1 .. Len(s) - 1 : Thr!RemoveAt(s, i)[j] = IF j < i THEN s[j] ELSE s[j+1]
<1> DEFINE a == SubSeq(s, 1, i-1)
           b == SubSeq(s, i+1, Len(s))
<1>1. a \in Seq(S) /\ Len(a) = i-1 /\ \A j \in 1..i-1 : a[j] = s[j]
  OBVIOUS
<1>2. b \in Seq(S) /\ Len(b) = Len(s) - i /\ \A j \in 1..Len(s) - i : b[j] = s[i+j]
  OBVIOUS
<1>3. Thr!RemoveAt(s, i) = a \o b
  BY DEF Thr!RemoveAt
<1> HIDE DEF a, b
<1>4. Len(s) \in Nat /\ i \in Nat
  OBVIOUS
<1>5. Thr!RemoveAt(s, i) \in Seq(S) /\ Len(Thr!RemoveAt(s, i)) = Len(s) - 1
  BY <1>1, <1>2, <1>3, <1>4
<1>6. ASSUME NEW j \in 1..Len(s) - 1
      PROVE  Thr!RemoveAt(s, i)[j] = IF j < i THEN s[j] ELSE s[j+1]
  <2>1. CASE j < i
    BY <1>1, <1>2, <1>3, <1>4, <2>1
  <2>2. CASE j >= i
    <3>1. (a \o b)[j] = b[j - (i - 1)]
      BY <1>1, <1>2, <1>4, <2>2
    <3>2. j - (i-1) \in 1..Len(s) - i
      BY <1>4, <2>2
    <3>3. b[j - (i - 1)] = s[i + (j - (i-1))]
      BY <1>2, <3>2
    <3>4. i + (j - (i-1)) = j + 1
      BY <1>4
    <3> QED BY <1>3, <1>4, <2>2, <3>1, <3>3, <3>4
  <2> QED BY <1>4, <2>1, <2>2
<1> QED BY <1>5, <1>6

\* The events that stay in t's queue, and their places before and after.
LEMMA TakeSteps ==
    ASSUME SendInv, NEW t \in SendThreads, NEW i \in DOMAIN queue[t], Thr!Take(t, i)
    PROVE  /\ queue' \in [SendThreads -> Seq(Events)]
           /\ \A w \in SendThreads : w # t => queue'[w] = queue[w]
           /\ \E Old \in [DOMAIN queue'[t] -> DOMAIN queue[t] \ {i}] :
                /\ \A k \in DOMAIN queue'[t] : k \in Nat \ {0} /\ queue'[t][k] = queue[t][Old[k]]
                /\ \A k, m \in DOMAIN queue'[t] : Old[k] = Old[m] => k = m
                /\ \A j \in DOMAIN queue[t] \ {i} : \E k \in DOMAIN queue'[t] : Old[k] = j
<1>0. SendTypes /\ queue \in [SendThreads -> Seq(Events)]
  BY DEF SendInv, SendTypes
<1>1. PICK n \in Nat : n = Len(queue[t]) /\ DOMAIN queue[t] = 1 .. n
  BY <1>0, QueueTypes
<1>2. i \in 1 .. n /\ i \in Nat
  BY <1>1
<1>3. /\ Thr!RemoveAt(queue[t], i) \in Seq(Events)
      /\ Len(Thr!RemoveAt(queue[t], i)) = n - 1
      /\ \A j \in 1 .. n - 1 : Thr!RemoveAt(queue[t], i)[j] =
                                   IF j < i THEN queue[t][j] ELSE queue[t][j+1]
  BY <1>0, <1>1, <1>2, RemovedAt
<1>4. queue' = [queue EXCEPT ![t] = Thr!RemoveAt(queue[t], i)]
  BY DEF Thr!Take
<1>5. queue'[t] = Thr!RemoveAt(queue[t], i)
  BY <1>0, <1>4
<1>6. /\ queue' \in [SendThreads -> Seq(Events)]
      /\ \A w \in SendThreads : w # t => queue'[w] = queue[w]
  BY <1>0, <1>3, <1>4
<1>7. DOMAIN queue'[t] = 1 .. n - 1
  BY <1>3, <1>5, LenProperties
<1>8. PICK Old : Old = [k \in DOMAIN queue'[t] |-> IF k < i THEN k ELSE k + 1]
  OBVIOUS
<1>9. Old \in [DOMAIN queue'[t] -> DOMAIN queue[t] \ {i}]
  BY <1>1, <1>2, <1>7, <1>8
<1>10. \A k \in DOMAIN queue'[t] : k \in Nat \ {0} /\ queue'[t][k] = queue[t][Old[k]]
  BY <1>1, <1>2, <1>3, <1>5, <1>7, <1>8
<1>11. \A k, m \in DOMAIN queue'[t] : Old[k] = Old[m] => k = m
  BY <1>1, <1>2, <1>7, <1>8
<1>12. ASSUME NEW j \in DOMAIN queue[t] \ {i} PROVE \E k \in DOMAIN queue'[t] : Old[k] = j
  <2>1. PICK k : k = IF j < i THEN j ELSE j - 1
    OBVIOUS
  <2>2. k \in DOMAIN queue'[t] /\ Old[k] = j
    BY <1>1, <1>2, <1>7, <1>8, <1>12, <2>1
  <2> QED BY <2>2
<1> QED BY <1>6, <1>9, <1>10, <1>11, <1>12

\* Who was not the sender of the event that was taken.
LEMMA TakenOthers ==
    ASSUME SendInv, NEW t \in SendThreads, run[t].pc = "event", NEW i \in DOMAIN queue[t],
           Thr!Take(t, i), NEW c \in SendThreads, c # queue[t][i].src,
           ~Serves(run'[t], c), \A w \in SendThreads : w # t => run'[w] = run[w],
           result'[c] = result[c], Blocked(c)' <=> Blocked(c)
    PROVE  Carried(c)
<1>0. SendTypes /\ DueOnce(c)
  BY DEF SendInv
<1>1. \A w \in SendThreads : w # t => queue'[w] = queue[w]
  BY TakeSteps
<1>2. PICK Old \in [DOMAIN queue'[t] -> DOMAIN queue[t] \ {i}] :
                /\ \A k \in DOMAIN queue'[t] : k \in Nat \ {0} /\ queue'[t][k] = queue[t][Old[k]]
                /\ \A k, m \in DOMAIN queue'[t] : Old[k] = Old[m] => k = m
                /\ \A j \in DOMAIN queue[t] \ {i} : \E k \in DOMAIN queue'[t] : Old[k] = j
  BY ZenonT(60), TakeSteps
<1>3. \A j \in DOMAIN queue[t] : j \in Nat \ {0}
  BY <1>0, QueueTypes
<1>4. ~Serves(run[t], c)
  BY DEF Serves, Thr!Serving
<1>5. \A w \in SendThreads, k \in Nat : w # t => (Due(w, k, c)' <=> Due(w, k, c))
  BY <1>1 DEF Due, Serves
<1>6. \A k \in Nat : Due(t, k, c)' <=> k \in DOMAIN queue'[t] /\ queue'[t][k].src = c
  BY DEF Due, Serves
<1>7. \A j \in Nat : Due(t, j, c) <=> j \in DOMAIN queue[t] /\ queue[t][j].src = c
  BY <1>4 DEF Due
<1>8. \A k \in Nat : Due(t, k, c)' =>
        /\ k \in DOMAIN queue'[t] /\ Old[k] \in Nat \ {0} /\ Due(t, Old[k], c)
        /\ queue'[t][k] = queue[t][Old[k]]
  <2>1. SUFFICES ASSUME NEW k \in Nat, Due(t, k, c)'
                 PROVE  /\ k \in DOMAIN queue'[t] /\ Old[k] \in Nat \ {0} /\ Due(t, Old[k], c)
                        /\ queue'[t][k] = queue[t][Old[k]]
    OBVIOUS
  <2>2. k \in DOMAIN queue'[t] /\ queue'[t][k].src = c
    BY <1>6, <2>1
  <2>3. Old[k] \in DOMAIN queue[t] /\ queue'[t][k] = queue[t][Old[k]]
    BY <1>2, <2>2
  <2>4. Old[k] \in Nat \ {0}
    BY <1>3, <2>3
  <2> QED BY <1>7, <2>2, <2>3, <2>4
<1>9. Asked(t, c)' <=> Asked(t, c)
  <2>1. ASSUME NEW j \in Nat, Due(t, j, c) PROVE \E k \in Nat : Due(t, k, c)'
    <3>1. j \in DOMAIN queue[t] \ {i} /\ queue[t][j].src = c
      BY <1>7, <2>1
    <3>2. PICK k \in DOMAIN queue'[t] : Old[k] = j
      BY <1>2, <3>1
    <3>3. k \in Nat /\ queue'[t][k].src = c
      BY <1>2, <3>1, <3>2
    <3> QED BY <1>6, <3>2, <3>3
  <2> QED BY <1>8, <2>1 DEF Asked
<1>10. \A w \in SendThreads : Asked(w, c)' <=> Asked(w, c)
  BY <1>5, <1>9 DEF Asked
<1>11. DueOnce(c)'
  <2>1. SUFFICES ASSUME NEW w \in SendThreads, NEW k \in Nat, NEW m \in Nat,
                        Due(w, k, c)', Due(w, m, c)'
                 PROVE  k = m
    BY DEF DueOnce
  <2>2. CASE w = t
    <3>1. k \in DOMAIN queue'[t] /\ m \in DOMAIN queue'[t] /\ Old[k] \in Nat /\ Old[m] \in Nat
          /\ Due(t, Old[k], c) /\ Due(t, Old[m], c)
      BY <1>8, <2>1, <2>2
    <3>2. Old[k] = Old[m]
      BY <1>0, <3>1 DEF DueOnce
    <3> QED BY <1>2, <3>1, <3>2
  <2>3. CASE w # t
    BY <1>0, <1>5, <2>1, <2>3 DEF DueOnce
  <2> QED BY <2>2, <2>3
<1>12. \A w \in SendThreads, k \in Nat :
         k # 0 /\ Due(w, k, c)' /\ queue'[w][k].kind = "channel" =>
            \E j \in Nat : j # 0 /\ Due(w, j, c) /\ queue[w][j].kind = "channel"
  <2>1. SUFFICES ASSUME NEW w \in SendThreads, NEW k \in Nat,
                        k # 0, Due(w, k, c)', queue'[w][k].kind = "channel"
                 PROVE  \E j \in Nat : j # 0 /\ Due(w, j, c) /\ queue[w][j].kind = "channel"
    OBVIOUS
  <2>2. CASE w = t
    BY <1>8, <2>1, <2>2
  <2>3. CASE w # t
    BY <1>1, <1>5, <2>1, <2>3
  <2> QED BY <2>2, <2>3
<1>13. Unanswered(c) /\ run[result[c].on].pc \in {"ending", "exit"}
         => run'[result[c].on].pc \in {"ending", "exit"}
  <2>1. \A w \in SendThreads : run[w].pc \in {"ending", "exit"} => run'[w].pc \in {"ending", "exit"}
    OBVIOUS
  <2> QED BY <2>1, WaitedFor
<1>14. \A w \in SendThreads : Due(w, 0, c) => Due(w, 0, c)'
  BY <1>3, <1>5, <1>7
<1> QED BY <1>10, <1>11, <1>12, <1>13, <1>14 DEF Carried

\* Who was.
LEMMA TakenSender ==
    ASSUME SendInv, NEW t \in SendThreads, run[t].pc = "event", NEW i \in DOMAIN queue[t],
           Thr!Take(t, i), NEW c \in SendThreads, c = queue[t][i].src,
           \A w \in SendThreads : w # t => run'[w] = run[w]
    PROVE  /\ Due(t, i, c) /\ i \in Nat \ {0} /\ c # t
           /\ \A w \in SendThreads, k \in Nat : Due(w, k, c) => w = t /\ k = i
           /\ \A w \in SendThreads, k \in Nat : Due(w, k, c)' => w = t /\ k = 0
<1>0. SendTypes /\ DueOnce(c) /\ DueWaits(c)
  BY DEF SendInv
<1>1. \A w \in SendThreads : w # t => queue'[w] = queue[w]
  BY TakeSteps
<1>2. PICK Old \in [DOMAIN queue'[t] -> DOMAIN queue[t] \ {i}] :
        \A k \in DOMAIN queue'[t] : k \in Nat \ {0} /\ queue'[t][k] = queue[t][Old[k]]
  BY TakeSteps
<1>3. \A j \in DOMAIN queue[t] : j \in Nat \ {0}
  BY <1>0, QueueTypes
<1>4. Due(t, i, c) /\ i \in Nat \ {0}
  BY <1>3 DEF Due
<1>5. \A w \in SendThreads, k \in Nat : Due(w, k, c) => w = t /\ k = i
  BY <1>0, <1>4 DEF DueOnce, DueWaits
<1>6. ASSUME NEW w \in SendThreads, NEW k \in Nat, Due(w, k, c)' PROVE w = t /\ k = 0
  <2>1. CASE w # t
    <3>1. Due(w, k, c)
      BY <1>1, <1>6, <2>1 DEF Due, Serves
    <3> QED BY <1>5, <2>1, <3>1
  <2>2. CASE w = t /\ k # 0
    <3>1. k \in DOMAIN queue'[t] /\ queue'[t][k].src = c
      BY <1>6, <2>2 DEF Due
    <3>2. Old[k] \in DOMAIN queue[t] /\ Old[k] # i /\ queue[t][Old[k]].src = c
      BY <1>2, <3>1
    <3>3. Old[k] \in Nat
      BY <1>3, <3>2
    <3>4. Due(t, Old[k], c)
      BY <3>2 DEF Due
    <3> QED BY <1>5, <3>2, <3>3, <3>4
  <2> QED BY <2>1, <2>2
<1>7. c # t
  BY <1>0, <1>4 DEF DueWaits, Unanswered, Blocked
<1> QED BY <1>4, <1>5, <1>6, <1>7

\* An event that is served moves from the queue to the thread.
LEMMA ServeInv ==
    ASSUME SendInv, NEW t \in SendThreads, Thr!Serve(t)
    PROVE  SendInv' /\ \A c \in SendThreads : Carried(c)
<1>0. SendTypes /\ run[t] \in Runs
  BY DEF SendInv, SendTypes
<1>1. PICK i \in Thr!NextEvent(t) :
        /\ Thr!Take(t, i)
        /\ run' = [run EXCEPT ![t].cur = queue[t][i], ![t].pc =
                     IF queue[t][i].kind # "wake" THEN "serving"
                     ELSE IF queue[t][i].src # Nobody THEN "report" ELSE "check"]
  BY DEF Thr!Serve
<1>2. /\ run[t].pc = "event" /\ result' = result /\ listed' = listed
      /\ errorThread' = errorThread
  BY DEF Thr!Serve
<1>3. i \in DOMAIN queue[t]
  BY DEF Thr!NextEvent
<1>4. PICK e : e = queue[t][i]
  OBVIOUS
<1>5. e \in Events /\ e.src \in Someone
  <2>1. queue[t] \in Seq(Events) /\ i \in 1 .. Len(queue[t])
    BY <1>0, <1>3, QueueTypes
  <2>2. queue[t][i] \in Events
    BY <2>1, ElementOfSeq
  <2> QED BY <1>4, <2>2 DEF Events
<1>6. PICK pc \in {"serving", "report", "check"} :
        /\ run' = [run EXCEPT ![t].cur = e, ![t].pc = pc]
        /\ e.src # Nobody => pc \in {"serving", "report"}
  BY <1>1, <1>4
<1>7. pc \in SendPcs /\ t \in Someone /\ run[t].bad \in BOOLEAN
  BY <1>0 DEF SendPcs, Someone, Runs
<1>8. Turned(t, pc, run[t].ret, e)
  BY <1>0, <1>5, <1>6, <1>7, RunFacts, TurnForms
<1>9. PICK r \in Runs : Turns(t, r) /\ r.pc = pc /\ r.cur = e
  BY <1>8 DEF Turned
<1>10. /\ run' \in [SendThreads -> Runs] /\ run'[t] = r
       /\ \A w \in SendThreads : w # t => run'[w] = run[w]
  BY <1>0, <1>9, TurnsType
<1>11. queue' \in [SendThreads -> Seq(Events)]
  BY <1>1, <1>2, <1>3, TakeSteps
<1>12. SendTypes'
  BY <1>0, <1>2, <1>10, <1>11 DEF SendTypes
<1>13. \A w \in SendThreads : CurrentKept(run'[w])
  <2>1. CurrentKept(r)
    BY <1>6, <1>9, NobodySends DEF CurrentKept, Thr!Serving
  <2> QED BY <1>10, <2>1 DEF SendInv
<1>14. \A c \in SendThreads : Serves(run'[t], c) <=> c = e.src
  BY <1>6, <1>9, <1>10, NobodySends DEF Serves, Thr!Serving
<1>15. \A c \in SendThreads : Blocked(c)' <=> Blocked(c)
  BY <1>2, <1>6, <1>9, <1>10 DEF Unanswered, Blocked
<1>16. ASSUME NEW c \in SendThreads PROVE Carried(c)
  <2>1. CASE c # e.src
    BY <1>1, <1>2, <1>3, <1>4, <1>10, <1>14, <1>15, <2>1, TakenOthers
  <2>2. CASE c = e.src
    <3>1. /\ Due(t, i, c) /\ i \in Nat
          /\ \A w \in SendThreads, k \in Nat : Due(w, k, c) => w = t /\ k = i
          /\ \A w \in SendThreads, k \in Nat : Due(w, k, c)' => w = t /\ k = 0
      BY <1>1, <1>2, <1>3, <1>4, <1>10, <2>2, TakenSender
    <3>2. Due(t, 0, c)'
      BY <1>14, <2>2 DEF Due, Serves
    <3>3. \A w \in SendThreads : Asked(w, c)' <=> Asked(w, c)
      BY <3>1, <3>2 DEF Asked
    <3>4. DueOnce(c)'
      BY <3>1 DEF DueOnce
    <3>5. \A w \in SendThreads : run[w].pc \in {"ending", "exit"} => run'[w].pc \in {"ending", "exit"}
      BY <1>2, <1>10
    <3>6. \A w \in SendThreads : ~Due(w, 0, c)
      BY <3>1, <1>0, <1>3, QueueTypes
    <3> QED BY <1>2, <1>15, <3>1, <3>3, <3>4, <3>5, <3>6, WaitedFor DEF Carried
  <2> QED BY <2>1, <2>2
<1>17. SendInv'
  BY <1>12, <1>13, <1>16, WaitsKept
<1> QED BY <1>16, <1>17

\* A channel that arrives answers its sender at once.
LEMMA ServeChannelInv ==
    ASSUME SendInv, NEW t \in SendThreads, Thr!ServeChannel(t)
    PROVE  /\ SendInv'
           /\ \E i \in DOMAIN queue[t] : queue[t][i].kind = "channel" /\ i \in Nat \ {0}
                /\ \A c \in SendThreads :
                     IF c = queue[t][i].src THEN Freed(c) /\ Due(t, i, c) ELSE Carried(c)
<1>0. SendTypes /\ run[t] \in Runs
  BY DEF SendInv, SendTypes
<1>1. PICK i \in Thr!NextEvent(t) :
        /\ queue[t][i].kind = "channel"
        /\ Thr!Take(t, i)
        /\ result' = [result EXCEPT ![queue[t][i].src].code = "given"]
        /\ run' = [run EXCEPT ![t].pc = "check"]
  BY DEF Thr!ServeChannel
<1>2. run[t].pc = "event" /\ listed' = listed /\ errorThread' = errorThread
  BY DEF Thr!ServeChannel
<1>3. i \in DOMAIN queue[t]
  BY DEF Thr!NextEvent
<1>4. PICK src : src = queue[t][i].src
  OBVIOUS
<1>5. "check" \in SendPcs
  BY DEF SendPcs
<1>6. /\ run' \in [SendThreads -> Runs] /\ run'[t].pc = "check" /\ run'[t].cur = run[t].cur
      /\ \A w \in SendThreads : w # t => run'[w] = run[w]
  BY <1>1, <1>5, GoesTo
<1>7. queue' \in [SendThreads -> Seq(Events)]
  BY <1>1, <1>2, <1>3, TakeSteps
<1>8. \A w \in SendThreads : result[w] \in Results /\ result'[w] =
         IF w = src THEN [result[w] EXCEPT !.code = "given"] ELSE result[w]
  BY <1>0, <1>1, <1>4 DEF SendTypes
<1>9. result' \in [SendThreads -> Results]
  <2>1. \A w \in SendThreads : result'[w] \in Results
    BY <1>8 DEF Results, Codes
  <2>2. result' = [w \in SendThreads |-> result'[w]]
    BY <1>0, <1>1 DEF SendTypes
  <2> QED BY <2>1, <2>2
<1>10. SendTypes'
  BY <1>0, <1>2, <1>6, <1>7, <1>9 DEF SendTypes
<1>11. \A w \in SendThreads : CurrentKept(run'[w])
  BY <1>6 DEF SendInv, CurrentKept
<1>12. \A c \in SendThreads : ~Serves(run'[t], c)
  BY <1>6 DEF Serves, Thr!Serving
<1>13. ASSUME NEW c \in SendThreads, c = src PROVE Freed(c) /\ Due(t, i, c)
  <2>1. /\ Due(t, i, c)
        /\ \A w \in SendThreads, k \in Nat : Due(w, k, c)' => w = t /\ k = 0
    BY <1>1, <1>2, <1>3, <1>4, <1>6, <1>13, TakenSender
  <2>2. ~Due(t, 0, c)'
    <3>1. 0 \notin DOMAIN queue'[t]
      BY <1>1, <1>3, TakeSteps
    <3> QED BY <1>12, <3>1 DEF Due, Serves
  <2>3. result'[c].code = "given"
    BY <1>8, <1>13 DEF Results
  <2> QED BY <2>1, <2>2, <2>3 DEF Freed, NoneDue, Unanswered, Blocked
<1>14. ASSUME NEW c \in SendThreads, c # src PROVE Carried(c)
  <2>1. result'[c] = result[c]
    BY <1>8, <1>14
  <2>2. Blocked(c)' <=> Blocked(c)
    BY <1>2, <1>6, <2>1 DEF Unanswered, Blocked
  <2> QED BY <1>1, <1>2, <1>3, <1>4, <1>6, <1>12, <1>14, <2>1, <2>2, TakenOthers
<1>15. SendInv'
  BY <1>10, <1>11, <1>13, <1>14, WaitsKept
<1>16. i \in Nat \ {0}
  BY <1>0, <1>3, QueueTypes
<1> QED BY <1>1, <1>3, <1>4, <1>13, <1>14, <1>15, <1>16

-----------------------------------------------------------------------------
(* All steps *)

LEMMA SendInit ==
    ASSUME Thr!Init
    PROVE  SendInv
<1>1. /\ listed \subseteq SendThreads /\ errorThread \in Someone
  <2>1. plan \in SendPlans /\ listed = plan.born /\ errorThread = Nobody
    BY DEF Thr!Init
  <2> QED BY <2>1, ThreadAssumption DEF Thr!ThreadAssumption, Someone
<1>2. /\ queue = [t \in SendThreads |-> <<>>]
      /\ result = [t \in SendThreads |-> Thr!NoResult]
      /\ DOMAIN run = SendThreads /\ run = [t \in SendThreads |-> run[t]]
      /\ \A t \in SendThreads : \E pc \in {"script", "unborn"} : run[t] =
            [pc |-> pc, ret |-> "script", cur |-> Thr!NoEvent, bad |-> FALSE, on |-> Nobody,
             todo |-> {}]
  BY DEF Thr!Init
<1>3. Thr!NoEvent \in Events /\ Thr!NoEvent.src = Nobody /\ Thr!NoResult \in Results
  BY DEF Thr!NoEvent, Thr!NoResult, Events, Results, Kinds, Waited, Codes, Someone
<1>4. \A t \in SendThreads : run[t] \in Runs /\ run[t].cur = Thr!NoEvent
                             /\ run[t].pc \in {"script", "unborn"}
  <2> SUFFICES ASSUME NEW t \in SendThreads
               PROVE  run[t] \in Runs /\ run[t].cur = Thr!NoEvent /\ run[t].pc \in {"script", "unborn"}
    OBVIOUS
  <2>1. PICK pc \in {"script", "unborn"} : run[t] =
            [pc |-> pc, ret |-> "script", cur |-> Thr!NoEvent, bad |-> FALSE, on |-> Nobody,
             todo |-> {}]
    BY <1>2
  <2>2. pc \in SendPcs /\ "script" \in Returns /\ Nobody \in Someone
    BY DEF SendPcs, Returns, Someone
  <2> QED BY <1>3, <2>1, <2>2 DEF Runs
<1>5. SendTypes
  <2>1. <<>> \in Seq(Events)
    BY EmptySeq
  <2>2. queue \in [SendThreads -> Seq(Events)]
    BY <1>2, <2>1
  <2>3. result \in [SendThreads -> Results]
    BY <1>2, <1>3
  <2>4. run \in [SendThreads -> Runs]
    BY <1>2, <1>4
  <2> QED BY <1>1, <2>2, <2>3, <2>4 DEF SendTypes
<1>6. \A u, c \in SendThreads, i \in Nat : ~Due(u, i, c)
  BY <1>2, <1>4 DEF Due, Serves, Thr!Serving
<1>7. \A c \in SendThreads : ~Unanswered(c)
  BY <1>4 DEF Unanswered, Blocked
<1>8. \A u \in SendThreads : CurrentKept(run[u])
  BY <1>3, <1>4, NobodySends DEF CurrentKept
<1> QED BY <1>5, <1>6, <1>7, <1>8 DEF SendInv, DueOnce, DueWaits, WaitsDue

\* Each command either leaves everybody's waits alone, or asks another thread,
\* or is thread::exit.
WaitsAlone == SendTypes' /\ QuietRun /\ QuietQueue /\ result' = result

LEMMA CommandSteps ==
    ASSUME SendInv, NEW t \in SendThreads, Thr!Command(t)
    PROVE  \/ WaitsAlone
           \/ \E u \in SendThreads, sort \in Kinds, kind \in Waited :
                AsksFor(t, u, sort, kind) /\ (sort = "channel" => kind = "transfer")
           \/ Thr!Exit(t)
<1>0. /\ "script" \in Kinds /\ "wake" \in Kinds /\ "channel" \in Kinds
      /\ "send" \in Waited /\ "release" \in Waited /\ "transfer" \in Waited
  BY DEF Kinds, Waited
<1>1. CASE Thr!Send(t)
  <2>1. PICK u \in SendThreads : Thr!Enqueue(u, "script", t, Nobody) /\ Thr!Await(t, u, "send")
    BY <1>1 DEF Thr!Send, Thr!Known
  <2>2. AsksFor(t, u, "script", "send")
    BY <1>1, <2>1 DEF AsksFor, Thr!Send, Thr!Uses
  <2> QED BY <1>0, <2>2
<1>2. CASE Thr!Transfer(t)
  <2>1. PICK u \in SendThreads : Thr!Enqueue(u, "channel", t, Nobody) /\ Thr!Await(t, u, "transfer")
    BY <1>2 DEF Thr!Transfer, Thr!Known
  <2>2. AsksFor(t, u, "channel", "transfer")
    BY <1>2, <2>1 DEF AsksFor, Thr!Transfer, Thr!Uses
  <2> QED BY <1>0, <2>2
<1>3. CASE Thr!Release(t)
  <2>1. CASE run' = run
    BY <1>3, <2>1, QuietRelease DEF WaitsAlone
  <2>2. CASE run' # run
    <3>1. PICK u \in SendThreads : Thr!Enqueue(u, "wake", t, Nobody) /\ Thr!Await(t, u, "release")
      BY <1>3, <2>2 DEF Thr!Release, Thr!Known
    <3>2. run[t].pc \in {"script", "serving"} /\ listed' \subseteq listed /\ errorThread' = errorThread
      BY <1>3 DEF Thr!Release, Thr!Uses
    <3>3. AsksFor(t, u, "wake", "release")
      BY <3>1, <3>2 DEF AsksFor
    <3> QED BY <1>0, <3>3
  <2> QED BY <2>1, <2>2
<1> QED
  BY <1>1, <1>2, <1>3, QuietWords, QuietBroadcast, QuietJoin, QuietSendAsync, QuietCreate
     DEF Thr!Command, WaitsAlone

LEMMA ProceedSteps ==
    ASSUME SendInv, NEW t \in SendThreads, Thr!Proceed(t)
    PROVE  \/ WaitsAlone
           \/ Thr!Wake(t) \/ Thr!Report(t) \/ Thr!Serve(t) \/ Thr!ServeChannel(t)
           \/ Thr!Discard(t) \/ Thr!ExitProc(t)
BY QuietBack, QuietBroadcastNext, QuietScriptEnds, QuietReport, QuietCheck, QuietLoop
   DEF Thr!Proceed, WaitsAlone

LEMMA SendNext ==
    ASSUME SendInv, Thr!Next
    PROVE  SendInv'
<1>1. PICK t \in SendThreads : Thr!Command(t) \/ Thr!Proceed(t)
  BY DEF Thr!Next
<1>2. CASE WaitsAlone
  BY <1>2, QuietInv DEF WaitsAlone
<1>3. CASE Thr!Command(t)
  BY <1>2, <1>3, CommandSteps, AsksInv, LeavesInv
<1>4. CASE Thr!Proceed(t)
  BY <1>2, <1>4, ProceedSteps, WakeInv, ReportInv, ServeInv, ServeChannelInv, LeavesInv,
     ExitProcInv
<1> QED BY <1>1, <1>3, <1>4

\* The set Answers of ThreadCmd has the pairs that Due describes.
LEMMA AnswersDue ==
    ASSUME SendTypes, NEW c \in SendThreads, NEW w \in SendThreads, NEW i \in Nat
    PROVE  <<w, i>> \in Thr!Answers(c) <=> Due(w, i, c)
<1>1. <<w, i>> \in Thr!Pending(c) <=> i \in DOMAIN queue[w] /\ queue[w][i].src = c
  BY DEF Thr!Pending
<1>2. w \in Thr!ServedBy(c) <=> Serves(run[w], c)
  BY DEF Thr!ServedBy, Serves
<1> QED BY <1>1, <1>2 DEF Thr!Answers, Due

LEMMA AnswersAre ==
    ASSUME SendTypes, NEW c \in SendThreads, NEW x \in Thr!Answers(c)
    PROVE  \E w \in SendThreads, i \in Nat : x = <<w, i>>
<1>1. CASE x \in Thr!Pending(c)
  <2>1. PICK w \in SendThreads : x \in {<<w, i>> : i \in {k \in DOMAIN queue[w] : queue[w][k].src = c}}
    BY <1>1 DEF Thr!Pending
  <2>2. \A k \in DOMAIN queue[w] : k \in Nat
    BY QueueTypes
  <2> QED BY <2>1, <2>2
<1>2. CASE x \in Thr!ServedBy(c) \X {0}
  BY <1>2 DEF Thr!ServedBy
<1> QED BY <1>1, <1>2 DEF Thr!Answers

LEMMA SendAnswered ==
    ASSUME SendInv
    PROVE  Thr!AnswerOnItsWay
<1>0. SendTypes
  BY DEF SendInv
<1> SUFFICES ASSUME NEW c \in SendThreads
             PROVE  IF run[c].pc = "blocked" /\ result[c].code = "none"
                    THEN /\ \A x, y \in Thr!Answers(c) : x = y
                         /\ Thr!Answers(c) = {} => run[result[c].on].pc \in {"ending", "exit"}
                    ELSE Thr!Answers(c) = {}
  BY DEF Thr!AnswerOnItsWay
<1>1. DueOnce(c) /\ DueWaits(c) /\ WaitsDue(c)
  BY DEF SendInv
<1>2. \A w \in SendThreads, i \in Nat : <<w, i>> \in Thr!Answers(c) <=> Due(w, i, c)
  BY <1>0, AnswersDue
<1>3. \A x \in Thr!Answers(c) : \E w \in SendThreads, i \in Nat : x = <<w, i>> /\ Due(w, i, c)
  BY <1>0, <1>2, AnswersAre
<1>4. CASE Unanswered(c)
  <2>1. \A x, y \in Thr!Answers(c) : x = y
    BY <1>1, <1>3 DEF DueOnce, DueWaits
  <2>2. Thr!Answers(c) = {} => run[result[c].on].pc \in {"ending", "exit"}
    BY <1>1, <1>2, <1>4 DEF WaitsDue
  <2> QED BY <1>4, <2>1, <2>2 DEF Unanswered, Blocked
<1>5. CASE ~Unanswered(c)
  <2>1. Thr!Answers(c) = {}
    BY <1>1, <1>3, <1>5 DEF DueWaits
  <2> QED BY <1>5, <2>1 DEF Unanswered, Blocked
<1> QED BY <1>4, <1>5

\* The invariant, for every behaviour.
LEMMA SendCorrect == Spec => [](subject = "threads" => SendInv)
<1> DEFINE Inv == subject = "threads" => SendInv
<1>1. Init => Inv
  BY SendInit DEF Init
<1>2. Inv /\ [Next]_vars => Inv'
  <2> SUFFICES ASSUME Inv, [Next]_vars, subject' = "threads" PROVE SendInv'
    OBVIOUS
  <2>1. CASE UNCHANGED vars
    <3>1. SendInv /\ queue' = queue /\ run' = run /\ result' = result /\ listed' = listed
          /\ errorThread' = errorThread
      BY <2>1 DEF vars, sendVars
    <3>2. SendTypes'
      BY <3>1 DEF SendInv, SendTypes
    <3> QED BY <3>1, <3>2, QuietSame, QuietStill, QuietInv
  <2>2. CASE Next
    <3>1. subject = "threads" /\ Thr!Next
      BY <2>2 DEF Next, ThreadSteps, PoolSteps, SyncSteps, SvSteps
    <3> QED BY <3>1, SendNext
  <2> QED BY <2>1, <2>2
<1> QED BY <1>1, <1>2, PTL DEF Spec

\* Whoever waits for a thread's answer has one event on its way, or that thread
\* is about to tell it that it died; nobody's result structure is used once its
\* wait is over (threadCmd.c: ThreadSend, ThreadEventProc, ThreadExitProc).
THEOREM AnswerOnItsWayCorrect == Spec => []AnswerOnItsWay
<1>1. (subject = "threads" => SendInv) => AnswerOnItsWay
  BY SendAnswered DEF AnswerOnItsWay
<1>2. Spec => [](subject = "threads" => SendInv)
  BY SendCorrect
<1> QED BY <1>1, <1>2, PTL

-----------------------------------------------------------------------------
(* Synchronous sends are the calls of RemoteCall *)

\* The state of c's call by where its event is.
Queued(c) == \E w \in SendThreads, i \in Nat : i # 0 /\ Due(w, i, c)
BeingServed(c) == \E w \in SendThreads : Due(w, 0, c)
View(c) ==
    IF ~(run[c].pc = "blocked" /\ result[c].kind = "send") THEN "none"
    ELSE IF result[c].code = "given" THEN "answered"
    ELSE IF result[c].code = "died" THEN "died"
    ELSE IF Queued(c) THEN "asked" ELSE IF BeingServed(c) THEN "running" ELSE "lost"
Moves(c) == View(c)' = View(c) \/ <<View(c), View(c)'>> \in Thr!Remote!Ways

LEMMA StatusIsView ==
    ASSUME SendTypes, NEW c \in SendThreads
    PROVE  Thr!Status(c) = View(c)
<1>1. \A w \in SendThreads : 0 \notin DOMAIN queue[w] /\ \A i \in DOMAIN queue[w] : i \in Nat \ {0}
  BY QueueTypes
<1>2. Thr!Pending(c) # {} <=> Queued(c)
  <2>1. Thr!Pending(c) # {} <=>
          \E w \in SendThreads : \E i \in DOMAIN queue[w] : queue[w][i].src = c
    <3>1. ASSUME NEW w \in SendThreads, NEW i \in DOMAIN queue[w], queue[w][i].src = c
          PROVE  <<w, i>> \in Thr!Pending(c)
      BY <3>1 DEF Thr!Pending
    <3>2. ASSUME NEW x \in Thr!Pending(c)
          PROVE  \E w \in SendThreads : \E i \in DOMAIN queue[w] : queue[w][i].src = c
      BY <3>2 DEF Thr!Pending
    <3> QED BY <3>1, <3>2
  <2> QED BY <1>1, <2>1 DEF Queued, Due
<1>3. Thr!ServedBy(c) # {} <=> BeingServed(c)
  BY <1>1 DEF Thr!ServedBy, BeingServed, Due, Serves
<1> QED BY <1>2, <1>3 DEF Thr!Status, Thr!Waits, View

LEMMA StatusIsViewNext ==
    ASSUME SendTypes', NEW c \in SendThreads
    PROVE  Thr!Status(c)' = View(c)'
<1>0. \A w \in SendThreads : queue'[w] \in Seq(Events)
  BY DEF SendTypes
<1>1. \A w \in SendThreads :
        0 \notin DOMAIN queue'[w] /\ \A i \in DOMAIN queue'[w] : i \in Nat \ {0}
  BY <1>0, LenProperties
<1>2. Thr!Pending(c)' # {} <=> Queued(c)'
  <2>1. Thr!Pending(c)' # {} <=>
          \E w \in SendThreads : \E i \in DOMAIN queue'[w] : queue'[w][i].src = c
    <3>1. ASSUME NEW w \in SendThreads, NEW i \in DOMAIN queue'[w], queue'[w][i].src = c
          PROVE  <<w, i>> \in Thr!Pending(c)'
      BY <3>1 DEF Thr!Pending
    <3>2. ASSUME NEW x \in Thr!Pending(c)'
          PROVE  \E w \in SendThreads : \E i \in DOMAIN queue'[w] : queue'[w][i].src = c
      BY <3>2 DEF Thr!Pending
    <3> QED BY <3>1, <3>2
  <2> QED BY <1>1, <2>1 DEF Queued, Due
<1>3. Thr!ServedBy(c)' # {} <=> BeingServed(c)'
  BY <1>1 DEF Thr!ServedBy, BeingServed, Due, Serves
<1> QED BY <1>2, <1>3 DEF Thr!Status, Thr!Waits, View

\* A wait that goes on moves forward: from asked to running.
LEMMA CarriedMoves ==
    ASSUME SendInv, SendInv', NEW c \in SendThreads, Carried(c)
    PROVE  Moves(c)
<1>1. /\ Blocked(c)' <=> Blocked(c)
      /\ result'[c] = result[c]
      /\ \A w \in SendThreads : Asked(w, c)' <=> Asked(w, c)
      /\ \A w \in SendThreads : Due(w, 0, c) => Due(w, 0, c)'
  BY DEF Carried
<1>2. DueOnce(c) /\ DueWaits(c) /\ DueOnce(c)' /\ DueWaits(c)'
  BY DEF SendInv
<1>3. BeingServed(c) => BeingServed(c)'
  BY <1>1 DEF BeingServed
<1>4. ~(BeingServed(c) /\ Queued(c)) /\ ~(BeingServed(c)' /\ Queued(c)')
  BY <1>2 DEF BeingServed, Queued, DueOnce, DueWaits
<1>5. (Queued(c) \/ BeingServed(c) <=> \E w \in SendThreads : Asked(w, c))
      /\ (Queued(c)' \/ BeingServed(c)' <=> \E w \in SendThreads : Asked(w, c)')
  BY DEF Queued, BeingServed, Asked
<1>6. Queued(c) \/ BeingServed(c) <=> Queued(c)' \/ BeingServed(c)'
  BY <1>1, <1>5
<1>7. <<"asked", "running">> \in Thr!Remote!Ways
  BY DEF Thr!Remote!Ways
<1>8. CASE Unanswered(c)
  <2>1. View(c) = IF result[c].kind # "send" THEN "none"
                  ELSE IF Queued(c) THEN "asked" ELSE IF BeingServed(c) THEN "running" ELSE "lost"
    BY <1>8 DEF View, Unanswered, Blocked
  <2>2. View(c)' = IF result[c].kind # "send" THEN "none"
                   ELSE IF Queued(c)' THEN "asked" ELSE IF BeingServed(c)' THEN "running" ELSE "lost"
    BY <1>1, <1>8 DEF View, Unanswered, Blocked
  <2> QED BY <1>3, <1>4, <1>6, <1>7, <2>1, <2>2 DEF Moves
<1>9. CASE ~Unanswered(c)
  <2>1. result[c].code \in {"none", "given", "died"}
    BY DEF SendInv, SendTypes, Results, Codes
  <2>2. View(c)' = View(c)
    BY <1>1, <1>9, <2>1 DEF View, Unanswered, Blocked
  <2> QED BY <2>2 DEF Moves
<1> QED BY <1>8, <1>9

LEMMA QuietCarried ==
    ASSUME SendInv, WaitsAlone, NEW c \in SendThreads
    PROVE  Carried(c)
<1>1. /\ QuietRun /\ QuietQueue /\ result' = result
  BY DEF WaitsAlone
<1>2. \A w \in SendThreads, i \in Nat :
        /\ Due(w, i, c)' <=> Due(w, i, c)
        /\ Due(w, i, c) /\ i # 0 => queue'[w][i] = queue[w][i]
  BY <1>1, QuietDue
<1>3. Blocked(c)' <=> Blocked(c)
  BY <1>1 DEF QuietRun, Calm, Blocked
<1>4. \A w \in SendThreads : run[w].pc \in {"ending", "exit"} => run'[w].pc \in {"ending", "exit"}
  BY <1>1 DEF QuietRun, Calm
<1> QED BY <1>1, <1>2, <1>3, <1>4, WaitedFor, CarriedSame

LEMMA AsksMoves ==
    ASSUME SendInv, SendInv', NEW t \in SendThreads, NEW u \in SendThreads, NEW sort \in Kinds,
           NEW kind \in Waited, AsksFor(t, u, sort, kind), NEW c \in SendThreads
    PROVE  Moves(c)
<1>1. /\ run'[t].pc = "blocked"
      /\ \A w \in SendThreads : w # t => run'[w] = run[w]
      /\ result'[t] = [on |-> u, kind |-> kind, code |-> "none"]
      /\ \A w \in SendThreads : w # t => result'[w] = result[w]
  BY AsksTypes
<1>2. PICK n : n = Len(queue[u]) + 1
  OBVIOUS
<1>3. n \in Nat \ {0}
  BY <1>2, QueueTypes DEF SendInv
<1>4. \A w \in SendThreads, i \in Nat :
        /\ Due(w, i, c)' <=> Due(w, i, c) \/ (w = u /\ c = t /\ i = n)
        /\ Due(w, i, c) /\ i # 0 => queue'[w][i] = queue[w][i]
  BY <1>2, AsksDue
<1>5. CASE c = t
  <2>1. Due(u, n, t)'
    BY <1>3, <1>4, <1>5
  <2>2. Queued(t)'
    BY <1>3, <2>1 DEF Queued
  <2>3. View(t) = "none"
    BY DEF View, AsksFor
  <2>4. View(t)' = IF kind # "send" THEN "none" ELSE "asked"
    BY <1>1, <2>2 DEF View
  <2> QED BY <1>5, <2>3, <2>4 DEF Moves, Thr!Remote!Ways
<1>6. CASE c # t
  <2>1. Blocked(c)' <=> Blocked(c)
    BY <1>1, <1>6 DEF Blocked
  <2>2. \A w \in SendThreads : run[w].pc \in {"ending", "exit"} => run'[w].pc \in {"ending", "exit"}
    BY <1>1 DEF AsksFor
  <2>3. Carried(c)
    BY <1>1, <1>4, <1>6, <2>1, <2>2, WaitedFor, CarriedSame
  <2> QED BY <2>3, CarriedMoves
<1> QED BY <1>5, <1>6

LEMMA WakeMoves ==
    ASSUME SendInv, SendInv', NEW t \in SendThreads, Thr!Wake(t), NEW c \in SendThreads
    PROVE  Moves(c)
<1>1. CASE c # t
  BY <1>1, WakeInv, CarriedMoves
<1>2. CASE c = t
  <2>1. result[t].code \in {"given", "died"}
    BY DEF SendInv, SendTypes, Results, Codes, Thr!Wake
  <2>2. View(t) \in {"none", "answered", "died"}
    BY <2>1 DEF View
  <2>3. result'[t] = Thr!NoResult
    BY DEF SendInv, SendTypes, Thr!Wake
  <2>4. View(t)' = "none"
    BY <2>3 DEF View, Thr!NoResult
  <2> QED BY <1>2, <2>2, <2>4 DEF Moves, Thr!Remote!Ways
<1> QED BY <1>1, <1>2

LEMMA ReportMoves ==
    ASSUME SendInv, SendInv', NEW t \in SendThreads, Thr!Report(t), NEW c \in SendThreads
    PROVE  Moves(c)
<1>1. CASE c # run[t].cur.src
  BY <1>1, ReportInv, CarriedMoves
<1>2. CASE c = run[t].cur.src
  <2>1. Due(t, 0, c)
    BY <1>2 DEF Thr!Report, Due, Serves, Thr!Serving
  <2>2. Unanswered(c) /\ ~Queued(c) /\ BeingServed(c)
    BY <2>1 DEF SendInv, DueOnce, DueWaits, Queued, BeingServed
  <2>3. result[c] \in Results /\ result'[c] = [result[c] EXCEPT !.code = "given"]
    BY <1>2 DEF SendInv, SendTypes, Thr!Report
  <2>4. result'[c].code = "given" /\ result'[c].kind = result[c].kind
    BY <2>3 DEF Results
  <2>5. c # t /\ run'[c] = run[c]
    BY <2>2 DEF SendInv, SendTypes, Thr!Report, Unanswered, Blocked
  <2>6. View(c) = IF result[c].kind = "send" THEN "running" ELSE "none"
    BY <2>2 DEF View, Unanswered, Blocked
  <2>7. View(c)' = IF result[c].kind = "send" THEN "answered" ELSE "none"
    BY <2>2, <2>4, <2>5 DEF View, Unanswered, Blocked
  <2> QED BY <2>6, <2>7 DEF Moves, Thr!Remote!Ways
<1> QED BY <1>1, <1>2

LEMMA ServeChannelMoves ==
    ASSUME SendInv, SendInv', NEW t \in SendThreads, Thr!ServeChannel(t), NEW c \in SendThreads
    PROVE  Moves(c)
<1>1. PICK i \in DOMAIN queue[t] : queue[t][i].kind = "channel" /\ i \in Nat \ {0}
        /\ \A d \in SendThreads :
             IF d = queue[t][i].src THEN Freed(d) /\ Due(t, i, d) ELSE Carried(d)
  BY ServeChannelInv
<1>2. CASE Carried(c)
  BY <1>2, CarriedMoves
<1>3. CASE Due(t, i, c)
  <2>1. result[c].kind = "transfer"
    BY <1>1, <1>3 DEF SendInv, DueWaits
  <2>2. result'[c].kind = "transfer"
    <3>1. result[c] \in Results
      BY DEF SendInv, SendTypes
    <3>2. PICK d : result' = [result EXCEPT ![d].code = "given"]
      BY DEF Thr!ServeChannel
    <3>3. result'[c] = result[c] \/ result'[c] = [result[c] EXCEPT !.code = "given"]
      BY <3>2 DEF SendInv, SendTypes
    <3> QED BY <2>1, <3>1, <3>3 DEF Results
  <2> QED BY <2>1, <2>2 DEF Moves, View
<1> QED BY <1>1, <1>2, <1>3

LEMMA LeavesMoves ==
    ASSUME SendInv, SendInv', NEW t \in SendThreads, Thr!Exit(t) \/ Thr!Discard(t),
           NEW c \in SendThreads
    PROVE  Moves(c)
<1>1. CASE Carried(c)
  BY <1>1, CarriedMoves
<1>2. CASE Lost(c) /\ result'[c] = result[c] /\ Unanswered(c) /\ Asked(t, c)
  <2>1. Queued(c) \/ BeingServed(c)
    BY <1>2 DEF Queued, BeingServed, Asked
  <2>2. ~Queued(c)' /\ ~BeingServed(c)' /\ Unanswered(c)'
    BY <1>2 DEF Lost, NoneDue, Queued, BeingServed
  <2>3. View(c) \in IF result[c].kind = "send" THEN {"asked", "running"} ELSE {"none"}
    BY <1>2, <2>1 DEF View, Unanswered, Blocked
  <2>4. View(c)' = IF result[c].kind = "send" THEN "lost" ELSE "none"
    BY <1>2, <2>2 DEF View, Unanswered, Blocked
  <2> QED BY <2>3, <2>4 DEF Moves, Thr!Remote!Ways
<1> QED BY <1>1, <1>2, LeavesInv

LEMMA ExitProcMoves ==
    ASSUME SendInv, SendInv', NEW t \in SendThreads, Thr!ExitProc(t), NEW c \in SendThreads
    PROVE  Moves(c)
<1>1. CASE result[c].on # t
  BY <1>1, ExitProcInv, CarriedMoves
<1>2. CASE result[c].on = t
  <2>1. result[c] \in Results /\ result'[c] = [result[c] EXCEPT !.code = "died"]
    BY <1>2 DEF SendInv, SendTypes, Thr!ExitProc, Thr!Tell
  <2>2. result'[c].code = "died" /\ result'[c].kind = result[c].kind
    BY <2>1 DEF Results
  <2>3. Blocked(c)' <=> Blocked(c)
    <3>1. run[t].pc = "exit" /\ run'[t].pc = "dead"
      BY DEF SendInv, SendTypes, Runs, Thr!ExitProc
    <3>2. c # t => run'[c] = run[c]
      BY DEF SendInv, SendTypes, Thr!ExitProc
    <3> QED BY <3>1, <3>2 DEF Blocked
  <2>4. View(c)' = IF Blocked(c) /\ result[c].kind = "send" THEN "died" ELSE "none"
    BY <2>2, <2>3 DEF View, Blocked
  <2>5. View(c) \in IF Blocked(c) /\ result[c].kind = "send"
                    THEN {"asked", "running", "lost", "answered", "died"} ELSE {"none"}
    BY DEF View, Blocked
  <2> QED BY <2>4, <2>5 DEF Moves, Thr!Remote!Ways
<1> QED BY <1>1, <1>2

LEMMA SendMoves ==
    ASSUME SendInv, Thr!Next
    PROVE  Thr!Remote!Step
<1>1. SendInv'
  BY SendNext
<1>2. PICK t \in SendThreads : Thr!Command(t) \/ Thr!Proceed(t)
  BY DEF Thr!Next
<1>3. ASSUME WaitsAlone PROVE \A c \in SendThreads : Moves(c)
  BY <1>1, <1>3, QuietCarried, CarriedMoves
<1>4. ASSUME NEW c \in SendThreads PROVE Moves(c)
  <2>1. CASE Thr!Command(t)
    BY <1>1, <1>3, <2>1, CommandSteps, AsksMoves, LeavesMoves
  <2>2. CASE Thr!Proceed(t)
    <3>1. CASE Thr!Serve(t)
      BY <1>1, <3>1, ServeInv, CarriedMoves
    <3> QED BY <1>1, <1>3, <2>2, <3>1, ProceedSteps, WakeMoves, ReportMoves, ServeChannelMoves,
               LeavesMoves, ExitProcMoves
  <2> QED BY <1>2, <2>1, <2>2
<1>5. \A c \in SendThreads : Thr!Status(c) = View(c) /\ Thr!Status(c)' = View(c)'
  BY <1>1, StatusIsView, StatusIsViewNext DEF SendInv
<1>6. \A c \in SendThreads : \/ Thr!Status(c)' = Thr!Status(c)
                            \/ <<Thr!Status(c), Thr!Status(c)'>> \in Thr!Remote!Ways
  BY <1>4, <1>5 DEF Moves
<1> QED BY <1>6 DEF Thr!Remote!Step, Thr!Remote!Next

LEMMA RemoteStart ==
    ASSUME Thr!Init
    PROVE  Thr!Remote!Init
<1>1. \A t \in SendThreads : run[t].pc # "blocked"
  BY DEF Thr!Init
<1> QED BY <1>1 DEF Thr!Remote!Init, Thr!Status, Thr!Waits

\* Every step of the threads is one of the abstract calls, or none: each
\* synchronous send is run at most once, and answered by its script or by the
\* end of its target (threadCmd.c).
THEOREM RemoteCorrect == Spec => RemoteImplemented
<1> DEFINE Inv == subject = "threads" => SendInv
<1>1. Init => (subject = "threads" => Thr!Remote!Init)
  BY RemoteStart DEF Init
<1>2. Inv /\ [Next]_vars => [subject = "threads" => Thr!Remote!Step]_vars
  <2> SUFFICES ASSUME Inv, Next, subject = "threads" PROVE Thr!Remote!Step
    OBVIOUS
  <2>1. Thr!Next
    BY DEF Next, ThreadSteps, PoolSteps, SyncSteps, SvSteps
  <2> QED BY <2>1, SendMoves
<1>3. Spec => []Inv
  BY SendCorrect
<1> HIDE DEF Inv
<1> QED BY <1>1, <1>2, <1>3, PTL DEF Spec, RemoteImplemented

\* A pool that is released is used by one thread; an init script that may fail
\* is that of a pool that begins with at most one worker.
UsedAlone == \A p \in PoolPlans :
    /\ "release" \in p.commands => \A t, u \in p.posters : t = u
    /\ p.fails => p.min <= 1

-----------------------------------------------------------------------------
(* Pools: the inductive invariant: types *)

Busy == {"post", "nowait", "push", "posting", "nowaiting", "wait", "waiting"}
PosterPcs == Busy \cup {"script", "create", "creating", "starting", "startnow", "reap", "reaping"}
WorkerPcs == {"none", "start", "idle", "sleep", "eval", "leave"}
AJob == [n : Nat, detached : BOOLEAN]
APoster == [pc : PosterPcs, want : SUBSET Nat, job : AJob, stops : Int]
AWorker == [pc : WorkerPcs, job : AJob]
APool == [state : {"none", "made", "listed", "unlisted", "freed"}, tear : BOOLEAN, num : Int,
          idle : Int, refs : Int, jobs : Nat, made : Nat]
PoolTypeOK ==
    /\ plan \in PoolPlans
    /\ pool \in APool
    /\ poster \in [Posters -> APoster]
    /\ worker \in [Workers -> AWorker]
    /\ work \in Seq(AJob) /\ jobsDone \in SUBSET AJob /\ waiters \in Seq(Posters)

-----------------------------------------------------------------------------
(* The inductive invariant: phases of the pool *)

\* Who waits for a worker that starts; creates the pool; tears it down.
Starts(t) == poster[t].pc \in {"starting", "startnow", "creating"}
Creates(t) == poster[t].pc \in {"create", "creating"}
Reaps(t) == poster[t].pc \in {"reap", "reaping"}

\* One worker starts at a time, and somebody waits for it.
OneStarts ==
    /\ \A w, v \in Workers : worker[w].pc = "start" /\ worker[v].pc = "start" => w = v
    /\ \A t, u \in Posters : Starts(t) /\ Starts(u) => t = u
    /\ (\E w \in Workers : worker[w].pc = "start") => \E t \in Posters : Starts(t)
Sole(t) == \A u \in Posters \ {t} : poster[u].pc = "script"

\* Workers that have started and have not left.
AlivePcs == {"idle", "sleep", "eval", "leave"}
Alive == {w \in Workers : worker[w].pc \in AlivePcs}

Counted == IsFiniteSet(Alive) /\ pool.num = Cardinality(Alive)

\* Who does anything is one of the plan's threads.
UsersOnly == \A t \in Posters : poster[t].pc # "script" => t \in plan.posters

\* What the threads may be at while the pool is in each of its states.
WhileNone == pool.state = "none" =>
    /\ \A t \in Posters : poster[t].pc = "script"
    /\ \A w \in Workers : worker[w].pc = "none"
    /\ pool.made = 0
WhileMade == pool.state = "made" =>
    /\ \E t \in Posters : Creates(t) /\ Sole(t)
    /\ pool.made <= plan.min /\ pool.num <= pool.made
    /\ (\E t \in Posters : poster[t].pc = "creating") => pool.num < pool.made
WhileListed == pool.state = "listed" => \A t \in Posters : ~Creates(t) /\ ~Reaps(t)
WhileUnlisted == pool.state = "unlisted" =>
    \E t \in Posters : Reaps(t) /\ Sole(t)
WhenFreed == pool.state = "freed" =>
    /\ \A t \in Posters : poster[t].pc = "script"
    /\ \A w \in Workers : worker[w].pc = "none"
PhaseInv ==
    /\ Counted /\ OneStarts /\ UsersOnly
    /\ WhileNone /\ WhileMade /\ WhileListed /\ WhileUnlisted /\ WhenFreed

-----------------------------------------------------------------------------
(* The inductive invariant: jobs *)

\* The jobs of a queue are numbered as they came in.
Ascending(s) == \A i, j \in DOMAIN s : i < j => s[i].n < s[j].n
Has(s, n) == \E i \in DOMAIN s : s[i].n = n

Running(n) == \E w \in Workers : worker[w].job.n = n
Done(n) == \E j \in jobsDone : j.n = n

\* A job is at one place; the queue has them in order.
JobsInv ==
    /\ Ascending(work)
    /\ \A n : Has(work, n) => n \in 1..pool.jobs
    /\ \A w \in Workers : /\ worker[w].pc # "eval" => worker[w].job = Pool!NoJob
                          /\ worker[w].pc = "eval" => worker[w].job.n \in 1..pool.jobs
                          /\ ~Has(work, worker[w].job.n)
    /\ \A w, v \in Workers : worker[w].job.n = worker[v].job.n /\ worker[w].job.n > 0 => w = v
    /\ \A j \in jobsDone : j.n \in 1..pool.jobs /\ ~Has(work, j.n) /\ ~Running(j.n)
    /\ \A j, k \in jobsDone : j.n = k.n => j = k

Mapped == [n \in 1..MaxJobs |-> Pool!Status(n)]

-----------------------------------------------------------------------------
(* What the actions are made of *)

\* What a thread may be at.
LEMMA PosterPcsType ==
    \A pc \in {"post", "nowait", "push", "posting", "nowaiting", "wait", "waiting", "script",
               "create", "creating", "starting", "startnow", "reap", "reaping"} : pc \in PosterPcs
BY DEF PosterPcs, Busy

\* A thread goes on to pc (At).
LEMMA AtFacts ==
    ASSUME PoolTypeOK, NEW t \in Posters, NEW pc \in PosterPcs, Pool!At(t, pc)
    PROVE  /\ poster' \in [Posters -> APoster]
           /\ poster'[t].pc = pc /\ poster'[t].job = poster[t].job
           /\ \A u \in Posters \ {t} : poster'[u] = poster[u]
BY DEF Pool!At, PoolTypeOK, APoster

\* CreateWorker makes one thread more.
LEMMA SpawnFacts ==
    ASSUME PoolTypeOK, NEW t \in Posters, NEW pc \in PosterPcs, Pool!Spawn(t, pc)
    PROVE  /\ poster' \in [Posters -> APoster] /\ worker' \in [Workers -> AWorker]
           /\ poster'[t].pc = pc /\ poster'[t].job = poster[t].job
           /\ \A u \in Posters \ {t} : poster'[u] = poster[u]
           /\ \E w \in Workers :
                /\ worker[w].pc = "none"
                /\ worker'[w].pc = "start" /\ worker'[w].job = worker[w].job
                /\ \A v \in Workers \ {w} : worker'[v] = worker[v]
<1>1. PICK w \in Workers : worker[w].pc = "none" /\ worker' = [worker EXCEPT ![w].pc = "start"]
  BY DEF Pool!Spawn
<1>2. "start" \in WorkerPcs
  BY DEF WorkerPcs
<1>3. /\ worker' \in [Workers -> AWorker]
      /\ worker'[w].pc = "start" /\ worker'[w].job = worker[w].job
      /\ \A v \in Workers \ {w} : worker'[v] = worker[v]
  BY <1>1, <1>2 DEF PoolTypeOK, AWorker
<1>4. Pool!At(t, pc)
  BY DEF Pool!Spawn
<1>5. /\ poster' \in [Posters -> APoster]
      /\ poster'[t].pc = pc /\ poster'[t].job = poster[t].job
      /\ \A u \in Posters \ {t} : poster'[u] = poster[u]
  BY <1>4, AtFacts
<1> QED BY <1>1, <1>3, <1>5

\* SignalWaiter changes no thread's place.
LEMMA SignalFacts ==
    ASSUME PoolTypeOK, Pool!SignalWaiter
    PROVE  /\ poster' \in [Posters -> APoster] /\ waiters' \in Seq(Posters)
           /\ \A u \in Posters : poster'[u].pc = poster[u].pc /\ poster'[u].job = poster[u].job
<1>1. ASSUME NEW u \in Posters
      PROVE  poster'[u] \in APoster /\ poster'[u].pc = poster[u].pc /\ poster'[u].job = poster[u].job
  <2>1. poster[u] \in APoster
    BY DEF PoolTypeOK
  <2>2. poster'[u] \in {poster[u], [poster[u] EXCEPT !.stops = @ + 1]}
    BY DEF Pool!SignalWaiter, Pool!Signalled
  <2>3. poster[u].stops + 1 \in Int
    <3>1. poster[u].stops \in Int
      BY <2>1 DEF APoster
    <3> QED BY <3>1
  <2> QED BY <2>1, <2>2, <2>3 DEF APoster
<1>2. poster' \in [Posters -> APoster]
  BY <1>1 DEF Pool!SignalWaiter, Pool!Signalled
<1>3. waiters' \in Seq(Posters)
  BY DEF Pool!SignalWaiter, PoolTypeOK
<1> QED BY <1>1, <1>2, <1>3

\* PushWaiter puts one thread more in the list.
LEMMA ParkFacts ==
    ASSUME PoolTypeOK, NEW t \in Posters, NEW pc \in PosterPcs, Pool!Park(t, pc)
    PROVE  /\ poster' \in [Posters -> APoster] /\ waiters' \in Seq(Posters)
           /\ poster'[t].pc = pc /\ poster'[t].job = poster[t].job
           /\ \A u \in Posters \ {t} : poster'[u] = poster[u]
<1>1. Pool!At(t, pc) /\ waiters' = Append(waiters, t)
  BY DEF Pool!Park
<1>2. waiters' \in Seq(Posters)
  BY <1>1 DEF PoolTypeOK
<1> QED BY <1>1, <1>2, AtFacts

\* A worker takes a job or lets one go; what the rest sees of it.
LEMMA SettleFacts ==
    ASSUME PoolTypeOK, NEW w \in Workers, Pool!Settle(w)
    PROVE  /\ poster' \in [Posters -> APoster] /\ worker' \in [Workers -> AWorker]
           /\ pool' \in APool /\ work' \in Seq(AJob) /\ waiters' \in Seq(Posters)
           /\ \A u \in Posters : poster'[u].pc = poster[u].pc /\ poster'[u].job = poster[u].job
           /\ \A v \in Workers \ {w} : worker'[v] = worker[v]
           /\ pool'.state = pool.state /\ pool'.num = pool.num /\ pool'.jobs = pool.jobs
           /\ pool'.made = pool.made /\ pool'.tear = pool.tear
           /\ \/ /\ worker'[w].pc \in {"sleep", "leave"} /\ worker'[w].job = Pool!NoJob
                 /\ work' = work
              \/ /\ worker'[w].pc = "eval" /\ work # <<>> /\ worker'[w].job = Head(work)
                 /\ work' = Tail(work)
<1>0. Pool!NoJob \in AJob
  BY DEF Pool!NoJob, AJob
<1>1. "leave" \in WorkerPcs /\ "sleep" \in WorkerPcs /\ "eval" \in WorkerPcs
  BY DEF WorkerPcs
<1>2. CASE pool.tear
  <2>1. /\ worker' = [worker EXCEPT ![w] = [pc |-> "leave", job |-> Pool!NoJob]]
        /\ pool' = pool /\ work' = work /\ waiters' = waiters /\ poster' = poster
    BY <1>2 DEF Pool!Settle
  <2>2. worker'[w] = [pc |-> "leave", job |-> Pool!NoJob]
    BY <2>1 DEF PoolTypeOK
  <2> QED BY <1>0, <1>1, <2>1, <2>2 DEF PoolTypeOK, AWorker
<1>3. CASE ~pool.tear
  <2>1. /\ poster' \in [Posters -> APoster] /\ waiters' \in Seq(Posters)
        /\ \A u \in Posters : poster'[u].pc = poster[u].pc /\ poster'[u].job = poster[u].job
    BY <1>3, SignalFacts DEF Pool!Settle
  <2>2. CASE work = <<>>
    <3>1. /\ worker' = [worker EXCEPT ![w] = [pc |-> "sleep", job |-> Pool!NoJob]]
          /\ pool' = [pool EXCEPT !.idle = @ + 1] /\ work' = work
      BY <1>3, <2>2 DEF Pool!Settle
    <3>2. pool' \in APool
      <4>1. pool.idle \in Int
        BY DEF PoolTypeOK, APool
      <4>2. pool.idle + 1 \in Int
        BY <4>1
      <4> QED BY <3>1, <4>2 DEF PoolTypeOK, APool
    <3>3. worker'[w] = [pc |-> "sleep", job |-> Pool!NoJob]
      BY <3>1 DEF PoolTypeOK
    <3>4. /\ pool'.state = pool.state /\ pool'.num = pool.num /\ pool'.jobs = pool.jobs
          /\ pool'.made = pool.made /\ pool'.tear = pool.tear
      BY <3>1 DEF PoolTypeOK, APool
    <3> QED BY <1>0, <1>1, <2>1, <3>1, <3>2, <3>3, <3>4 DEF PoolTypeOK, AWorker
  <2>3. CASE work # <<>>
    <3>1. /\ worker' = [worker EXCEPT ![w] = [pc |-> "eval", job |-> Head(work)]]
          /\ pool' = pool /\ work' = Tail(work)
      BY <1>3, <2>3 DEF Pool!Settle
    <3>2. Head(work) \in AJob /\ Tail(work) \in Seq(AJob)
      BY <2>3 DEF PoolTypeOK
    <3>3. worker'[w] = [pc |-> "eval", job |-> Head(work)]
      BY <3>1 DEF PoolTypeOK
    <3> QED BY <1>1, <2>1, <2>3, <3>1, <3>2, <3>3 DEF PoolTypeOK, AWorker
  <2> QED BY <2>2, <2>3
<1> QED BY <1>2, <1>3

\* A sequence without one of its elements.
LEMMA RemoveAtFacts ==
    ASSUME NEW S, NEW s \in Seq(S), NEW i \in 1..Len(s)
    PROVE  Pool!RemoveAt(s, i) \in Seq(S)
<1>1. SubSeq(s, 1, i - 1) \in Seq(S) /\ SubSeq(s, i + 1, Len(s)) \in Seq(S)
  OBVIOUS
<1> QED BY <1>1 DEF Pool!RemoveAt

\* The jobs that tpool::wait may be called for.
LEMMA LiveType == PoolTypeOK => Pool!Live \subseteq AJob /\ Pool!Known \subseteq Nat
<1> SUFFICES ASSUME PoolTypeOK PROVE Pool!Live \subseteq AJob /\ Pool!Known \subseteq Nat
  OBVIOUS
<1>1. \A i \in DOMAIN work : work[i] \in AJob
  BY DEF PoolTypeOK
<1>2. \A w \in Workers : worker[w].job \in AJob
  BY DEF PoolTypeOK, AWorker
<1>3. jobsDone \subseteq AJob
  BY DEF PoolTypeOK
<1>4. Pool!Live \subseteq AJob
  BY <1>1, <1>2, <1>3 DEF Pool!Live
<1>5. Pool!Known \subseteq Nat
  BY <1>4 DEF Pool!Known, AJob
<1> QED BY <1>4, <1>5

\* The two outcomes of a worker's init script, for it and for who started it.
LEMMA StartFacts ==
    ASSUME PoolTypeOK, OneStarts, NEW w \in Workers, Pool!Start(w)
    PROVE  \E t \in Posters :
             /\ Starts(t) /\ worker[w].pc = "start"
             /\ worker' \in [Workers -> AWorker] /\ poster' \in [Posters -> APoster]
             /\ \A v \in Workers \ {w} : worker'[v] = worker[v]
             /\ \A u \in Posters \ {t} : poster'[u] = poster[u]
             /\ worker'[w].job = worker[w].job
             /\ UNCHANGED <<work, jobsDone, waiters, plan>>
             /\ \/ /\ worker'[w].pc = "idle" /\ pool' = [pool EXCEPT !.num = @ + 1]
                   /\ \/ poster[t].pc = "creating" /\ poster'[t].pc = "create"
                      \/ poster[t].pc = "starting" /\ poster'[t].pc = "posting"
                      \/ poster[t].pc = "startnow" /\ poster'[t].pc = "nowaiting"
                \/ /\ worker'[w].pc = "none" /\ plan.fails
                   /\ poster'[t].pc = "script"
                   /\ \/ /\ poster[t].pc = "creating"
                         /\ pool' = [pool EXCEPT !.state = "freed"]
                      \/ poster[t].pc # "creating" /\ pool' = pool
<1> USE PosterPcsType
<1> DEFINE t == Pool!Starter
           pc == [creating |-> "create", starting |-> "posting",
                  startnow |-> "nowaiting"][poster[t].pc]
<1>1. worker[w].pc = "start" /\ UNCHANGED <<work, jobsDone, waiters, plan>>
  BY DEF Pool!Start
<1>2. t \in Posters /\ Starts(t)
  BY <1>1 DEF OneStarts, Starts, Pool!Starter
<1>3. \/ poster[t].pc = "creating" /\ pc = "create"
      \/ poster[t].pc = "starting" /\ pc = "posting"
      \/ poster[t].pc = "startnow" /\ pc = "nowaiting"
  <2> HIDE DEF t
  <2> QED BY <1>2 DEF Starts
<1>4. \/ /\ worker' = [worker EXCEPT ![w].pc = "idle"]
         /\ pool' = [pool EXCEPT !.num = @ + 1]
         /\ Pool!At(t, pc)
      \/ /\ plan.fails
         /\ worker' = [worker EXCEPT ![w].pc = "none"]
         /\ pool' = IF pc = "create" THEN [pool EXCEPT !.state = "freed"] ELSE pool
         /\ poster' = [poster EXCEPT ![t].pc = "script", ![t].job = Pool!NoJob]
  BY DEF Pool!Start
<1>5. pc \in PosterPcs
  BY <1>3
<1> HIDE DEF t, pc
<1>6. CASE /\ worker' = [worker EXCEPT ![w].pc = "idle"]
           /\ pool' = [pool EXCEPT !.num = @ + 1]
           /\ Pool!At(t, pc)
  <2>1. /\ worker' \in [Workers -> AWorker] /\ worker'[w].pc = "idle"
        /\ worker'[w].job = worker[w].job
        /\ \A v \in Workers \ {w} : worker'[v] = worker[v]
    BY <1>6 DEF PoolTypeOK, AWorker, WorkerPcs
  <2>2. /\ poster' \in [Posters -> APoster] /\ poster'[t].pc = pc
        /\ \A u \in Posters \ {t} : poster'[u] = poster[u]
    BY <1>2, <1>5, <1>6, AtFacts
  <2> QED BY <1>1, <1>2, <1>3, <1>6, <2>1, <2>2
<1>7. CASE /\ plan.fails
           /\ worker' = [worker EXCEPT ![w].pc = "none"]
           /\ pool' = IF pc = "create" THEN [pool EXCEPT !.state = "freed"] ELSE pool
           /\ poster' = [poster EXCEPT ![t].pc = "script", ![t].job = Pool!NoJob]
  <2>1. /\ worker' \in [Workers -> AWorker] /\ worker'[w].pc = "none"
        /\ worker'[w].job = worker[w].job
        /\ \A v \in Workers \ {w} : worker'[v] = worker[v]
    BY <1>7 DEF PoolTypeOK, AWorker, WorkerPcs
  <2>2. Pool!NoJob \in AJob
    BY DEF Pool!NoJob, AJob
  <2>3. /\ poster' \in [Posters -> APoster] /\ poster'[t].pc = "script"
        /\ \A u \in Posters \ {t} : poster'[u] = poster[u]
    BY <1>2, <1>7, <2>2 DEF PoolTypeOK, APoster
  <2>4. \/ poster[t].pc = "creating" /\ pool' = [pool EXCEPT !.state = "freed"]
        \/ poster[t].pc # "creating" /\ pool' = pool
    BY <1>3, <1>7
  <2>5. plan.fails
    BY <1>7
  <2> QED BY <1>1, <1>2, <2>1, <2>3, <2>4, <2>5
<1> QED BY <1>4, <1>6, <1>7

\* Every step keeps the types.
LEMMA PoolTypeStep ==
    ASSUME PoolTypeOK, OneStarts, Pool!Next
    PROVE  PoolTypeOK'
<1> USE PosterPcsType
<1>0. Pool!NoJob \in AJob
  BY DEF Pool!NoJob, AJob
<1>1. plan' = plan
  BY DEF Pool!Next, Pool!Command, Pool!Poster, Pool!Worker, Pool!Create, Pool!Post, Pool!Wait,
         Pool!Cancel, Pool!GetDone, Pool!Preserve, Pool!Release, Pool!Finds, Pool!Uses,
         Pool!Resume, Pool!CreateNext, Pool!PostWaits, Pool!NowaitStarts, Pool!Push,
         Pool!WaitLooks, Pool!Reap, Pool!Start, Pool!Begin, Pool!Awake, Pool!Finish, Pool!Leave,
         Pool!TimeOut
<1>i. pool.num \in Int /\ pool.idle \in Int /\ pool.refs \in Int /\ pool.jobs \in Nat /\ pool.made \in Nat
  BY DEF PoolTypeOK, APool
<1>j. /\ pool.num + 1 \in Int /\ pool.idle + 1 \in Int /\ pool.refs + 1 \in Int
      /\ pool.jobs + 1 \in Nat /\ pool.made + 1 \in Nat
      /\ pool.num - 1 \in Int /\ pool.idle - 1 \in Int /\ pool.refs - 1 \in Int
  BY <1>i
<1>2. ASSUME NEW t \in Posters, Pool!Create(t) PROVE PoolTypeOK'
  <2>1. /\ pool' = [pool EXCEPT !.state = "made"] /\ Pool!At(t, "create")
        /\ UNCHANGED <<work, jobsDone, waiters, worker>>
    BY <1>2 DEF Pool!Create
  <2>2. poster' \in [Posters -> APoster]
    BY <2>1, AtFacts
  <2> QED BY <1>1, <2>1, <2>2 DEF PoolTypeOK, APool
<1>3. ASSUME NEW t \in Posters, Pool!CreateNext(t) PROVE PoolTypeOK'
  <2>1. UNCHANGED <<work, jobsDone, waiters>>
    BY <1>3 DEF Pool!CreateNext
  <2>2. CASE pool.made < plan.min
    <3>1. Pool!Spawn(t, "creating") /\ pool' = [pool EXCEPT !.made = @ + 1]
      BY <1>3, <2>2 DEF Pool!CreateNext
    <3>2. poster' \in [Posters -> APoster] /\ worker' \in [Workers -> AWorker]
      BY <3>1, SpawnFacts
    <3>3. pool' \in APool
      BY <1>j, <3>1 DEF PoolTypeOK, APool
    <3> QED BY <1>1, <2>1, <3>2, <3>3 DEF PoolTypeOK
  <2>3. CASE ~(pool.made < plan.min)
    <3>1. Pool!At(t, "script") /\ pool' = [pool EXCEPT !.state = "listed"] /\ UNCHANGED worker
      BY <1>3, <2>3 DEF Pool!CreateNext
    <3>2. poster' \in [Posters -> APoster]
      BY <3>1, AtFacts
    <3> QED BY <1>1, <2>1, <3>1, <3>2 DEF PoolTypeOK, APool
  <2> QED BY <2>2, <2>3
<1>4. ASSUME NEW t \in Posters, Pool!Post(t) PROVE PoolTypeOK'
  <2>1. PICK detached, nowait \in BOOLEAN :
          poster' = [poster EXCEPT ![t].pc = IF nowait THEN "nowait" ELSE "post",
                                   ![t].job = [n |-> 0, detached |-> detached]]
    BY <1>4 DEF Pool!Post
  <2>2. [n |-> 0, detached |-> detached] \in AJob
    BY DEF AJob
  <2>3. (IF nowait THEN "nowait" ELSE "post") \in PosterPcs
    OBVIOUS
  <2>4. poster' \in [Posters -> APoster]
    <3> DEFINE pc == IF nowait THEN "nowait" ELSE "post"
               job == [n |-> 0, detached |-> detached]
    <3>1. poster' = [poster EXCEPT ![t].pc = pc, ![t].job = job]
      BY <2>1
    <3>2. pc \in PosterPcs /\ job \in AJob
      BY <2>2, <2>3
    <3> HIDE DEF pc, job
    <3> QED BY <3>1, <3>2 DEF PoolTypeOK, APoster
  <2>5. UNCHANGED <<pool, work, jobsDone, waiters, worker>>
    BY <1>4 DEF Pool!Post
  <2> QED BY <1>1, <2>4, <2>5 DEF PoolTypeOK
<1>5. ASSUME NEW t \in Posters, Pool!Wait(t) PROVE PoolTypeOK'
  <2>1. PICK want \in SUBSET Pool!Known :
          poster' = [poster EXCEPT ![t].pc = "wait", ![t].want = want]
    BY <1>5 DEF Pool!Wait
  <2>2. want \in SUBSET Nat
    BY LiveType
  <2>3. poster' \in [Posters -> APoster]
    BY <2>1, <2>2 DEF PoolTypeOK, APoster
  <2> QED BY <1>1, <1>5, <2>3 DEF PoolTypeOK, Pool!Wait
<1>6. ASSUME NEW t \in Posters, Pool!Cancel(t) PROVE PoolTypeOK'
  <2>1. work' = work \/ \E i \in DOMAIN work : work' = Pool!RemoveAt(work, i)
    BY <1>6 DEF Pool!Cancel
  <2>2. work \in Seq(AJob) /\ DOMAIN work = 1..Len(work)
    BY DEF PoolTypeOK
  <2>3. work' \in Seq(AJob)
    BY <2>1, <2>2, RemoveAtFacts
  <2> QED BY <1>1, <1>6, <2>3 DEF PoolTypeOK, Pool!Cancel
<1>7. ASSUME NEW t \in Posters, Pool!GetDone(t) PROVE PoolTypeOK'
  BY <1>1, <1>7 DEF PoolTypeOK, Pool!GetDone
<1>8. ASSUME NEW t \in Posters, Pool!Preserve(t) PROVE PoolTypeOK'
  BY <1>1, <1>8, <1>j DEF PoolTypeOK, APool, Pool!Preserve
<1>9. ASSUME NEW t \in Posters, Pool!Release(t) PROVE PoolTypeOK'
  <2> DEFINE last == pool.refs - 1 <= 0
  <2>1. /\ pool' = [pool EXCEPT !.refs = @ - 1, !.tear = last,
                                !.state = IF last THEN "unlisted" ELSE @]
        /\ Pool!At(t, IF last THEN "reap" ELSE "script")
        /\ UNCHANGED <<work, jobsDone, waiters, worker>>
    BY <1>9 DEF Pool!Release
  <2>2. last \in BOOLEAN
    OBVIOUS
  <2>3. poster' \in [Posters -> APoster]
    <3>1. (IF last THEN "reap" ELSE "script") \in PosterPcs
      OBVIOUS
    <3> QED BY <2>1, <3>1, AtFacts
  <2>4. pool' \in APool
    BY <1>j, <2>1, <2>2 DEF PoolTypeOK, APool
  <2> QED BY <1>1, <2>1, <2>3, <2>4 DEF PoolTypeOK
<1>10. ASSUME NEW t \in Posters, Pool!Resume(t) PROVE PoolTypeOK'
  <2> DEFINE pc == [posting |-> "post", nowaiting |-> "push", waiting |-> "wait",
                    reaping |-> "reap"][poster[t].pc]
  <2>1. /\ poster[t].pc \in {"posting", "nowaiting", "waiting", "reaping"}
        /\ poster' = [poster EXCEPT ![t].stops = @ - 1, ![t].pc = pc]
        /\ UNCHANGED <<pool, work, jobsDone, waiters, worker>>
    BY <1>10 DEF Pool!Resume
  <2>2. pc \in {"post", "push", "wait", "reap"}
    BY <2>1
  <2>3. pc \in PosterPcs
    BY <2>2
  <2>4. poster[t].stops - 1 \in Int
    <3>1. poster[t].stops \in Int
      BY DEF PoolTypeOK, APoster
    <3> QED BY <3>1
  <2>5. poster' \in [Posters -> APoster]
    <3> HIDE DEF pc
    <3> QED BY <2>1, <2>3, <2>4 DEF PoolTypeOK, APoster
  <2> QED BY <1>1, <2>1, <2>5 DEF PoolTypeOK
<1>11. ASSUME NEW t \in Posters, Pool!PostWaits(t) PROVE PoolTypeOK'
  <2>1. waiters' = Append(waiters, t) /\ UNCHANGED <<pool, work, jobsDone>>
    BY <1>11 DEF Pool!PostWaits
  <2>2. Pool!Spawn(t, "starting") \/ (Pool!At(t, "posting") /\ UNCHANGED worker)
    BY <1>11 DEF Pool!PostWaits
  <2>3. poster' \in [Posters -> APoster] /\ worker' \in [Workers -> AWorker]
    <3>1. CASE Pool!Spawn(t, "starting")
      BY <3>1, SpawnFacts
    <3>2. CASE Pool!At(t, "posting") /\ UNCHANGED worker
      BY <3>2, AtFacts DEF PoolTypeOK
    <3> QED BY <2>2, <3>1, <3>2
  <2> QED BY <1>1, <2>1, <2>3 DEF PoolTypeOK
<1>12. ASSUME NEW t \in Posters, Pool!NowaitStarts(t) PROVE PoolTypeOK'
  <2>1. waiters' = Append(waiters, t) /\ UNCHANGED <<pool, work, jobsDone>>
    BY <1>12 DEF Pool!NowaitStarts
  <2>2. Pool!Spawn(t, "startnow")
    BY <1>12 DEF Pool!NowaitStarts
  <2>3. poster' \in [Posters -> APoster] /\ worker' \in [Workers -> AWorker]
    BY <2>2, SpawnFacts
  <2> QED BY <1>1, <2>1, <2>3 DEF PoolTypeOK
<1>13. ASSUME NEW t \in Posters, Pool!Push(t) PROVE PoolTypeOK'
  <2>1. /\ pool' = [pool EXCEPT !.jobs = @ + 1]
        /\ work' = Append(work, [poster[t].job EXCEPT !.n = pool.jobs + 1])
        /\ poster' = [poster EXCEPT ![t].pc = "script", ![t].job = Pool!NoJob]
        /\ UNCHANGED <<jobsDone, waiters, worker>>
    BY <1>13 DEF Pool!Push
  <2>2. [poster[t].job EXCEPT !.n = pool.jobs + 1] \in AJob
    <3>1. poster[t].job \in AJob
      BY DEF PoolTypeOK, APoster
    <3> QED BY <1>j, <3>1 DEF AJob
  <2>3. work' \in Seq(AJob)
    BY <2>1, <2>2 DEF PoolTypeOK
  <2>4. poster' \in [Posters -> APoster]
    BY <1>0, <2>1 DEF PoolTypeOK, APoster
  <2>5. pool' \in APool
    BY <1>j, <2>1 DEF PoolTypeOK, APool
  <2> QED BY <1>1, <2>1, <2>3, <2>4, <2>5 DEF PoolTypeOK
<1>14. ASSUME NEW t \in Posters, Pool!WaitLooks(t) PROVE PoolTypeOK'
  <2>1. UNCHANGED <<pool, work, jobsDone, worker>>
    BY <1>14 DEF Pool!WaitLooks
  <2>2. \/ /\ poster' = [poster EXCEPT ![t].pc = "script", ![t].want = {}]
           /\ UNCHANGED waiters
        \/ Pool!Park(t, "waiting")
    BY <1>14 DEF Pool!WaitLooks
  <2>3. poster' \in [Posters -> APoster] /\ waiters' \in Seq(Posters)
    <3>1. CASE Pool!Park(t, "waiting")
      BY <3>1, ParkFacts
    <3>2. CASE poster' = [poster EXCEPT ![t].pc = "script", ![t].want = {}] /\ UNCHANGED waiters
      BY <3>2 DEF PoolTypeOK, APoster
    <3> QED BY <2>2, <3>1, <3>2
  <2> QED BY <1>1, <2>1, <2>3 DEF PoolTypeOK
<1>15. ASSUME NEW t \in Posters, Pool!Reap(t) PROVE PoolTypeOK'
  <2>1. UNCHANGED worker
    BY <1>15 DEF Pool!Reap
  <2>2. CASE pool.num > 0
    <3>1. Pool!Park(t, "reaping") /\ UNCHANGED <<pool, work, jobsDone>>
      BY <1>15, <2>2 DEF Pool!Reap
    <3>2. poster' \in [Posters -> APoster] /\ waiters' \in Seq(Posters)
      BY <3>1, ParkFacts
    <3> QED BY <1>1, <2>1, <3>1, <3>2 DEF PoolTypeOK
  <2>3. CASE ~(pool.num > 0)
    <3>1. /\ pool' = [pool EXCEPT !.state = "freed"]
          /\ work' = <<>> /\ jobsDone' = {}
          /\ Pool!At(t, "script") /\ UNCHANGED waiters
      BY <1>15, <2>3 DEF Pool!Reap
    <3>2. poster' \in [Posters -> APoster]
      BY <3>1, AtFacts
    <3>3. pool' \in APool
      BY <3>1 DEF PoolTypeOK, APool
    <3> QED BY <1>1, <2>1, <3>1, <3>2, <3>3 DEF PoolTypeOK
  <2> QED BY <2>2, <2>3
<1>16. ASSUME NEW w \in Workers, Pool!Start(w) PROVE PoolTypeOK'
  <2>1. /\ worker' \in [Workers -> AWorker] /\ poster' \in [Posters -> APoster]
        /\ UNCHANGED <<work, jobsDone, waiters, plan>>
        /\ \/ pool' = [pool EXCEPT !.num = @ + 1] \/ pool' = [pool EXCEPT !.state = "freed"]
           \/ pool' = pool
    BY <1>16, StartFacts
  <2>2. pool' \in APool
    BY <1>j, <2>1 DEF PoolTypeOK, APool
  <2> QED BY <2>1, <2>2 DEF PoolTypeOK
<1>17. ASSUME NEW w \in Workers, Pool!Begin(w) PROVE PoolTypeOK'
  BY <1>1, <1>17, SettleFacts DEF PoolTypeOK, Pool!Begin
<1>18. ASSUME NEW w \in Workers, Pool!Awake(w) PROVE PoolTypeOK'
  <2>1. /\ pool' = [pool EXCEPT !.idle = @ - 1]
        /\ UNCHANGED <<jobsDone, waiters, poster>>
    BY <1>18 DEF Pool!Awake
  <2>2. pool' \in APool
    BY <1>j, <2>1 DEF PoolTypeOK, APool
  <2>3. CASE pool.tear
    <3>1. worker' = [worker EXCEPT ![w].pc = "leave"] /\ UNCHANGED work
      BY <1>18, <2>3 DEF Pool!Awake
    <3>2. worker' \in [Workers -> AWorker]
      BY <3>1 DEF PoolTypeOK, AWorker, WorkerPcs
    <3> QED BY <1>1, <2>1, <2>2, <3>1, <3>2 DEF PoolTypeOK
  <2>4. CASE ~pool.tear
    <3>1. /\ work # <<>> /\ work' = Tail(work)
          /\ worker' = [worker EXCEPT ![w] = [pc |-> "eval", job |-> Head(work)]]
      BY <1>18, <2>4 DEF Pool!Awake
    <3>2. Head(work) \in AJob /\ Tail(work) \in Seq(AJob)
      BY <3>1 DEF PoolTypeOK
    <3>3. worker' \in [Workers -> AWorker]
      BY <3>1, <3>2 DEF PoolTypeOK, AWorker, WorkerPcs
    <3> QED BY <1>1, <2>1, <2>2, <3>1, <3>2, <3>3 DEF PoolTypeOK
  <2> QED BY <2>3, <2>4
<1>19. ASSUME NEW w \in Workers, Pool!Finish(w) PROVE PoolTypeOK'
  <2>1. worker[w].job \in AJob
    BY DEF PoolTypeOK, AWorker
  <2>2. jobsDone' \in SUBSET AJob
    BY <1>19, <2>1 DEF PoolTypeOK, Pool!Finish
  <2>3. Pool!Settle(w)
    BY <1>19 DEF Pool!Finish
  <2> QED BY <1>1, <2>2, <2>3, SettleFacts DEF PoolTypeOK
<1>20. ASSUME NEW w \in Workers, Pool!Leave(w) PROVE PoolTypeOK'
  <2>1. /\ pool' = [pool EXCEPT !.num = @ - 1] /\ Pool!SignalWaiter
        /\ worker' = [worker EXCEPT ![w].pc = "none"] /\ UNCHANGED <<work, jobsDone>>
    BY <1>20 DEF Pool!Leave
  <2>2. pool' \in APool
    BY <1>j, <2>1 DEF PoolTypeOK, APool
  <2>3. worker' \in [Workers -> AWorker]
    BY <2>1 DEF PoolTypeOK, AWorker, WorkerPcs
  <2>4. poster' \in [Posters -> APoster] /\ waiters' \in Seq(Posters)
    BY <2>1, SignalFacts
  <2> QED BY <1>1, <2>1, <2>2, <2>3, <2>4 DEF PoolTypeOK
<1>21. ASSUME NEW w \in Workers, Pool!TimeOut(w) PROVE PoolTypeOK'
  <2>1. /\ pool' = [pool EXCEPT !.idle = @ - 1]
        /\ worker' = [worker EXCEPT ![w].pc = "leave"]
        /\ UNCHANGED <<work, jobsDone, waiters, poster>>
    BY <1>21 DEF Pool!TimeOut
  <2>2. pool' \in APool
    BY <1>j, <2>1 DEF PoolTypeOK, APool
  <2>3. worker' \in [Workers -> AWorker]
    BY <2>1 DEF PoolTypeOK, AWorker, WorkerPcs
  <2> QED BY <1>1, <2>1, <2>2, <2>3 DEF PoolTypeOK
<1> QED
  BY <1>2, <1>3, <1>4, <1>5, <1>6, <1>7, <1>8, <1>9, <1>10, <1>11, <1>12, <1>13, <1>14, <1>15,
     <1>16, <1>17, <1>18, <1>19, <1>20, <1>21
     DEF Pool!Next, Pool!Command, Pool!Poster, Pool!Worker

-----------------------------------------------------------------------------
(* The phases *)

\* What a thread is at tells the state of the pool.
LEMMA PhaseOf ==
    ASSUME PoolTypeOK, PhaseInv, NEW t \in Posters
    PROVE  /\ poster[t].pc \in Busy \cup {"starting", "startnow"} => pool.state = "listed"
           /\ Creates(t) => pool.state = "made" /\ Sole(t)
           /\ Reaps(t) => pool.state = "unlisted" /\ Sole(t)
<1>1. pool.state \in {"none", "made", "listed", "unlisted", "freed"}
  BY DEF PoolTypeOK, APool
<1>2. pool.state = "none" => poster[t].pc = "script"
  BY DEF PhaseInv, WhileNone
<1>3. pool.state = "freed" => poster[t].pc = "script"
  BY DEF PhaseInv, WhenFreed
<1>4. pool.state = "made" => poster[t].pc = "script" \/ (Creates(t) /\ Sole(t))
  BY DEF PhaseInv, WhileMade, Sole
<1>5. pool.state = "unlisted" => poster[t].pc = "script" \/ (Reaps(t) /\ Sole(t))
  BY DEF PhaseInv, WhileUnlisted, Sole
<1>6. pool.state = "listed" => ~Creates(t) /\ ~Reaps(t)
  BY DEF PhaseInv, WhileListed
<1> QED BY <1>1, <1>2, <1>3, <1>4, <1>5, <1>6 DEF Creates, Reaps, Busy

\* The count is kept by a step that starts and ends no worker.
LEMMA CountKept ==
    ASSUME Counted, pool'.num = pool.num,
           \A w \in Workers : worker'[w].pc \in AlivePcs <=> worker[w].pc \in AlivePcs
    PROVE  Counted'
<1>1. Alive' = Alive
  BY DEF Alive
<1> QED BY <1>1 DEF Counted

\* Steps that neither start a worker nor end one, and change no phase.
LEMMA QuietKeeps ==
    ASSUME PoolTypeOK, PoolTypeOK', PhaseInv, plan' = plan,
           pool'.state = pool.state, pool'.num = pool.num, pool'.made = pool.made,
           \A w \in Workers : /\ worker'[w].pc \in AlivePcs <=> worker[w].pc \in AlivePcs
                              /\ worker'[w].pc = "start" <=> worker[w].pc = "start",
           \A t \in Posters :
               \/ poster'[t].pc = poster[t].pc
               \/ /\ pool.state = "listed" /\ t \in plan.posters
                  /\ poster[t].pc \in Busy \cup {"script"} /\ poster'[t].pc \in Busy \cup {"script"}
               \/ Reaps(t) /\ Reaps(t)'
    PROVE  PhaseInv'
<1>0. pool.state \in {"none", "made", "listed", "unlisted", "freed"}
  BY DEF PoolTypeOK, APool
<1>1. \A t \in Posters :
        /\ Starts(t)' <=> Starts(t)
        /\ Creates(t)' <=> Creates(t)
        /\ Reaps(t)' <=> Reaps(t)
        /\ pool.state # "listed" => (poster'[t].pc = "script" <=> poster[t].pc = "script")
        /\ poster'[t].pc = "creating" <=> poster[t].pc = "creating"
  BY DEF Starts, Creates, Reaps, Busy
<1>2. Counted'
  BY CountKept DEF PhaseInv
<1>3. OneStarts'
  BY <1>1 DEF PhaseInv, OneStarts
<1>4. UsersOnly'
  BY DEF PhaseInv, UsersOnly, Reaps
<1>5. \A w \in Workers : worker'[w].pc = "none" <=> worker[w].pc = "none"
  <2>1. \A w \in Workers : worker[w].pc \in WorkerPcs /\ worker'[w].pc \in WorkerPcs
    BY DEF PoolTypeOK, AWorker
  <2> QED BY <2>1 DEF AlivePcs, WorkerPcs
<1>6. WhileNone'
  BY <1>1, <1>5 DEF PhaseInv, WhileNone
<1>7. WhileMade'
  <2>1. pool.state = "made" => \A t \in Posters : Sole(t) => Sole(t)'
    BY <1>1 DEF Sole
  <2> QED BY <1>1, <2>1 DEF PhaseInv, WhileMade
<1>8. WhileListed'
  BY <1>1 DEF PhaseInv, WhileListed
<1>9. WhileUnlisted'
  <2>1. pool.state = "unlisted" => \A t \in Posters : Sole(t) => Sole(t)'
    BY <1>1 DEF Sole
  <2> QED BY <1>1, <2>1 DEF PhaseInv, WhileUnlisted
<1>10. WhenFreed'
  BY <1>1, <1>5 DEF PhaseInv, WhenFreed
<1> QED BY <1>2, <1>3, <1>4, <1>6, <1>7, <1>8, <1>9, <1>10 DEF PhaseInv

\* A thread starts a worker, which nobody does yet.
LEMMA SpawnKeeps ==
    ASSUME PoolTypeOK, PoolTypeOK', PhaseInv, plan' = plan, NEW t \in Posters, NEW pc \in PosterPcs,
           Pool!Spawn(t, pc), pool'.state = pool.state, pool'.num = pool.num,
           \A u \in Posters : ~Starts(u),
           \/ /\ poster[t].pc = "create" /\ pc = "creating" /\ pool.made < plan.min
              /\ pool'.made = pool.made + 1
           \/ /\ poster[t].pc \in {"post", "nowait"} /\ pc \in {"starting", "startnow"}
              /\ pool'.made = pool.made
    PROVE  PhaseInv'
<1>1. /\ poster'[t].pc = pc
      /\ \A u \in Posters \ {t} : poster'[u] = poster[u]
      /\ \E w \in Workers :
                /\ worker[w].pc = "none"
                /\ worker'[w].pc = "start" /\ worker'[w].job = worker[w].job
                /\ \A v \in Workers \ {w} : worker'[v] = worker[v]
  BY SpawnFacts
<1>2. PICK w \in Workers :
                /\ worker[w].pc = "none"
                /\ worker'[w].pc = "start" /\ worker'[w].job = worker[w].job
                /\ \A v \in Workers \ {w} : worker'[v] = worker[v]
  BY <1>1
<1>3. \A v \in Workers : worker[v].pc # "start"
  BY DEF PhaseInv, OneStarts
<1>4. Counted'
  <2>1. \A v \in Workers : worker'[v].pc \in AlivePcs <=> worker[v].pc \in AlivePcs
    BY <1>2 DEF AlivePcs
  <2> QED BY <2>1, CountKept DEF PhaseInv
<1>5. \A u \in Posters \ {t} : ~Starts(u)' /\ (Creates(u)' <=> Creates(u)) /\ (Reaps(u)' <=> Reaps(u))
  BY <1>1 DEF Starts, Creates, Reaps
<1>6. OneStarts'
  <2>1. \A v \in Workers \ {w} : worker'[v].pc # "start"
    BY <1>2, <1>3
  <2>2. Starts(t)'
    BY <1>1 DEF Starts
  <2> QED BY <1>5, <2>1, <2>2 DEF OneStarts
<1>7. UsersOnly'
  BY <1>1 DEF PhaseInv, UsersOnly
<1>8. Sole(t) => Sole(t)'
  BY <1>1 DEF Sole
<1>9. CASE /\ poster[t].pc = "create" /\ pc = "creating" /\ pool.made < plan.min
           /\ pool'.made = pool.made + 1
  <2>1. pool.state = "made" /\ Sole(t)
    BY <1>9, PhaseOf DEF Creates
  <2>2. pool.num <= pool.made
    BY <2>1 DEF PhaseInv, WhileMade
  <2>3. pool'.num < pool'.made /\ pool'.num <= pool'.made /\ pool'.made <= plan'.min
    <3>1. pool.num \in Int /\ pool.made \in Nat /\ plan.min \in Nat
      BY PoolAssumption DEF PoolTypeOK, APool, Pool!PoolAssumption
    <3> QED BY <1>9, <2>2, <3>1
  <2>4. Creates(t)'
    BY <1>1, <1>9 DEF Creates
  <2>5. WhileMade'
    BY <1>8, <2>1, <2>3, <2>4 DEF WhileMade
  <2> QED BY <1>4, <1>6, <1>7, <2>1, <2>5
          DEF PhaseInv, WhileNone, WhileListed, WhileUnlisted, WhenFreed
<1>10. CASE /\ poster[t].pc \in {"post", "nowait"} /\ pc \in {"starting", "startnow"}
            /\ pool'.made = pool.made
  <2>1. pool.state = "listed"
    BY <1>10, PhaseOf DEF Busy
  <2>2. ~Creates(t)' /\ ~Reaps(t)'
    BY <1>1, <1>10 DEF Creates, Reaps
  <2>3. WhileListed'
    BY <1>5, <2>1, <2>2 DEF PhaseInv, WhileListed
  <2> QED BY <1>4, <1>6, <1>7, <2>1, <2>3
          DEF PhaseInv, WhileNone, WhileMade, WhileUnlisted, WhenFreed
<1> QED BY <1>9, <1>10

\* A worker's init script has run.
LEMMA StartKeeps ==
    ASSUME UsedAlone, PoolTypeOK, PoolTypeOK', PhaseInv, NEW w \in Workers, Pool!Start(w)
    PROVE  PhaseInv'
<1>1. PICK t \in Posters :
             /\ Starts(t) /\ worker[w].pc = "start"
             /\ worker' \in [Workers -> AWorker] /\ poster' \in [Posters -> APoster]
             /\ \A v \in Workers \ {w} : worker'[v] = worker[v]
             /\ \A u \in Posters \ {t} : poster'[u] = poster[u]
             /\ worker'[w].job = worker[w].job
             /\ UNCHANGED <<work, jobsDone, waiters, plan>>
             /\ \/ /\ worker'[w].pc = "idle" /\ pool' = [pool EXCEPT !.num = @ + 1]
                   /\ \/ poster[t].pc = "creating" /\ poster'[t].pc = "create"
                      \/ poster[t].pc = "starting" /\ poster'[t].pc = "posting"
                      \/ poster[t].pc = "startnow" /\ poster'[t].pc = "nowaiting"
                \/ /\ worker'[w].pc = "none" /\ plan.fails
                   /\ poster'[t].pc = "script"
                   /\ \/ /\ poster[t].pc = "creating"
                         /\ pool' = [pool EXCEPT !.state = "freed"]
                      \/ poster[t].pc # "creating" /\ pool' = pool
  BY StartFacts DEF PhaseInv
<1>2. /\ \A v \in Workers : worker'[v].pc # "start"
      /\ \A u \in Posters : ~Starts(u)'
  BY <1>1 DEF PhaseInv, OneStarts, Starts
<1>3. OneStarts'
  BY <1>2 DEF OneStarts
<1>4. UsersOnly'
  BY <1>1 DEF PhaseInv, UsersOnly, Starts
<1>5. pool.num \in Int /\ pool.made \in Nat /\ plan.min \in Nat
  BY PoolAssumption DEF PoolTypeOK, APool, Pool!PoolAssumption
<1>6. w \notin Alive
  BY <1>1 DEF Alive, AlivePcs
<1>7. Sole(t) => Sole(t)'
  BY <1>1 DEF Sole
<1>8. CASE /\ worker'[w].pc = "idle" /\ pool' = [pool EXCEPT !.num = @ + 1]
           /\ \/ poster[t].pc = "creating" /\ poster'[t].pc = "create"
              \/ poster[t].pc = "starting" /\ poster'[t].pc = "posting"
              \/ poster[t].pc = "startnow" /\ poster'[t].pc = "nowaiting"
  <2>1. pool'.state = pool.state /\ pool'.made = pool.made /\ pool'.num = pool.num + 1
    BY <1>8 DEF PoolTypeOK, APool
  <2>2. Counted'
    <3>1. Alive' = Alive \cup {w}
      BY <1>1, <1>8 DEF Alive, AlivePcs
    <3>2. IsFiniteSet(Alive) /\ pool.num = Cardinality(Alive)
      BY DEF PhaseInv, Counted
    <3> QED BY <1>6, <2>1, <3>1, <3>2, FS_AddElement DEF Counted
  <2>3. CASE poster[t].pc = "creating" /\ poster'[t].pc = "create"
    <3>1. pool.state = "made" /\ Sole(t)
      BY <2>3, PhaseOf DEF Creates
    <3>2. pool.num < pool.made /\ pool.made <= plan.min
      BY <2>3, <3>1 DEF PhaseInv, WhileMade
    <3>3. pool'.made <= plan'.min /\ pool'.num <= pool'.made
      BY <1>1, <1>5, <2>1, <3>2
    <3>4. Creates(t)'
      BY <2>3 DEF Creates
    <3>5. \A u \in Posters : poster'[u].pc # "creating"
      BY <1>2 DEF Starts
    <3>6. WhileMade'
      BY <1>7, <3>1, <3>3, <3>4, <3>5 DEF WhileMade
    <3> QED BY <1>3, <1>4, <2>1, <2>2, <3>1, <3>6
            DEF PhaseInv, WhileNone, WhileListed, WhileUnlisted, WhenFreed
  <2>4. CASE poster[t].pc \in {"starting", "startnow"}
    <3>1. pool.state = "listed"
      BY <2>4, PhaseOf
    <3>2. \A u \in Posters : ~Creates(u) /\ ~Reaps(u)
      BY <3>1 DEF PhaseInv, WhileListed
    <3>3. \A u \in Posters : ~Creates(u)' /\ ~Reaps(u)'
      BY <1>1, <1>8, <2>4, <3>2 DEF Creates, Reaps
    <3> QED BY <1>3, <1>4, <2>1, <2>2, <3>1, <3>3
            DEF PhaseInv, WhileNone, WhileMade, WhileListed, WhileUnlisted, WhenFreed
  <2> QED BY <1>8, <2>3, <2>4
<1>9. CASE /\ worker'[w].pc = "none" /\ plan.fails
           /\ poster'[t].pc = "script"
           /\ \/ /\ poster[t].pc = "creating"
                 /\ pool' = [pool EXCEPT !.state = "freed"]
              \/ poster[t].pc # "creating" /\ pool' = pool
  <2>1. pool'.made = pool.made /\ pool'.num = pool.num
    BY <1>9 DEF PoolTypeOK, APool
  <2>2. Counted'
    <3>1. \A v \in Workers : worker'[v].pc \in AlivePcs <=> worker[v].pc \in AlivePcs
      BY <1>1, <1>9 DEF AlivePcs
    <3> QED BY <2>1, <3>1, CountKept DEF PhaseInv
  <2>3. CASE poster[t].pc = "creating" /\ pool' = [pool EXCEPT !.state = "freed"]
    <3>1. pool.state = "made" /\ Sole(t)
      BY <2>3, PhaseOf DEF Creates
    <3>2. pool.num < pool.made /\ pool.made <= plan.min
      BY <2>3, <3>1 DEF PhaseInv, WhileMade
    <3>3. plan.min <= 1
      BY <1>9 DEF UsedAlone, PoolTypeOK
    <3>4. IsFiniteSet(Alive) /\ pool.num = Cardinality(Alive)
      BY DEF PhaseInv, Counted
    <3>5. Cardinality(Alive) \in Nat
      BY <3>4, FS_CardinalityType
    <3>6. Cardinality(Alive) = 0
      BY <1>5, <3>2, <3>3, <3>4, <3>5
    <3>7. Alive = {}
      BY <3>4, <3>6, FS_EmptySet
    <3>8. \A v \in Workers : worker'[v].pc = "none"
      <4>1. ASSUME NEW v \in Workers PROVE worker'[v].pc = "none"
        <5>1. worker'[v].pc \in WorkerPcs
          BY DEF PoolTypeOK, AWorker
        <5>2. v = w \/ (v # w /\ worker'[v] = worker[v])
          BY <1>1
        <5>3. v # w => worker[v].pc \notin AlivePcs
          BY <3>7 DEF Alive
        <5> QED BY <1>2, <1>9, <5>1, <5>2, <5>3 DEF WorkerPcs, AlivePcs
      <4> QED BY <4>1
    <3>9. \A u \in Posters : poster'[u].pc = "script"
      BY <1>1, <1>9, <3>1 DEF Sole
    <3>10. pool'.state = "freed"
      BY <2>3 DEF PoolTypeOK, APool
    <3> QED BY <1>3, <1>4, <2>2, <3>8, <3>9, <3>10
            DEF PhaseInv, WhileNone, WhileMade, WhileListed, WhileUnlisted, WhenFreed
  <2>4. CASE poster[t].pc # "creating" /\ pool' = pool
    <3>1. pool.state = "listed"
      BY <1>1, <2>4, PhaseOf DEF Starts
    <3>2. \A u \in Posters : ~Creates(u) /\ ~Reaps(u)
      BY <3>1 DEF PhaseInv, WhileListed
    <3>3. \A u \in Posters : ~Creates(u)' /\ ~Reaps(u)'
      BY <1>1, <1>9, <3>2 DEF Creates, Reaps
    <3> QED BY <1>3, <1>4, <2>2, <2>4, <3>1, <3>3
            DEF PhaseInv, WhileNone, WhileMade, WhileListed, WhileUnlisted, WhenFreed
  <2> QED BY <1>9, <2>3, <2>4
<1> QED BY <1>1, <1>8, <1>9

\* A worker leaves.
LEMMA LeaveKeeps ==
    ASSUME PoolTypeOK, PoolTypeOK', PhaseInv, NEW w \in Workers, Pool!Leave(w)
    PROVE  PhaseInv'
<1>1. /\ worker[w].pc = "leave" /\ pool' = [pool EXCEPT !.num = @ - 1] /\ Pool!SignalWaiter
      /\ worker' = [worker EXCEPT ![w].pc = "none"] /\ plan' = plan
  BY DEF Pool!Leave
<1>2. \A u \in Posters : poster'[u].pc = poster[u].pc
  BY <1>1, SignalFacts
<1>3. worker'[w].pc = "none" /\ \A v \in Workers \ {w} : worker'[v] = worker[v]
  BY <1>1 DEF PoolTypeOK, AWorker
<1>4. pool'.state = pool.state /\ pool'.made = pool.made /\ pool'.num = pool.num - 1
  BY <1>1 DEF PoolTypeOK, APool
<1>5. pool.num \in Int /\ pool.made \in Nat
  BY DEF PoolTypeOK, APool
<1>6. Counted'
  <2>1. Alive' = Alive \ {w} /\ w \in Alive
    BY <1>1, <1>3 DEF Alive, AlivePcs
  <2>2. IsFiniteSet(Alive) /\ pool.num = Cardinality(Alive)
    BY DEF PhaseInv, Counted
  <2> QED BY <1>4, <2>1, <2>2, FS_RemoveElement DEF Counted
<1>7. \A u \in Posters :
        /\ Starts(u)' <=> Starts(u)
        /\ Creates(u)' <=> Creates(u)
        /\ Reaps(u)' <=> Reaps(u)
        /\ Sole(u)' <=> Sole(u)
  BY <1>2 DEF Starts, Creates, Reaps, Sole
<1>8. OneStarts'
  <2>1. \A v \in Workers : worker'[v].pc = "start" => worker[v].pc = "start"
    BY <1>1, <1>3
  <2> QED BY <1>7, <2>1 DEF PhaseInv, OneStarts
<1>9. UsersOnly'
  BY <1>1, <1>2 DEF PhaseInv, UsersOnly
<1>10. pool.state \notin {"none", "freed"}
  BY <1>1 DEF PhaseInv, WhileNone, WhenFreed
<1>11. WhileMade'
  <2>1. SUFFICES ASSUME pool.state = "made" PROVE WhileMade'
    BY <1>4 DEF WhileMade
  <2>2. /\ \E t \in Posters : Creates(t) /\ Sole(t)
        /\ pool.made <= plan.min /\ pool.num <= pool.made
        /\ (\E t \in Posters : poster[t].pc = "creating") => pool.num < pool.made
    BY <2>1 DEF PhaseInv, WhileMade
  <2>3. pool'.num <= pool'.made /\ pool'.num < pool'.made
    BY <1>4, <1>5, <2>2
  <2> QED BY <1>1, <1>2, <1>4, <1>7, <2>2, <2>3 DEF WhileMade
<1>12. WhileListed' /\ WhileUnlisted'
  BY <1>4, <1>7 DEF PhaseInv, WhileListed, WhileUnlisted
<1> QED BY <1>4, <1>6, <1>8, <1>9, <1>10, <1>11, <1>12 DEF PhaseInv, WhileNone, WhenFreed

\* Every step keeps the phases: the first part of the invariant is inductive.
LEMMA PhaseStep ==
    ASSUME UsedAlone, PoolTypeOK, PoolTypeOK', PhaseInv, Pool!Next
    PROVE  PhaseInv'
<1> USE PosterPcsType
<1>1. plan' = plan
  BY ZenonT(60) DEF Pool!Next, Pool!Command, Pool!Poster, Pool!Worker, Pool!Create, Pool!Post, Pool!Wait,
         Pool!Cancel, Pool!GetDone, Pool!Preserve, Pool!Release, Pool!Finds, Pool!Uses,
         Pool!Resume, Pool!CreateNext, Pool!PostWaits, Pool!NowaitStarts, Pool!Push,
         Pool!WaitLooks, Pool!Reap, Pool!Start, Pool!Begin, Pool!Awake, Pool!Finish, Pool!Leave,
         Pool!TimeOut
<1>n. pool.num \in Int /\ pool.made \in Nat /\ plan.min \in Nat
  BY PoolAssumption DEF PoolTypeOK, APool, Pool!PoolAssumption
<1>2. ASSUME NEW t \in Posters, Pool!Create(t) PROVE PhaseInv'
  <2>1. /\ pool' = [pool EXCEPT !.state = "made"] /\ Pool!At(t, "create")
        /\ pool.state = "none" /\ UNCHANGED worker /\ t \in plan.posters
    BY <1>2 DEF Pool!Create, Pool!Uses
  <2>2. poster'[t].pc = "create" /\ \A u \in Posters \ {t} : poster'[u] = poster[u]
    BY <2>1, AtFacts
  <2>3. pool'.state = "made" /\ pool'.num = pool.num /\ pool'.made = pool.made
    BY <2>1 DEF PoolTypeOK, APool
  <2>4. /\ \A u \in Posters : poster[u].pc = "script"
        /\ \A w \in Workers : worker[w].pc = "none"
        /\ pool.made = 0
    BY <2>1 DEF PhaseInv, WhileNone
  <2>5. Counted'
    BY <2>1, <2>3, CountKept DEF PhaseInv
  <2>6. Alive = {}
    BY <2>4 DEF Alive, AlivePcs
  <2>7. pool.num = 0
    BY <2>6, FS_EmptySet DEF PhaseInv, Counted
  <2>8. Creates(t)' /\ Sole(t)' /\ \A u \in Posters : ~Starts(u)' /\ poster'[u].pc # "creating"
    BY <2>2, <2>4 DEF Creates, Sole, Starts
  <2>9. OneStarts'
    BY <2>1, <2>4, <2>8 DEF OneStarts
  <2>10. UsersOnly'
    BY <1>1, <2>1, <2>2 DEF PhaseInv, UsersOnly
  <2>11. WhileMade'
    BY <1>1, <1>n, <2>3, <2>4, <2>7, <2>8 DEF WhileMade
  <2> QED BY <2>3, <2>5, <2>9, <2>10, <2>11
          DEF PhaseInv, WhileNone, WhileListed, WhileUnlisted, WhenFreed
<1>3. ASSUME NEW t \in Posters, Pool!CreateNext(t) PROVE PhaseInv'
  <2>1. poster[t].pc = "create"
    BY <1>3 DEF Pool!CreateNext
  <2>2. pool.state = "made" /\ Sole(t)
    BY <2>1, PhaseOf DEF Creates
  <2>3. \A u \in Posters : ~Starts(u)
    BY <2>1, <2>2 DEF Sole, Starts
  <2>4. CASE pool.made < plan.min
    <3>1. Pool!Spawn(t, "creating") /\ pool' = [pool EXCEPT !.made = @ + 1]
      BY <1>3, <2>4 DEF Pool!CreateNext
    <3>2. pool'.state = pool.state /\ pool'.num = pool.num /\ pool'.made = pool.made + 1
      BY <3>1 DEF PoolTypeOK, APool
    <3>3. "creating" \in PosterPcs
      OBVIOUS
    <3> QED BY <1>1, <2>1, <2>3, <2>4, <3>1, <3>2, <3>3, SpawnKeeps
  <2>5. CASE ~(pool.made < plan.min)
    <3>1. Pool!At(t, "script") /\ pool' = [pool EXCEPT !.state = "listed"] /\ UNCHANGED worker
      BY <1>3, <2>5 DEF Pool!CreateNext
    <3>2. pool'.state = "listed" /\ pool'.num = pool.num
      BY <3>1 DEF PoolTypeOK, APool
    <3>3. poster'[t].pc = "script" /\ \A u \in Posters \ {t} : poster'[u] = poster[u]
      BY <3>1, AtFacts
    <3>4. \A u \in Posters : poster'[u].pc = "script"
      BY <2>2, <3>3 DEF Sole
    <3>5. Counted'
      BY <3>1, <3>2, CountKept DEF PhaseInv
    <3>6. \A u \in Posters : ~Starts(u)' /\ ~Creates(u)' /\ ~Reaps(u)'
      BY <3>4 DEF Starts, Creates, Reaps
    <3>7. OneStarts'
      BY <2>3, <3>1, <3>6 DEF PhaseInv, OneStarts
    <3>8. UsersOnly' /\ WhileListed'
      BY <3>4, <3>6 DEF UsersOnly, WhileListed
    <3> QED BY <3>2, <3>5, <3>7, <3>8 DEF PhaseInv, WhileNone, WhileMade, WhileUnlisted, WhenFreed
  <2> QED BY <2>4, <2>5
<1>4. ASSUME NEW t \in Posters, Pool!Post(t) PROVE PhaseInv'
  <2>1. /\ pool.state = "listed" /\ t \in plan.posters /\ poster[t].pc = "script"
        /\ UNCHANGED <<pool, worker>>
    BY <1>4 DEF Pool!Post, Pool!Finds, Pool!Uses
  <2>2. PICK detached, nowait \in BOOLEAN :
          poster' = [poster EXCEPT ![t].pc = IF nowait THEN "nowait" ELSE "post",
                                   ![t].job = [n |-> 0, detached |-> detached]]
    BY <1>4 DEF Pool!Post
  <2>3. poster'[t].pc \in {"post", "nowait"} /\ \A u \in Posters \ {t} : poster'[u] = poster[u]
    BY <2>2 DEF PoolTypeOK, APoster
  <2> QED BY <1>1, <2>1, <2>3, QuietKeeps DEF Busy
<1>5. ASSUME NEW t \in Posters, Pool!Wait(t) PROVE PhaseInv'
  <2>1. /\ pool.state = "listed" /\ t \in plan.posters /\ poster[t].pc = "script"
        /\ UNCHANGED <<pool, worker>>
    BY <1>5 DEF Pool!Wait, Pool!Finds, Pool!Uses
  <2>2. PICK want \in SUBSET Pool!Known :
          poster' = [poster EXCEPT ![t].pc = "wait", ![t].want = want]
    BY <1>5 DEF Pool!Wait
  <2>3. poster'[t].pc = "wait" /\ \A u \in Posters \ {t} : poster'[u] = poster[u]
    BY <2>2 DEF PoolTypeOK, APoster
  <2> QED BY <1>1, <2>1, <2>3, QuietKeeps DEF Busy
<1>6. ASSUME NEW t \in Posters, Pool!Cancel(t) PROVE PhaseInv'
  BY <1>1, <1>6, QuietKeeps DEF Pool!Cancel
<1>7. ASSUME NEW t \in Posters, Pool!GetDone(t) PROVE PhaseInv'
  BY <1>1, <1>7, QuietKeeps DEF Pool!GetDone
<1>8. ASSUME NEW t \in Posters, Pool!Preserve(t) PROVE PhaseInv'
  <2>1. pool' = [pool EXCEPT !.refs = @ + 1] /\ UNCHANGED <<poster, worker>>
    BY <1>8 DEF Pool!Preserve
  <2>2. pool'.state = pool.state /\ pool'.num = pool.num /\ pool'.made = pool.made
    BY <2>1 DEF PoolTypeOK, APool
  <2> QED BY <1>1, <2>1, <2>2, QuietKeeps
<1>9. ASSUME NEW t \in Posters, Pool!Release(t) PROVE PhaseInv'
  <2> DEFINE last == pool.refs - 1 <= 0
  <2>1. /\ pool.state = "listed" /\ t \in plan.posters /\ poster[t].pc = "script"
        /\ "release" \in plan.commands
        /\ pool' = [pool EXCEPT !.refs = @ - 1, !.tear = last,
                                !.state = IF last THEN "unlisted" ELSE @]
        /\ Pool!At(t, IF last THEN "reap" ELSE "script")
        /\ UNCHANGED <<work, jobsDone, waiters, worker>>
    BY <1>9 DEF Pool!Release, Pool!Finds, Pool!Uses
  <2>2. pool'.num = pool.num /\ pool'.made = pool.made
    BY <2>1 DEF PoolTypeOK, APool
  <2>3. CASE ~last
    <3>1. pool'.state = pool.state
      BY <2>1, <2>3 DEF PoolTypeOK, APool
    <3>2. poster'[t].pc = "script" /\ \A u \in Posters \ {t} : poster'[u] = poster[u]
      BY <2>1, <2>3, AtFacts
    <3> QED BY <1>1, <2>1, <2>2, <3>1, <3>2, QuietKeeps
  <2>4. CASE last
    <3>1. pool'.state = "unlisted"
      BY <2>1, <2>4 DEF PoolTypeOK, APool
    <3>2. poster'[t].pc = "reap" /\ \A u \in Posters \ {t} : poster'[u] = poster[u]
      BY <2>1, <2>4, AtFacts
    <3>3. \A u \in Posters \ {t} : poster[u].pc = "script"
      BY <2>1 DEF PhaseInv, UsersOnly, UsedAlone, PoolTypeOK
    <3>4. Reaps(t)' /\ Sole(t)'
      BY <3>2, <3>3 DEF Reaps, Sole
    <3>5. \A u \in Posters : ~Starts(u) /\ ~Starts(u)'
      BY <2>1, <3>2, <3>3 DEF Starts
    <3>6. OneStarts'
      BY <2>1, <3>5 DEF PhaseInv, OneStarts
    <3>7. UsersOnly'
      BY <1>1, <2>1, <3>2 DEF PhaseInv, UsersOnly
    <3>8. Counted'
      BY <2>1, <2>2, CountKept DEF PhaseInv
    <3> QED BY <3>1, <3>4, <3>6, <3>7, <3>8
            DEF PhaseInv, WhileNone, WhileMade, WhileListed, WhileUnlisted, WhenFreed
  <2> QED BY <2>3, <2>4
<1>10. ASSUME NEW t \in Posters, Pool!Resume(t) PROVE PhaseInv'
  <2> DEFINE pc == [posting |-> "post", nowaiting |-> "push", waiting |-> "wait",
                    reaping |-> "reap"][poster[t].pc]
  <2>1. /\ poster[t].pc \in {"posting", "nowaiting", "waiting", "reaping"}
        /\ poster' = [poster EXCEPT ![t].stops = @ - 1, ![t].pc = pc]
        /\ UNCHANGED <<pool, worker>>
    BY <1>10 DEF Pool!Resume
  <2>2. \/ pc \in {"post", "push", "wait"} /\ poster[t].pc \in {"posting", "nowaiting", "waiting"}
        \/ pc = "reap" /\ poster[t].pc = "reaping"
    BY <2>1
  <2>3. poster'[t].pc = pc /\ \A u \in Posters \ {t} : poster'[u] = poster[u]
    <3> HIDE DEF pc
    <3> QED BY <2>1 DEF PoolTypeOK, APoster
  <2>4. t \in plan.posters
    BY <2>1 DEF PhaseInv, UsersOnly
  <2> HIDE DEF pc
  <2>5. \/ /\ pool.state = "listed" /\ t \in plan.posters
           /\ poster[t].pc \in Busy \cup {"script"} /\ poster'[t].pc \in Busy \cup {"script"}
        \/ Reaps(t) /\ Reaps(t)'
    BY <2>2, <2>3, <2>4, PhaseOf DEF Busy, Reaps
  <2> QED BY <1>1, <2>1, <2>3, <2>5, QuietKeeps
<1>11. ASSUME NEW t \in Posters, Pool!PostWaits(t) PROVE PhaseInv'
  <2>1. poster[t].pc = "post" /\ Pool!Unlocked /\ UNCHANGED <<pool>>
    BY <1>11 DEF Pool!PostWaits
  <2>2. pool.state = "listed"
    BY <2>1, PhaseOf DEF Busy
  <2>3. \A u \in Posters : ~Starts(u)
    BY <2>1, <2>2 DEF PhaseInv, WhileListed, Creates, Starts, Pool!Unlocked
  <2>4. CASE Pool!Spawn(t, "starting")
    <3>1. "starting" \in PosterPcs
      OBVIOUS
    <3> QED BY <1>1, <2>1, <2>3, <2>4, <3>1, SpawnKeeps
  <2>5. CASE Pool!At(t, "posting") /\ UNCHANGED worker
    <3>1. poster'[t].pc = "posting" /\ \A u \in Posters \ {t} : poster'[u] = poster[u]
      BY <2>5, AtFacts
    <3>2. t \in plan.posters
      BY <2>1 DEF PhaseInv, UsersOnly
    <3> QED BY <1>1, <2>1, <2>2, <2>5, <3>1, <3>2, QuietKeeps DEF Busy
  <2>6. Pool!Spawn(t, "starting") \/ (Pool!At(t, "posting") /\ UNCHANGED worker)
    BY <1>11 DEF Pool!PostWaits
  <2> QED BY <2>4, <2>5, <2>6
<1>12. ASSUME NEW t \in Posters, Pool!NowaitStarts(t) PROVE PhaseInv'
  <2>1. poster[t].pc = "nowait" /\ Pool!Unlocked /\ Pool!Spawn(t, "startnow") /\ UNCHANGED <<pool>>
    BY <1>12 DEF Pool!NowaitStarts
  <2>2. pool.state = "listed"
    BY <2>1, PhaseOf DEF Busy
  <2>3. \A u \in Posters : ~Starts(u)
    BY <2>1, <2>2 DEF PhaseInv, WhileListed, Creates, Starts, Pool!Unlocked
  <2>4. "startnow" \in PosterPcs
    OBVIOUS
  <2> QED BY <1>1, <2>1, <2>3, <2>4, SpawnKeeps
<1>13. ASSUME NEW t \in Posters, Pool!Push(t) PROVE PhaseInv'
  <2>1. /\ pool' = [pool EXCEPT !.jobs = @ + 1]
        /\ poster' = [poster EXCEPT ![t].pc = "script", ![t].job = Pool!NoJob]
        /\ poster[t].pc \in {"push", "post", "nowait"} /\ UNCHANGED worker
    BY <1>13 DEF Pool!Push
  <2>2. pool'.state = pool.state /\ pool'.num = pool.num /\ pool'.made = pool.made
    BY <2>1 DEF PoolTypeOK, APool
  <2>3. poster'[t].pc = "script" /\ \A u \in Posters \ {t} : poster'[u] = poster[u]
    BY <2>1 DEF PoolTypeOK, APoster
  <2>4. pool.state = "listed" /\ t \in plan.posters
    BY <2>1, PhaseOf DEF Busy, PhaseInv, UsersOnly
  <2> QED BY <1>1, <2>1, <2>2, <2>3, <2>4, QuietKeeps DEF Busy
<1>14. ASSUME NEW t \in Posters, Pool!WaitLooks(t) PROVE PhaseInv'
  <2>1. poster[t].pc = "wait" /\ UNCHANGED <<pool, worker>>
    BY <1>14 DEF Pool!WaitLooks
  <2>2. \/ poster' = [poster EXCEPT ![t].pc = "script", ![t].want = {}]
        \/ Pool!Park(t, "waiting")
    BY <1>14 DEF Pool!WaitLooks
  <2>3. poster'[t].pc \in {"script", "waiting"} /\ \A u \in Posters \ {t} : poster'[u] = poster[u]
    <3>1. CASE Pool!Park(t, "waiting")
      BY <3>1, ParkFacts
    <3>2. CASE poster' = [poster EXCEPT ![t].pc = "script", ![t].want = {}]
      BY <3>2 DEF PoolTypeOK, APoster
    <3> QED BY <2>2, <3>1, <3>2
  <2>4. pool.state = "listed" /\ t \in plan.posters
    BY <2>1, PhaseOf DEF Busy, PhaseInv, UsersOnly
  <2> QED BY <1>1, <2>1, <2>3, <2>4, QuietKeeps DEF Busy
<1>15. ASSUME NEW t \in Posters, Pool!Reap(t) PROVE PhaseInv'
  <2>1. poster[t].pc = "reap" /\ UNCHANGED worker
    BY <1>15 DEF Pool!Reap
  <2>2. pool.state = "unlisted" /\ Sole(t)
    BY <2>1, PhaseOf DEF Reaps
  <2>3. CASE pool.num > 0
    <3>1. Pool!Park(t, "reaping") /\ UNCHANGED <<pool>>
      BY <1>15, <2>3 DEF Pool!Reap
    <3>2. poster'[t].pc = "reaping" /\ \A u \in Posters \ {t} : poster'[u] = poster[u]
      BY <3>1, ParkFacts
    <3>3. Reaps(t) /\ Reaps(t)'
      BY <2>1, <3>2 DEF Reaps
    <3> QED BY <1>1, <2>1, <3>1, <3>2, <3>3, QuietKeeps
  <2>4. CASE ~(pool.num > 0)
    <3>1. pool' = [pool EXCEPT !.state = "freed"] /\ Pool!At(t, "script")
      BY <1>15, <2>4 DEF Pool!Reap
    <3>2. poster'[t].pc = "script" /\ \A u \in Posters \ {t} : poster'[u] = poster[u]
      BY <3>1, AtFacts
    <3>3. pool'.state = "freed" /\ pool'.num = pool.num
      BY <3>1 DEF PoolTypeOK, APool
    <3>4. \A u \in Posters : poster'[u].pc = "script"
      BY <2>2, <3>2 DEF Sole
    <3>5. IsFiniteSet(Alive) /\ pool.num = Cardinality(Alive)
      BY DEF PhaseInv, Counted
    <3>6. Alive = {}
      <4>1. Cardinality(Alive) \in Nat
        BY <3>5, FS_CardinalityType
      <4>2. Cardinality(Alive) = 0
        BY <1>n, <2>4, <3>5, <4>1
      <4> QED BY <3>5, <4>2, FS_EmptySet
    <3>7. \A w \in Workers : worker[w].pc # "start"
      BY <2>1, <2>2 DEF PhaseInv, OneStarts, Starts, Sole
    <3>8. \A w \in Workers : worker[w].pc = "none"
      <4>1. ASSUME NEW w \in Workers PROVE worker[w].pc = "none"
        <5>1. worker[w].pc \in WorkerPcs
          BY DEF PoolTypeOK, AWorker
        <5>2. worker[w].pc \notin AlivePcs
          BY <3>6 DEF Alive
        <5> QED BY <3>7, <5>1, <5>2 DEF WorkerPcs, AlivePcs
      <4> QED BY <4>1
    <3>9. Counted'
      BY <2>1, <3>3, CountKept DEF PhaseInv
    <3>10. OneStarts'
      BY <2>1, <3>7, <3>4 DEF OneStarts, Starts
    <3>11. UsersOnly'
      BY <3>4 DEF UsersOnly
    <3> QED BY <2>1, <3>3, <3>4, <3>8, <3>9, <3>10, <3>11
            DEF PhaseInv, WhileNone, WhileMade, WhileListed, WhileUnlisted, WhenFreed
  <2> QED BY <2>3, <2>4
<1>16. ASSUME NEW w \in Workers, Pool!Start(w) PROVE PhaseInv'
  BY <1>16, StartKeeps
<1>17. ASSUME NEW w \in Workers, Pool!Settle(w), worker[w].pc \in AlivePcs PROVE PhaseInv'
  <2>1. /\ \A u \in Posters : poster'[u].pc = poster[u].pc
        /\ \A v \in Workers \ {w} : worker'[v] = worker[v]
        /\ pool'.state = pool.state /\ pool'.num = pool.num /\ pool'.made = pool.made
        /\ worker'[w].pc \in {"sleep", "leave", "eval"}
    BY <1>17, SettleFacts
  <2>2. \A v \in Workers : /\ worker'[v].pc \in AlivePcs <=> worker[v].pc \in AlivePcs
                           /\ worker'[v].pc = "start" <=> worker[v].pc = "start"
    BY <1>17, <2>1 DEF AlivePcs
  <2> QED BY <1>1, <2>1, <2>2, QuietKeeps
<1>18. ASSUME NEW w \in Workers, Pool!Begin(w) PROVE PhaseInv'
  BY <1>17, <1>18 DEF Pool!Begin, AlivePcs
<1>19. ASSUME NEW w \in Workers, Pool!Finish(w) PROVE PhaseInv'
  BY <1>17, <1>19 DEF Pool!Finish, AlivePcs
<1>20. ASSUME NEW w \in Workers, Pool!Awake(w) PROVE PhaseInv'
  <2>1. /\ worker[w].pc = "sleep" /\ pool' = [pool EXCEPT !.idle = @ - 1] /\ UNCHANGED <<poster>>
    BY <1>20 DEF Pool!Awake
  <2>2. \/ worker' = [worker EXCEPT ![w].pc = "leave"]
        \/ worker' = [worker EXCEPT ![w] = [pc |-> "eval", job |-> Head(work)]]
    BY <1>20 DEF Pool!Awake
  <2>3. worker'[w].pc \in {"leave", "eval"} /\ \A v \in Workers \ {w} : worker'[v] = worker[v]
    BY <2>2 DEF PoolTypeOK, AWorker
  <2>4. pool'.state = pool.state /\ pool'.num = pool.num /\ pool'.made = pool.made
    BY <2>1 DEF PoolTypeOK, APool
  <2>5. \A v \in Workers : /\ worker'[v].pc \in AlivePcs <=> worker[v].pc \in AlivePcs
                           /\ worker'[v].pc = "start" <=> worker[v].pc = "start"
    BY <2>1, <2>3 DEF AlivePcs
  <2> QED BY <1>1, <2>1, <2>4, <2>5, QuietKeeps
<1>21. ASSUME NEW w \in Workers, Pool!TimeOut(w) PROVE PhaseInv'
  <2>1. /\ worker[w].pc = "sleep" /\ pool' = [pool EXCEPT !.idle = @ - 1] /\ UNCHANGED <<poster>>
        /\ worker' = [worker EXCEPT ![w].pc = "leave"]
    BY <1>21 DEF Pool!TimeOut
  <2>3. worker'[w].pc \in {"leave", "eval"} /\ \A v \in Workers \ {w} : worker'[v] = worker[v]
    BY <2>1 DEF PoolTypeOK, AWorker
  <2>4. pool'.state = pool.state /\ pool'.num = pool.num /\ pool'.made = pool.made
    BY <2>1 DEF PoolTypeOK, APool
  <2>5. \A v \in Workers : /\ worker'[v].pc \in AlivePcs <=> worker[v].pc \in AlivePcs
                           /\ worker'[v].pc = "start" <=> worker[v].pc = "start"
    BY <2>1, <2>3 DEF AlivePcs
  <2> QED BY <1>1, <2>1, <2>4, <2>5, QuietKeeps
<1>22. ASSUME NEW w \in Workers, Pool!Leave(w) PROVE PhaseInv'
  BY <1>22, LeaveKeeps
<1> QED
  BY <1>2, <1>3, <1>4, <1>5, <1>6, <1>7, <1>8, <1>9, <1>10, <1>11, <1>12, <1>13, <1>14, <1>15,
     <1>16, <1>18, <1>19, <1>20, <1>21, <1>22
     DEF Pool!Next, Pool!Command, Pool!Poster, Pool!Worker

\* The first two parts hold at first.
LEMMA PoolStarts == Pool!Init => PoolTypeOK /\ PhaseInv
<1> SUFFICES ASSUME Pool!Init PROVE PoolTypeOK /\ PhaseInv
  OBVIOUS
<1>1. /\ plan \in PoolPlans
      /\ pool = [state |-> "none", tear |-> FALSE, num |-> 0, idle |-> 0, refs |-> 0, jobs |-> 0,
                 made |-> 0]
      /\ work = <<>> /\ jobsDone = {} /\ waiters = <<>>
      /\ poster = [t \in Posters |-> [pc |-> "script", want |-> {}, job |-> Pool!NoJob, stops |-> 0]]
      /\ worker = [w \in Workers |-> [pc |-> "none", job |-> Pool!NoJob]]
  BY DEF Pool!Init
<1>2. Pool!NoJob \in AJob
  BY DEF Pool!NoJob, AJob
<1>3. pool \in APool
  BY <1>1 DEF APool
<1>4. poster \in [Posters -> APoster]
  BY <1>1, <1>2, PosterPcsType DEF APoster
<1>5. worker \in [Workers -> AWorker]
  BY <1>1, <1>2 DEF AWorker, WorkerPcs
<1>6. PoolTypeOK
  <2>1. work \in Seq(AJob) /\ waiters \in Seq(Posters)
    BY <1>1
  <2>2. jobsDone \in SUBSET AJob
    BY <1>1
  <2> QED BY <1>1, <1>3, <1>4, <1>5, <2>1, <2>2 DEF PoolTypeOK
<1>7. Alive = {}
  BY <1>1 DEF Alive, AlivePcs
<1>8. Counted
  BY <1>1, <1>7, FS_EmptySet DEF Counted
<1>9. OneStarts /\ UsersOnly
  BY <1>1 DEF OneStarts, UsersOnly, Starts
<1> QED BY <1>1, <1>6, <1>8, <1>9
        DEF PhaseInv, WhileNone, WhileMade, WhileListed, WhileUnlisted, WhenFreed

-----------------------------------------------------------------------------
(* The jobs *)

\* The head of the queue is the oldest job, and its tail has the others.
LEMMA OldestFirst ==
    ASSUME NEW s \in Seq(AJob), s # <<>>, Ascending(s)
    PROVE  /\ Head(s) \in AJob /\ Has(s, Head(s).n)
           /\ \A n \in Nat : Has(s, n) => Head(s).n <= n
           /\ Ascending(Tail(s)) /\ \A n : Has(Tail(s), n) <=> Has(s, n) /\ n # Head(s).n
<1>1. Len(s) \in Nat \ {0} /\ DOMAIN s = 1..Len(s) /\ \A i \in 1..Len(s) : s[i] \in AJob
  OBVIOUS
<1>2. Head(s) = s[1]
  OBVIOUS
<1>3. \A i \in DOMAIN s : s[i].n \in Nat
  BY <1>1 DEF AJob
<1>4. \A i \in DOMAIN s : i # 1 => s[1].n < s[i].n
  BY <1>1 DEF Ascending
<1>5. Tail(s) \in Seq(AJob) /\ Len(Tail(s)) = Len(s) - 1 /\ DOMAIN Tail(s) = 1..Len(s) - 1
  BY <1>1
<1>6. \A i \in 1..Len(s) - 1 : Tail(s)[i] = s[i + 1]
  BY <1>1
<1>7. Ascending(Tail(s))
  <2> SUFFICES ASSUME NEW i \in 1..Len(s) - 1, NEW j \in 1..Len(s) - 1, i < j
               PROVE  Tail(s)[i].n < Tail(s)[j].n
    BY <1>5 DEF Ascending
  <2>1. i + 1 \in 1..Len(s) /\ j + 1 \in 1..Len(s) /\ i + 1 < j + 1
    BY <1>1
  <2> QED BY <1>1, <1>6, <2>1 DEF Ascending
<1>8. ASSUME NEW n PROVE Has(Tail(s), n) <=> Has(s, n) /\ n # Head(s).n
  <2>1. ASSUME Has(Tail(s), n) PROVE Has(s, n) /\ n # Head(s).n
    <3>1. PICK i \in 1..Len(s) - 1 : Tail(s)[i].n = n
      BY <1>5, <2>1 DEF Has
    <3>2. i + 1 \in DOMAIN s /\ i + 1 # 1 /\ s[i + 1].n = n
      BY <1>1, <1>6, <3>1
    <3>3. s[1].n < n /\ s[1].n \in Nat /\ n \in Nat
      BY <1>1, <1>3, <1>4, <3>2
    <3> QED BY <1>2, <3>2, <3>3 DEF Has
  <2>2. ASSUME Has(s, n), n # Head(s).n PROVE Has(Tail(s), n)
    <3>1. PICK i \in 1..Len(s) : s[i].n = n
      BY <1>1, <2>2 DEF Has
    <3>2. i - 1 \in 1..Len(s) - 1 /\ (i - 1) + 1 = i
      BY <1>1, <1>2, <2>2, <3>1
    <3>3. Tail(s)[i - 1] = s[(i - 1) + 1]
      BY <1>6, <3>2
    <3> QED BY <1>5, <3>1, <3>2, <3>3 DEF Has
  <2> QED BY <2>1, <2>2
<1>9. ASSUME NEW n \in Nat, Has(s, n) PROVE Head(s).n <= n
  <2>1. PICK i \in DOMAIN s : s[i].n = n
    BY <1>9 DEF Has
  <2>2. s[1].n \in Nat
    BY <1>1, <1>3
  <2> QED BY <1>2, <1>4, <2>1, <2>2
<1>10. Head(s) \in AJob /\ Has(s, Head(s).n)
  BY <1>1, <1>2 DEF Has
<1> QED BY <1>7, <1>8, <1>9, <1>10

\* A job with a new number comes last.
LEMMA NewestLast ==
    ASSUME NEW s \in Seq(AJob), NEW j \in AJob, Ascending(s), \A n : Has(s, n) => n < j.n
    PROVE  Ascending(Append(s, j)) /\ \A n : Has(Append(s, j), n) <=> Has(s, n) \/ n = j.n
<1> DEFINE r == Append(s, j)
<1>1. Len(s) \in Nat /\ DOMAIN s = 1..Len(s)
  OBVIOUS
<1>2. DOMAIN r = 1..Len(s) + 1 /\ r[Len(s) + 1] = j /\ \A i \in 1..Len(s) : r[i] = s[i]
  BY <1>1
<1> HIDE DEF r
<1>3. \A i \in 1..Len(s) + 1 : i \in 1..Len(s) \/ i = Len(s) + 1
  BY <1>1
<1>4. \A i \in 1..Len(s) : s[i].n < j.n
  BY <1>1 DEF Has
<1>5. Ascending(r)
  <2> SUFFICES ASSUME NEW h \in 1..Len(s) + 1, NEW i \in 1..Len(s) + 1, h < i
               PROVE  r[h].n < r[i].n
    BY <1>2 DEF Ascending
  <2>1. h \in 1..Len(s)
    BY <1>1
  <2>2. CASE i = Len(s) + 1
    BY <1>2, <1>4, <2>1, <2>2
  <2>3. CASE i \in 1..Len(s)
    BY <1>1, <1>2, <2>1, <2>3 DEF Ascending
  <2> QED BY <1>3, <2>2, <2>3
<1>6. \A n : Has(r, n) <=> Has(s, n) \/ n = j.n
  <2> SUFFICES ASSUME NEW n PROVE Has(r, n) <=> Has(s, n) \/ n = j.n
    OBVIOUS
  <2>1. Has(s, n) => Has(r, n)
    <3> SUFFICES ASSUME Has(s, n) PROVE Has(r, n)
      OBVIOUS
    <3>1. PICK i \in 1..Len(s) : s[i].n = n
      BY <1>1 DEF Has
    <3>2. i \in 1..Len(s) + 1
      BY <1>1
    <3> QED BY <1>2, <3>1, <3>2 DEF Has
  <2>2. n = j.n => Has(r, n)
    <3>1. Len(s) + 1 \in 1..Len(s) + 1
      BY <1>1
    <3> QED BY <1>2, <3>1 DEF Has
  <2>3. Has(r, n) => Has(s, n) \/ n = j.n
    <3> SUFFICES ASSUME Has(r, n) PROVE Has(s, n) \/ n = j.n
      OBVIOUS
    <3>1. PICK i \in 1..Len(s) + 1 : r[i].n = n
      BY <1>2 DEF Has
    <3> QED BY <1>1, <1>2, <1>3, <3>1 DEF Has
  <2> QED BY <2>1, <2>2, <2>3
<1> QED BY <1>5, <1>6 DEF r

\* tpool::cancel: the queue without one of its jobs.
LEMMA TakenOut ==
    ASSUME NEW s \in Seq(AJob), NEW i \in DOMAIN s, Ascending(s)
    PROVE  /\ Ascending(Pool!RemoveAt(s, i))
           /\ \A n : Has(Pool!RemoveAt(s, i), n) <=> Has(s, n) /\ n # s[i].n
<1> DEFINE r == Pool!RemoveAt(s, i)
           a == SubSeq(s, 1, i - 1)
           b == SubSeq(s, i + 1, Len(s))
<1>1. Len(s) \in Nat /\ DOMAIN s = 1..Len(s) /\ \A k \in 1..Len(s) : s[k] \in AJob
  OBVIOUS
<1>0. i \in 1..Len(s)
  BY <1>1
<1>2. a \in Seq(AJob) /\ Len(a) = i - 1 /\ \A k \in 1..i - 1 : a[k] = s[k]
  BY <1>0, <1>1
<1>3. b \in Seq(AJob) /\ Len(b) = Len(s) - i /\ \A k \in 1..Len(s) - i : b[k] = s[i + k]
  <2>1. s \in Seq(AJob) /\ i \in 1..Len(s)
    BY <1>0
  <2> QED BY <2>1
<1>4. r = a \o b
  BY DEF Pool!RemoveAt
<1> HIDE DEF a, b, r
<1>5. DOMAIN r = 1..Len(s) - 1
  <2>0. a \in Seq(AJob) /\ b \in Seq(AJob) /\ Len(a) = i - 1 /\ Len(b) = Len(s) - i
    BY <1>2, <1>3
  <2>1. r \in Seq(AJob) /\ Len(r) = (i - 1) + (Len(s) - i)
    BY <1>4, <2>0
  <2> QED BY <1>0, <1>1, <2>1
<1>6. \A k \in 1..i - 1 : r[k] = s[k]
  BY <1>0, <1>1, <1>2, <1>3, <1>4
<1>7. ASSUME NEW k \in i..Len(s) - 1 PROVE r[k] = s[k + 1]
  <2>1. r[k] = b[k - (i - 1)]
    BY <1>0, <1>1, <1>2, <1>3, <1>4, <1>7
  <2>2. k - (i - 1) \in 1..Len(s) - i
    BY <1>0, <1>1, <1>7
  <2>3. b[k - (i - 1)] = s[i + (k - (i - 1))]
    BY <1>3, <2>2
  <2>4. i + (k - (i - 1)) = k + 1
    BY <1>0, <1>1, <1>7
  <2> QED BY <2>1, <2>3, <2>4
<1>8. \A k \in 1..Len(s) : s[k].n \in Nat
  BY <1>1 DEF AJob
<1> DEFINE at(k) == IF k < i THEN k ELSE k + 1
<1>9. ASSUME NEW k \in 1..Len(s) - 1 PROVE at(k) \in 1..Len(s) /\ at(k) # i /\ r[k] = s[at(k)]
  <2>1. CASE k < i
    BY <1>0, <1>1, <1>6, <2>1
  <2>2. CASE ~(k < i)
    BY <1>0, <1>1, <1>7, <2>2
  <2> QED BY <2>1, <2>2
<1>10. Ascending(r)
  <2> SUFFICES ASSUME NEW h \in 1..Len(s) - 1, NEW k \in 1..Len(s) - 1, h < k
               PROVE  r[h].n < r[k].n
    BY <1>5 DEF Ascending
  <2>1. at(h) < at(k)
    BY <1>0, <1>1
  <2> HIDE DEF at
  <2> QED BY <1>1, <1>9, <2>1 DEF Ascending
<1>11. \A n : Has(r, n) <=> Has(s, n) /\ n # s[i].n
  <2> SUFFICES ASSUME NEW n PROVE Has(r, n) <=> Has(s, n) /\ n # s[i].n
    OBVIOUS
  <2>1. ASSUME Has(r, n) PROVE Has(s, n) /\ n # s[i].n
    <3>1. PICK k \in 1..Len(s) - 1 : r[k].n = n
      BY <1>5, <2>1 DEF Has
    <3>2. PICK m \in 1..Len(s) : m # i /\ s[m].n = n
      BY <1>9, <3>1
    <3>3. s[m].n # s[i].n
      <4>1. m < i \/ i < m
        BY <1>0, <1>1, <3>2
      <4>2. s[m].n < s[i].n \/ s[i].n < s[m].n
        BY <1>0, <1>1, <4>1 DEF Ascending
      <4> QED BY <1>0, <1>8, <4>2
    <3> QED BY <1>1, <3>2, <3>3 DEF Has
  <2>2. ASSUME Has(s, n), n # s[i].n PROVE Has(r, n)
    <3>1. PICK m \in 1..Len(s) : s[m].n = n
      BY <1>1, <2>2 DEF Has
    <3>2. m # i
      BY <2>2, <3>1
    <3>3. CASE m < i
      <4>1. m \in 1..Len(s) - 1 /\ r[m] = s[m]
        BY <1>0, <1>1, <1>6, <3>3
      <4> QED BY <1>5, <3>1, <4>1 DEF Has
    <3>4. CASE m > i
      <4>1. m - 1 \in 1..Len(s) - 1 /\ m - 1 \in i..Len(s) - 1 /\ (m - 1) + 1 = m
        BY <1>0, <1>1, <3>4
      <4>2. r[m - 1] = s[(m - 1) + 1]
        BY <1>7, <4>1
      <4> QED BY <1>5, <3>1, <4>1, <4>2 DEF Has
    <3> QED BY <1>0, <1>1, <3>2, <3>3, <3>4
  <2> QED BY <2>1, <2>2
<1> QED BY <1>10, <1>11 DEF r

\* Where a job is.
LEMMA StatusOf ==
    ASSUME NEW n
    PROVE  Pool!Status(n) = IF n > pool.jobs THEN "none" ELSE IF Has(work, n) THEN "queued"
                            ELSE IF Running(n) THEN "running"
                            ELSE IF Done(n) THEN "done" ELSE "gone"
BY DEF Pool!Status, Has, Running, Done

\* A step of the abstract queue.
LEMMA QueueStep ==
    Pool!Queue!Step <=> Pool!Queue!Next \/ Mapped' = Mapped
BY DEF Pool!Queue!Step, Mapped

\* Nothing becomes of the jobs.
LEMMA JobsStay ==
    ASSUME PoolTypeOK, JobsInv, pool'.jobs = pool.jobs, work' = work, jobsDone' = jobsDone,
           \A w \in Workers : /\ worker'[w].job = worker[w].job
                              /\ worker'[w].pc = "eval" <=> worker[w].pc = "eval"
    PROVE  JobsInv' /\ Pool!Queue!Step
<1>1. \A n : Running(n)' <=> Running(n)
  BY DEF Running
<1>2. JobsInv'
  BY <1>1 DEF JobsInv
<1>3. \A n : Pool!Status(n)' = Pool!Status(n)
  BY DEF Pool!Status
<1>4. Mapped' = Mapped
  BY <1>3 DEF Mapped
<1> QED BY <1>2, <1>4, QueueStep

\* Jobs have the numbers that were given out.
LEMMA JobNumbers ==
    ASSUME PoolTypeOK, JobsInv
    PROVE  /\ pool.jobs \in Nat
           /\ \A n : Has(work, n) => n \in Nat /\ n > 0 /\ n <= pool.jobs
           /\ \A w \in Workers : /\ worker[w].job.n \in Nat /\ worker[w].job.n <= pool.jobs
                                 /\ worker[w].pc = "eval" <=> worker[w].job.n > 0
           /\ \A j \in jobsDone : j.n \in Nat /\ j.n > 0 /\ j.n <= pool.jobs
<1>1. pool.jobs \in Nat
  BY DEF PoolTypeOK, APool
<1>2. \A n \in 1..pool.jobs : n \in Nat /\ n > 0 /\ n <= pool.jobs
  BY <1>1
<1>3. \A w \in Workers : /\ worker[w].job.n \in Nat /\ worker[w].job.n <= pool.jobs
                         /\ worker[w].pc = "eval" <=> worker[w].job.n > 0
  BY <1>1, <1>2 DEF JobsInv, Pool!NoJob
<1> QED BY <1>1, <1>2, <1>3 DEF JobsInv

\* The step of the queue that a worker makes: it is done with job old and
\* takes job new; 0 stands for none.
LEMMA WorkerStep ==
    ASSUME NEW old \in Nat, NEW new \in Nat, old # new \/ old = 0,
           \A n \in 1..MaxJobs \ {old, new} : Pool!Status(n)' = Pool!Status(n),
           old > 0 => Pool!Status(old) = "running" /\ Pool!Status(old)' \in {"done", "gone"},
           new > 0 => /\ Pool!Status(new) = "queued" /\ Pool!Status(new)' = "running"
                      /\ \A k \in 1..MaxJobs : k < new => Pool!Status(k) # "queued"
    PROVE  Pool!Queue!Step
<1> DEFINE Jobs == 1..MaxJobs
<1>1. MaxJobs \in Nat
  BY PoolAssumption DEF Pool!PoolAssumption
<1>2. \A n \in Jobs : Mapped[n] = Pool!Status(n) /\ Mapped'[n] = Pool!Status(n)'
  BY DEF Mapped
<1>3. DOMAIN Mapped = Jobs /\ DOMAIN Mapped' = Jobs /\ Mapped = [n \in Jobs |-> Mapped[n]]
      /\ Mapped' = [n \in Jobs |-> Mapped'[n]]
  BY DEF Mapped
<1>4. CASE old \notin Jobs /\ new \notin Jobs
  <2>1. \A n \in Jobs : Mapped'[n] = Mapped[n]
    BY <1>2, <1>4
  <2>2. Mapped' = Mapped
    BY <1>3, <2>1
  <2> QED BY <2>2, QueueStep
<1>5. CASE old \in Jobs /\ new \notin Jobs
  <2>1. PICK s \in {"done", "gone"} : Pool!Status(old)' = s
    BY <1>1, <1>5
  <2>2. Mapped' = [Mapped EXCEPT ![old] = s]
    BY <1>2, <1>3, <1>5, <2>1
  <2>3. Mapped[old] = "running"
    BY <1>1, <1>2, <1>5
  <2>4. CASE s = "done"
    <3>1. Pool!Queue!Finish(old)
      BY <2>2, <2>3, <2>4 DEF Pool!Queue!Finish, Pool!Queue!Becomes, Mapped
    <3> QED BY <1>5, <3>1, QueueStep DEF Pool!Queue!Next
  <2>5. CASE s = "gone"
    <3>1. Pool!Queue!Forget(old)
      BY <2>2, <2>3, <2>5 DEF Pool!Queue!Forget, Pool!Queue!Becomes, Mapped
    <3> QED BY <1>5, <3>1, QueueStep DEF Pool!Queue!Next
  <2> QED BY <2>4, <2>5
<1>6. ASSUME new \in Jobs
      PROVE  /\ Mapped[new] = "queued" /\ Mapped'[new] = "running"
             /\ \A k \in Jobs : k < new => Mapped[k] # "queued"
  BY <1>1, <1>2, <1>6
<1>7. CASE old \notin Jobs /\ new \in Jobs
  <2>1. Mapped' = [Mapped EXCEPT ![new] = "running"]
    BY <1>2, <1>3, <1>6, <1>7
  <2>2. Pool!Queue!Run(new)
    BY <1>6, <1>7, <2>1 DEF Pool!Queue!Run, Pool!Queue!Becomes, Mapped
  <2> QED BY <1>7, <2>2, QueueStep DEF Pool!Queue!Next
<1>8. CASE old \in Jobs /\ new \in Jobs
  <2>1. PICK s \in {"done", "gone"} : Pool!Status(old)' = s
    BY <1>1, <1>8
  <2>2. old # new
    BY <1>1, <1>8
  <2>3. Mapped' = [Mapped EXCEPT ![old] = s, ![new] = "running"]
    BY <1>2, <1>3, <1>6, <1>8, <2>1, <2>2
  <2>4. Mapped[old] = "running"
    BY <1>1, <1>2, <1>8
  <2>5. Pool!Queue!FinishAndRun(old, new)
    BY <1>6, <1>8, <2>3, <2>4 DEF Pool!Queue!FinishAndRun, Mapped
  <2> QED BY <1>8, <2>5, QueueStep DEF Pool!Queue!Next
<1> QED BY <1>4, <1>5, <1>7, <1>8

\* A worker is done with its job, if it has one, and takes the oldest of the
\* queue, or none.
LEMMA WorkerTurns ==
    ASSUME PoolTypeOK, JobsInv, NEW w \in Workers, pool'.jobs = pool.jobs,
           \A v \in Workers \ {w} : worker'[v] = worker[v],
           \/ jobsDone' = jobsDone
           \/ worker[w].pc = "eval" /\ jobsDone' = jobsDone \cup {worker[w].job},
           \/ worker'[w].pc # "eval" /\ worker'[w].job = Pool!NoJob /\ work' = work
           \/ /\ worker'[w].pc = "eval" /\ work # <<>> /\ worker'[w].job = Head(work)
              /\ work' = Tail(work)
    PROVE  JobsInv' /\ Pool!Queue!Step
<1>0. PICK old, new : old = worker[w].job.n /\ new = worker'[w].job.n
  OBVIOUS
<1>1. /\ pool.jobs \in Nat
      /\ \A n : Has(work, n) => n \in Nat /\ n > 0 /\ n <= pool.jobs
      /\ \A v \in Workers : /\ worker[v].job.n \in Nat /\ worker[v].job.n <= pool.jobs
                            /\ worker[v].pc = "eval" <=> worker[v].job.n > 0
      /\ \A j \in jobsDone : j.n \in Nat /\ j.n > 0 /\ j.n <= pool.jobs
  BY JobNumbers
<1>2. work \in Seq(AJob) /\ Ascending(work)
  BY DEF PoolTypeOK, JobsInv
<1>3. /\ Ascending(work')
      /\ \A n : Has(work', n) => Has(work, n)
      /\ \A n : Has(work, n) => Has(work', n) \/ n = new
      /\ new \in Nat /\ new <= pool.jobs /\ (worker'[w].pc = "eval" <=> new > 0)
      /\ worker'[w].pc # "eval" => worker'[w].job = Pool!NoJob
      /\ ~Has(work', new)
      /\ new > 0 => Has(work, new) /\ \A n \in Nat : Has(work, n) => new <= n
  <2>1. CASE worker'[w].pc # "eval" /\ worker'[w].job = Pool!NoJob /\ work' = work
    <3>1. new = 0
      BY <1>0, <2>1 DEF Pool!NoJob
    <3>2. ~Has(work, 0)
      BY <1>1
    <3> QED BY <1>1, <1>2, <2>1, <3>1, <3>2
  <2>2. CASE /\ worker'[w].pc = "eval" /\ work # <<>> /\ worker'[w].job = Head(work)
             /\ work' = Tail(work)
    <3>1. /\ Has(work, new)
          /\ \A n \in Nat : Has(work, n) => new <= n
          /\ Ascending(work') /\ \A n : Has(work', n) <=> Has(work, n) /\ n # new
      BY <1>0, <1>2, <2>2, OldestFirst
    <3>2. new \in Nat /\ new > 0 /\ new <= pool.jobs
      BY <1>1, <3>1
    <3> QED BY <2>2, <3>1, <3>2
  <2> QED BY <2>1, <2>2
<1>4. \A v \in Workers : v # w => worker'[v] = worker[v]
  OBVIOUS
<1>5. old \in Nat /\ ~Has(work, old) /\ ~Has(work', old)
  BY <1>0, <1>1, <1>3 DEF JobsInv
<1>6. new > 0 => /\ \A v \in Workers : worker[v].job.n # new
                 /\ \A j \in jobsDone : j.n # new
  BY <1>3 DEF JobsInv
<1>7. /\ \A j \in jobsDone' : j \in jobsDone \/ (j = worker[w].job /\ old > 0)
      /\ \A j \in jobsDone : j \in jobsDone' /\ ~Running(j.n)
  BY <1>0, <1>1 DEF JobsInv
<1>8. \A n : Running(n)' <=> n = new \/ \E v \in Workers \ {w} : worker[v].job.n = n
  BY <1>0, <1>4 DEF Running
<1>9. JobsInv'
  <2>1. Ascending(work)' /\ \A n : Has(work, n)' => n \in 1..pool'.jobs
    BY <1>3 DEF JobsInv
  <2>2. \A v \in Workers : /\ worker'[v].pc # "eval" => worker'[v].job = Pool!NoJob
                           /\ worker'[v].pc = "eval" => worker'[v].job.n \in 1..pool'.jobs
                           /\ ~Has(work', worker'[v].job.n)
    <3> SUFFICES ASSUME NEW v \in Workers
                 PROVE  /\ worker'[v].pc # "eval" => worker'[v].job = Pool!NoJob
                        /\ worker'[v].pc = "eval" => worker'[v].job.n \in 1..pool'.jobs
                        /\ ~Has(work', worker'[v].job.n)
      OBVIOUS
    <3>1. CASE v = w
      <4>1. new > 0 => new \in 1..pool.jobs
        BY <1>1, <1>3
      <4> QED BY <1>0, <1>3, <3>1, <4>1
    <3>2. CASE v # w
      BY <1>3, <1>4, <3>2 DEF JobsInv
    <3> QED BY <3>1, <3>2
  <2>3. \A u, v \in Workers : worker'[u].job.n = worker'[v].job.n /\ worker'[u].job.n > 0 => u = v
    BY <1>0, <1>4, <1>6 DEF JobsInv
  <2>4. ASSUME NEW j \in jobsDone'
        PROVE  j.n \in 1..pool'.jobs /\ ~Has(work', j.n) /\ ~Running(j.n)'
    <3>1. CASE j \in jobsDone
      <4>1. j.n \in 1..pool.jobs /\ ~Has(work, j.n) /\ ~Running(j.n)
        BY <3>1 DEF JobsInv
      <4>2. j.n # new
        BY <1>1, <1>6, <3>1
      <4> QED BY <1>3, <1>8, <4>1, <4>2 DEF Running
    <3>2. CASE j = worker[w].job /\ old > 0
      <4>1. j.n = old /\ old \in 1..pool.jobs
        BY <1>0, <1>1, <3>2
      <4>2. \A v \in Workers \ {w} : worker[v].job.n # old
        BY <1>0, <3>2 DEF JobsInv
      <4>3. old # new
        BY <1>3, <1>5, <3>2
      <4> QED BY <1>5, <1>8, <4>1, <4>2, <4>3
    <3> QED BY <1>7, <3>1, <3>2
  <2>5. \A j, k \in jobsDone' : j.n = k.n => j = k
    <3>1. old > 0 => \A j \in jobsDone : j.n # old
      BY <1>0, <1>7 DEF Running
    <3>2. \A j, k \in jobsDone : j.n = k.n => j = k
      BY DEF JobsInv
    <3>3. \A j \in jobsDone' : j \in jobsDone \/ (j = worker[w].job /\ old > 0 /\ j.n = old)
      BY <1>0, <1>7
    <3> QED BY <3>1, <3>2, <3>3
  <2> QED BY <2>1, <2>2, <2>3, <2>4, <2>5 DEF JobsInv
<1>10. Pool!Queue!Step
  <2>1. old # new \/ old = 0
    BY <1>3, <1>5
  <2>2. MaxJobs \in Nat
    BY PoolAssumption DEF Pool!PoolAssumption
  <2>3. \A n \in 1..MaxJobs \ {old, new} : Pool!Status(n)' = Pool!Status(n)
    <3> SUFFICES ASSUME NEW n \in 1..MaxJobs \ {old, new} PROVE Pool!Status(n)' = Pool!Status(n)
      OBVIOUS
    <3>1. Has(work', n) <=> Has(work, n)
      BY <1>3
    <3>2. Running(n)' <=> Running(n)
      BY <1>0, <1>8 DEF Running
    <3>3. Done(n)' <=> Done(n)
      BY <1>0, <1>7 DEF Done
    <3>4. Pool!Status(n) = IF n > pool.jobs THEN "none" ELSE IF Has(work, n) THEN "queued"
                            ELSE IF Running(n) THEN "running"
                            ELSE IF Done(n) THEN "done" ELSE "gone"
      BY StatusOf
    <3>5. Pool!Status(n)' = IF n > pool'.jobs THEN "none" ELSE IF Has(work', n) THEN "queued"
                            ELSE IF Running(n)' THEN "running"
                            ELSE IF Done(n)' THEN "done" ELSE "gone"
      BY DEF Pool!Status, Has, Running, Done
    <3> QED BY <3>1, <3>2, <3>3, <3>4, <3>5
  <2>4. ASSUME old > 0
        PROVE  Pool!Status(old) = "running" /\ Pool!Status(old)' \in {"done", "gone"}
    <3>1. Running(old) /\ ~(old > pool.jobs)
      BY <1>0, <1>1 DEF Running
    <3>2. \A v \in Workers \ {w} : worker[v].job.n # old
      BY <1>0, <2>4 DEF JobsInv
    <3>3. ~Running(old)'
      BY <1>8, <2>1, <2>4, <3>2
    <3>4. Pool!Status(old) = "running"
      BY <1>5, <3>1, StatusOf
    <3>5. Pool!Status(old)' = IF old > pool'.jobs THEN "none" ELSE IF Has(work', old) THEN "queued"
                            ELSE IF Running(old)' THEN "running"
                            ELSE IF Done(old)' THEN "done" ELSE "gone"
      BY DEF Pool!Status, Has, Running, Done
    <3> QED BY <1>5, <3>1, <3>3, <3>4, <3>5
  <2>5. ASSUME new > 0
        PROVE  /\ Pool!Status(new) = "queued" /\ Pool!Status(new)' = "running"
               /\ \A k \in 1..MaxJobs : k < new => Pool!Status(k) # "queued"
    <3>1. Has(work, new) /\ ~(new > pool.jobs) /\ \A n \in Nat : Has(work, n) => new <= n
      BY <1>1, <1>3, <2>5
    <3>2. Pool!Status(new) = "queued"
      BY <3>1, StatusOf
    <3>3. Running(new)' /\ ~Has(work', new)
      BY <1>3, <1>8
    <3>4. Pool!Status(new)' = "running"
      BY <3>1, <3>3 DEF Pool!Status, Has, Running
    <3>5. ASSUME NEW k \in 1..MaxJobs, k < new PROVE Pool!Status(k) # "queued"
      <4>1. k \in Nat /\ ~Has(work, k)
        BY <1>3, <2>2, <3>1, <3>5
      <4> QED BY <4>1, StatusOf
    <3> QED BY <3>2, <3>4, <3>5
  <2> QED BY <1>3, <1>5, <2>1, <2>3, <2>4, <2>5, WorkerStep
<1> QED BY <1>9, <1>10

\* The status of one job changes.
LEMMA OneMoves ==
    ASSUME NEW n \in 1..MaxJobs, NEW s, Pool!Status(n)' = s,
           \A k \in 1..MaxJobs \ {n} : Pool!Status(k)' = Pool!Status(k)
    PROVE  Mapped' = [Mapped EXCEPT ![n] = s]
<1>1. \A k \in 1..MaxJobs : Mapped[k] = Pool!Status(k) /\ Mapped'[k] = Pool!Status(k)'
  BY DEF Mapped
<1>2. /\ DOMAIN Mapped = 1..MaxJobs /\ Mapped = [k \in 1..MaxJobs |-> Mapped[k]]
      /\ Mapped' = [k \in 1..MaxJobs |-> Mapped'[k]]
  BY DEF Mapped
<1> QED BY <1>1, <1>2

\* The status of no job does.
LEMMA NoneMoves ==
    ASSUME \A k \in 1..MaxJobs : Pool!Status(k)' = Pool!Status(k)
    PROVE  Pool!Queue!Step
<1>1. Mapped' = Mapped
  BY DEF Mapped
<1> QED BY <1>1, QueueStep

\* Where a job is next.
LEMMA StatusNext ==
    ASSUME NEW n
    PROVE  Pool!Status(n)' = IF n > pool'.jobs THEN "none" ELSE IF Has(work', n) THEN "queued"
                             ELSE IF Running(n)' THEN "running"
                             ELSE IF Done(n)' THEN "done" ELSE "gone"
BY DEF Pool!Status, Has, Running, Done

\* tpool::post queues a new job.
LEMMA JobsPush ==
    ASSUME PoolTypeOK, JobsInv, NEW t \in Posters, Pool!Push(t)
    PROVE  JobsInv' /\ Pool!Queue!Step
<1>1. /\ pool' = [pool EXCEPT !.jobs = @ + 1]
      /\ work' = Append(work, [poster[t].job EXCEPT !.n = pool.jobs + 1])
      /\ UNCHANGED <<jobsDone, worker>>
  BY DEF Pool!Push
<1>0. PICK new : new = pool.jobs + 1
  OBVIOUS
<1>2. /\ pool.jobs \in Nat
      /\ \A n : Has(work, n) => n \in Nat /\ n > 0 /\ n <= pool.jobs
      /\ \A w \in Workers : /\ worker[w].job.n \in Nat /\ worker[w].job.n <= pool.jobs
                            /\ worker[w].pc = "eval" <=> worker[w].job.n > 0
      /\ \A j \in jobsDone : j.n \in Nat /\ j.n > 0 /\ j.n <= pool.jobs
  BY JobNumbers
<1>3. pool'.jobs = new /\ new \in Nat /\ pool.jobs < new
  BY <1>0, <1>1, <1>2 DEF PoolTypeOK, APool
<1>4. PICK j : j = [poster[t].job EXCEPT !.n = pool.jobs + 1]
  OBVIOUS
<1>5. j \in AJob /\ j.n = new
  <2>1. poster[t].job \in AJob
    BY DEF PoolTypeOK, APoster
  <2> QED BY <1>0, <1>3, <1>4, <2>1 DEF AJob
<1>6. work \in Seq(AJob) /\ Ascending(work) /\ \A n : Has(work, n) => n < j.n
  BY <1>2, <1>3, <1>5 DEF PoolTypeOK, JobsInv
<1>7. Ascending(work') /\ \A n : Has(work', n) <=> Has(work, n) \/ n = new
  BY <1>1, <1>4, <1>5, <1>6, NewestLast
<1>8. \A n : (Running(n)' <=> Running(n)) /\ (Done(n)' <=> Done(n))
  BY <1>1 DEF Running, Done
<1>9. JobsInv'
  <2>1. \A n : Has(work', n) => n \in 1..pool'.jobs
    BY <1>2, <1>3, <1>7
  <2>2. 1..pool.jobs \subseteq 1..pool'.jobs
    BY <1>2, <1>3
  <2>3. ASSUME NEW w \in Workers
        PROVE  /\ worker'[w].pc # "eval" => worker'[w].job = Pool!NoJob
               /\ worker'[w].pc = "eval" => worker'[w].job.n \in 1..pool'.jobs
               /\ ~Has(work', worker'[w].job.n)
    <3>1. /\ worker[w].pc # "eval" => worker[w].job = Pool!NoJob
          /\ worker[w].pc = "eval" => worker[w].job.n \in 1..pool.jobs
          /\ ~Has(work, worker[w].job.n)
      BY DEF JobsInv
    <3>2. worker[w].job.n # new
      BY <1>2, <1>3
    <3>3. ~Has(work', worker[w].job.n)
      BY <1>7, <3>1, <3>2
    <3>4. worker[w].pc = "eval" => worker[w].job.n \in 1..pool'.jobs
      BY <2>2, <3>1
    <3>5. worker' = worker
      BY <1>1
    <3> QED BY <3>1, <3>3, <3>4, <3>5
  <2>4. ASSUME NEW k \in jobsDone'
        PROVE  k.n \in 1..pool'.jobs /\ ~Has(work', k.n) /\ ~Running(k.n)'
    <3>1. k \in jobsDone
      BY <1>1
    <3>2. k.n \in 1..pool.jobs /\ ~Has(work, k.n) /\ ~Running(k.n)
      BY <3>1 DEF JobsInv
    <3>3. k.n # new
      BY <1>2, <1>3, <3>1
    <3> QED BY <1>7, <1>8, <2>2, <3>2, <3>3
  <2>5. /\ \A w, v \in Workers :
             worker'[w].job.n = worker'[v].job.n /\ worker'[w].job.n > 0 => w = v
        /\ \A i, k \in jobsDone' : i.n = k.n => i = k
    BY <1>1 DEF JobsInv
  <2> QED BY <1>7, <2>1, <2>3, <2>4, <2>5 DEF JobsInv
<1>10. Pool!Queue!Step
  <2>0. MaxJobs \in Nat
    BY PoolAssumption DEF Pool!PoolAssumption
  <2>1. ASSUME NEW k \in 1..MaxJobs \ {new} PROVE Pool!Status(k)' = Pool!Status(k)
    <3>1. k > pool.jobs <=> k > pool'.jobs
      BY <1>0, <1>2, <1>3, <2>0
    <3> QED BY <1>7, <1>8, <3>1, StatusOf, StatusNext
  <2>2. CASE new \in 1..MaxJobs
    <3>1. Pool!Status(new) = "none"
      BY <1>3, StatusOf
    <3>2. Pool!Status(new)' = "queued"
      <4>1. ~(new > pool'.jobs)
        BY <1>3
      <4> QED BY <1>7, <4>1, StatusNext
    <3>3. Mapped' = [Mapped EXCEPT ![new] = "queued"]
      BY <2>1, <2>2, <3>2, OneMoves
    <3>4. \A i \in 1..MaxJobs : i < new => Mapped[i] # "none"
      <4>1. \A i \in 1..MaxJobs : i < new => ~(i > pool.jobs)
        BY <1>0, <1>2, <2>0
      <4>2. \A i \in 1..MaxJobs : i < new => Pool!Status(i) # "none"
        BY <4>1, StatusOf
      <4> QED BY <4>2 DEF Mapped
    <3>5. Mapped[new] = "none"
      BY <2>2, <3>1 DEF Mapped
    <3>6. Pool!Queue!Post(new)
      BY <3>3, <3>4, <3>5 DEF Pool!Queue!Post, Pool!Queue!Becomes, Mapped
    <3> QED BY <2>2, <3>6, QueueStep DEF Pool!Queue!Next
  <2>3. CASE new \notin 1..MaxJobs
    <3>1. \A k \in 1..MaxJobs : Pool!Status(k)' = Pool!Status(k)
      BY <2>1, <2>3
    <3> QED BY <3>1, NoneMoves
  <2> QED BY <2>2, <2>3
<1> QED BY <1>9, <1>10

\* A job that was queued or done is forgotten.
LEMMA Forgotten ==
    ASSUME PoolTypeOK, JobsInv, NEW n, pool' = pool, worker' = worker,
           Pool!Status(n) \in {"queued", "done"},
           \/ /\ \A k : Has(work', k) <=> Has(work, k) /\ k # n
              /\ jobsDone' = jobsDone /\ Has(work, n)
           \/ /\ \A k : Done(k)' <=> Done(k) /\ k # n
              /\ work' = work /\ Done(n)
    PROVE  Pool!Queue!Step
<1>1. \A k : Running(k)' <=> Running(k)
  BY DEF Running
<1>2. ASSUME NEW k, k # n PROVE Pool!Status(k)' = Pool!Status(k)
  <2>1. (Has(work', k) <=> Has(work, k)) /\ (Done(k)' <=> Done(k))
    BY <1>2 DEF Done
  <2> QED BY <1>1, <2>1, StatusOf, StatusNext
<1>3. CASE n \in 1..MaxJobs
  <2>1. Pool!Status(n)' = "gone"
    <3>1. ~(n > pool.jobs) /\ ~Running(n)
      <4>1. ~(n > pool.jobs)
        BY StatusOf
      <4>2. ~Running(n)
        BY DEF JobsInv, Running, Done
      <4> QED BY <4>1, <4>2
    <3>2. ~Has(work', n) /\ ~Done(n)'
      <4>1. ~(Has(work, n) /\ Done(n))
        BY DEF JobsInv, Done
      <4>2. jobsDone' = jobsDone => (Done(n)' <=> Done(n))
        BY DEF Done
      <4> QED BY <4>1, <4>2
    <3> QED BY <1>1, <3>1, <3>2, StatusNext
  <2>2. Mapped' = [Mapped EXCEPT ![n] = "gone"]
    BY <1>2, <1>3, <2>1, OneMoves
  <2>3. Mapped[n] \in {"queued", "done"}
    BY <1>3 DEF Mapped
  <2>4. Pool!Queue!Forget(n)
    BY <2>2, <2>3 DEF Pool!Queue!Forget, Pool!Queue!Becomes, Mapped
  <2> QED BY <1>3, <2>4, QueueStep DEF Pool!Queue!Next
<1>4. CASE n \notin 1..MaxJobs
  <2>1. \A k \in 1..MaxJobs : Pool!Status(k)' = Pool!Status(k)
    BY <1>2, <1>4
  <2> QED BY <2>1, NoneMoves
<1> QED BY <1>3, <1>4

\* tpool::cancel forgets a job, or none.
LEMMA JobsCancel ==
    ASSUME PoolTypeOK, JobsInv, NEW t \in Posters, Pool!Cancel(t)
    PROVE  JobsInv' /\ Pool!Queue!Step
<1>1. UNCHANGED <<pool, jobsDone, worker>>
  BY DEF Pool!Cancel
<1>2. work' = work \/ \E i \in DOMAIN work : work' = Pool!RemoveAt(work, i)
  BY DEF Pool!Cancel
<1>3. CASE work' = work
  BY <1>1, <1>3, JobsStay
<1>4. ASSUME NEW i \in DOMAIN work, work' = Pool!RemoveAt(work, i)
      PROVE  JobsInv' /\ Pool!Queue!Step
  <2>0. PICK n : n = work[i].n
    OBVIOUS
  <2>1. work \in Seq(AJob) /\ Ascending(work)
    BY DEF PoolTypeOK, JobsInv
  <2>2. Ascending(work') /\ \A k : Has(work', k) <=> Has(work, k) /\ k # n
    BY <1>4, <2>0, <2>1, TakenOut
  <2>3. Has(work, n)
    BY <2>0 DEF Has
  <2>4. \A k : Running(k)' <=> Running(k)
    BY <1>1 DEF Running
  <2>5. JobsInv'
    BY <1>1, <2>2, <2>4 DEF JobsInv
  <2>6. ~(n > pool.jobs)
    BY <2>3, JobNumbers
  <2>7. Pool!Status(n) = "queued"
    BY <2>3, <2>6, StatusOf
  <2> QED BY <1>1, <2>2, <2>3, <2>5, <2>7, Forgotten
<1> QED BY <1>2, <1>3, <1>4

\* tpool::get forgets a job that is done.
LEMMA JobsGet ==
    ASSUME PoolTypeOK, JobsInv, NEW t \in Posters, Pool!GetDone(t)
    PROVE  JobsInv' /\ Pool!Queue!Step
<1>1. UNCHANGED <<pool, work, worker>>
  BY DEF Pool!GetDone
<1>2. PICK j \in jobsDone : jobsDone' = jobsDone \ {j}
  BY DEF Pool!GetDone
<1>3. \A k : Running(k)' <=> Running(k)
  BY <1>1 DEF Running
<1>4. JobsInv'
  BY <1>1, <1>2, <1>3 DEF JobsInv
<1>0. PICK n : n = j.n
  OBVIOUS
<1>5. \A k : Done(k)' <=> Done(k) /\ k # n
  BY <1>0, <1>2 DEF Done, JobsInv
<1>6. Done(n) /\ ~(n > pool.jobs) /\ ~Has(work, n) /\ ~Running(n)
  BY <1>0, JobNumbers DEF Done, JobsInv
<1>7. Pool!Status(n) = "done"
  BY <1>6, StatusOf
<1> QED BY <1>1, <1>4, <1>5, <1>6, <1>7, Forgotten

\* The pool goes with all its jobs.
LEMMA JobsReap ==
    ASSUME PoolTypeOK, PhaseInv, JobsInv, NEW t \in Posters, Pool!Reap(t)
    PROVE  JobsInv' /\ Pool!Queue!Step
<1>1. UNCHANGED worker
  BY DEF Pool!Reap
<1>2. CASE pool.num > 0
  <2>1. UNCHANGED <<pool, work, jobsDone>>
    BY <1>2 DEF Pool!Reap
  <2> QED BY <1>1, <2>1, JobsStay
<1>3. CASE ~(pool.num > 0)
  <2>1. pool' = [pool EXCEPT !.state = "freed"] /\ work' = <<>> /\ jobsDone' = {}
    BY <1>3 DEF Pool!Reap
  <2>2. pool'.jobs = pool.jobs
    BY <2>1 DEF PoolTypeOK, APool
  <2>3. IsFiniteSet(Alive) /\ pool.num = Cardinality(Alive)
    BY DEF PhaseInv, Counted
  <2>4. Alive = {}
    <3>1. Cardinality(Alive) \in Nat
      BY <2>3, FS_CardinalityType
    <3>2. Cardinality(Alive) = 0
      BY <1>3, <2>3, <3>1
    <3> QED BY <2>3, <3>2, FS_EmptySet
  <2>5. \A w \in Workers : worker[w].pc # "eval"
    BY <2>4 DEF Alive, AlivePcs
  <2>6. \A w \in Workers : worker[w].job = Pool!NoJob /\ worker[w].job.n = 0
    BY <2>5 DEF JobsInv, Pool!NoJob
  <2>7. \A n : ~Has(work', n)
    BY <2>1 DEF Has
  <2>8. JobsInv'
    <3>1. Ascending(work')
      BY <2>1 DEF Ascending
    <3>2. \A w \in Workers : worker'[w].job = Pool!NoJob /\ worker'[w].job.n = 0 /\ worker'[w].pc # "eval"
      BY <1>1, <2>5, <2>6
    <3> QED BY <2>1, <2>7, <3>1, <3>2 DEF JobsInv
  <2>9. MaxJobs \in Nat
    BY PoolAssumption DEF Pool!PoolAssumption
  <2>10. ASSUME NEW k \in 1..MaxJobs
         PROVE  Pool!Status(k)' = IF Pool!Status(k) = "none" THEN "none" ELSE "gone"
    <3>1. ~Running(k)'
      BY <1>1, <2>6, <2>9 DEF Running
    <3>2. ~Done(k)'
      BY <2>1 DEF Done
    <3> QED BY <2>2, <2>7, <3>1, <3>2, StatusOf, StatusNext
  <2>11. \A k \in 1..MaxJobs : Mapped[k] = Pool!Status(k)
    BY DEF Mapped
  <2>12. Mapped' = [k \in 1..MaxJobs |-> IF Mapped[k] = "none" THEN "none" ELSE "gone"]
    BY <2>10, <2>11 DEF Mapped
  <2>13. Pool!Queue!Close
    BY <2>12 DEF Pool!Queue!Close, Mapped
  <2> QED BY <2>8, <2>13, QueueStep DEF Pool!Queue!Next
<1> QED BY <1>2, <1>3

\* Every step keeps the jobs, and is a step of the abstract queue.
LEMMA JobsStep ==
    ASSUME PoolTypeOK, PhaseInv, JobsInv, Pool!Next
    PROVE  JobsInv' /\ Pool!Queue!Step
<1> DEFINE Goal == JobsInv' /\ Pool!Queue!Step
<1>1. ASSUME NEW t \in Posters,
             Pool!Create(t) \/ Pool!Post(t) \/ Pool!Wait(t) \/ Pool!Preserve(t) \/ Pool!Release(t)
             \/ Pool!Resume(t) \/ Pool!WaitLooks(t)
      PROVE  Goal
  <2>1. UNCHANGED <<work, jobsDone, worker>>
    BY <1>1 DEF Pool!Create, Pool!Post, Pool!Wait, Pool!Preserve, Pool!Release, Pool!Resume,
                Pool!WaitLooks
  <2>2. pool'.jobs = pool.jobs
    <3>1. CASE Pool!Create(t)
      BY <3>1 DEF Pool!Create, PoolTypeOK, APool
    <3>2. CASE Pool!Post(t) \/ Pool!Wait(t) \/ Pool!Resume(t) \/ Pool!WaitLooks(t)
      BY <3>2 DEF Pool!Post, Pool!Wait, Pool!Resume, Pool!WaitLooks
    <3>3. CASE Pool!Preserve(t)
      BY <3>3 DEF Pool!Preserve, PoolTypeOK, APool
    <3>4. CASE Pool!Release(t)
      BY <3>4 DEF Pool!Release, PoolTypeOK, APool
    <3> QED BY <1>1, <3>1, <3>2, <3>3, <3>4
  <2> QED BY <2>1, <2>2, JobsStay
<1>2. ASSUME NEW t \in Posters, NEW pc \in PosterPcs, Pool!Spawn(t, pc),
             pool'.jobs = pool.jobs, UNCHANGED <<work, jobsDone>>
      PROVE  Goal
  <2>1. PICK w \in Workers :
                /\ worker[w].pc = "none"
                /\ worker'[w].pc = "start" /\ worker'[w].job = worker[w].job
                /\ \A v \in Workers \ {w} : worker'[v] = worker[v]
    BY <1>2, SpawnFacts
  <2> QED BY <1>2, <2>1, JobsStay
<1>3. ASSUME NEW t \in Posters, Pool!CreateNext(t) PROVE Goal
  <2>1. UNCHANGED <<work, jobsDone>>
    BY <1>3 DEF Pool!CreateNext
  <2>2. \/ Pool!Spawn(t, "creating") /\ pool' = [pool EXCEPT !.made = @ + 1]
        \/ pool' = [pool EXCEPT !.state = "listed"] /\ UNCHANGED worker
    BY <1>3 DEF Pool!CreateNext
  <2>3. pool'.jobs = pool.jobs
    BY <2>2 DEF PoolTypeOK, APool
  <2>4. "creating" \in PosterPcs
    BY PosterPcsType
  <2> QED BY <1>2, <2>1, <2>2, <2>3, <2>4, JobsStay
<1>4. ASSUME NEW t \in Posters, Pool!PostWaits(t) \/ Pool!NowaitStarts(t) PROVE Goal
  <2>1. UNCHANGED <<pool, work, jobsDone>>
    BY <1>4 DEF Pool!PostWaits, Pool!NowaitStarts
  <2>2. Pool!Spawn(t, "starting") \/ Pool!Spawn(t, "startnow") \/ UNCHANGED worker
    BY <1>4 DEF Pool!PostWaits, Pool!NowaitStarts
  <2>3. "starting" \in PosterPcs /\ "startnow" \in PosterPcs
    BY PosterPcsType
  <2> QED BY <1>2, <2>1, <2>2, <2>3, JobsStay
<1>5. ASSUME NEW w \in Workers, Pool!Start(w) PROVE Goal
  <2>1. /\ worker[w].pc = "start" /\ worker'[w].pc \in {"idle", "none"}
        /\ worker'[w].job = worker[w].job
        /\ \A v \in Workers \ {w} : worker'[v] = worker[v]
        /\ UNCHANGED <<work, jobsDone>>
        /\ \/ pool' = [pool EXCEPT !.num = @ + 1] \/ pool' = [pool EXCEPT !.state = "freed"]
           \/ pool' = pool
    BY <1>5, StartFacts DEF PhaseInv
  <2>2. pool'.jobs = pool.jobs
    BY <2>1 DEF PoolTypeOK, APool
  <2> QED BY <2>1, <2>2, JobsStay
<1>6. ASSUME NEW w \in Workers, Pool!Settle(w),
             \/ jobsDone' = jobsDone
             \/ worker[w].pc = "eval" /\ jobsDone' = jobsDone \cup {worker[w].job}
      PROVE  Goal
  <2>1. /\ \A v \in Workers \ {w} : worker'[v] = worker[v]
        /\ pool'.jobs = pool.jobs
        /\ \/ worker'[w].pc \in {"sleep", "leave"} /\ worker'[w].job = Pool!NoJob /\ work' = work
           \/ /\ worker'[w].pc = "eval" /\ work # <<>> /\ worker'[w].job = Head(work)
              /\ work' = Tail(work)
    BY <1>6, SettleFacts
  <2> QED BY <1>6, <2>1, WorkerTurns
<1>7. ASSUME NEW w \in Workers, Pool!Begin(w) PROVE Goal
  BY <1>6, <1>7 DEF Pool!Begin
<1>8. ASSUME NEW w \in Workers, Pool!Finish(w) PROVE Goal
  BY <1>6, <1>8 DEF Pool!Finish
<1>9. ASSUME NEW w \in Workers, Pool!Awake(w) PROVE Goal
  <2>1. worker[w].pc = "sleep" /\ pool' = [pool EXCEPT !.idle = @ - 1] /\ UNCHANGED jobsDone
    BY <1>9 DEF Pool!Awake
  <2>2. pool'.jobs = pool.jobs
    BY <2>1 DEF PoolTypeOK, APool
  <2>3. CASE pool.tear
    <3>1. worker' = [worker EXCEPT ![w].pc = "leave"] /\ UNCHANGED work
      BY <1>9, <2>3 DEF Pool!Awake
    <3>2. /\ worker'[w].pc = "leave" /\ worker'[w].job = worker[w].job
          /\ \A v \in Workers \ {w} : worker'[v] = worker[v]
      BY <3>1 DEF PoolTypeOK, AWorker
    <3> QED BY <2>1, <2>2, <3>1, <3>2, JobsStay
  <2>4. CASE ~pool.tear
    <3>1. /\ work # <<>> /\ work' = Tail(work)
          /\ worker' = [worker EXCEPT ![w] = [pc |-> "eval", job |-> Head(work)]]
      BY <1>9, <2>4 DEF Pool!Awake
    <3>2. /\ worker'[w].pc = "eval" /\ worker'[w].job = Head(work)
          /\ \A v \in Workers \ {w} : worker'[v] = worker[v]
      BY <3>1 DEF PoolTypeOK, AWorker
    <3> QED BY <2>1, <2>2, <3>1, <3>2, WorkerTurns
  <2> QED BY <2>3, <2>4
<1>10. ASSUME NEW w \in Workers, Pool!Leave(w) \/ Pool!TimeOut(w) PROVE Goal
  <2>1. /\ worker[w].pc \in {"leave", "sleep"}
        /\ \/ worker' = [worker EXCEPT ![w].pc = "none"]
           \/ worker' = [worker EXCEPT ![w].pc = "leave"]
        /\ pool' = [pool EXCEPT !.num = @ - 1] \/ pool' = [pool EXCEPT !.idle = @ - 1]
        /\ UNCHANGED <<work, jobsDone>>
    BY <1>10 DEF Pool!Leave, Pool!TimeOut
  <2>2. pool'.jobs = pool.jobs
    BY <2>1 DEF PoolTypeOK, APool
  <2>3. /\ worker'[w].pc \in {"none", "leave"} /\ worker'[w].job = worker[w].job
        /\ \A v \in Workers \ {w} : worker'[v] = worker[v]
    BY <2>1 DEF PoolTypeOK, AWorker
  <2> QED BY <2>1, <2>2, <2>3, JobsStay
<1> QED
  BY <1>1, <1>3, <1>4, <1>5, <1>7, <1>8, <1>9, <1>10, JobsPush, JobsCancel, JobsGet, JobsReap
     DEF Pool!Next, Pool!Command, Pool!Poster, Pool!Worker

\* No jobs at first.
LEMMA JobsStart == Pool!Init => JobsInv /\ Pool!Queue!Init
<1> SUFFICES ASSUME Pool!Init PROVE JobsInv /\ Pool!Queue!Init
  OBVIOUS
<1>1. /\ pool.jobs = 0 /\ work = <<>> /\ jobsDone = {}
      /\ worker = [w \in Workers |-> [pc |-> "none", job |-> Pool!NoJob]]
  BY DEF Pool!Init
<1>2. \A n : ~Has(work, n)
  BY <1>1 DEF Has
<1>3. Ascending(work)
  BY <1>1 DEF Ascending
<1>4. JobsInv
  <2>1. \A w \in Workers : /\ worker[w].pc # "eval" /\ worker[w].job = Pool!NoJob
                           /\ worker[w].job.n = 0
    BY <1>1 DEF Pool!NoJob
  <2> QED BY <1>1, <1>2, <1>3, <2>1 DEF JobsInv
<1>5. MaxJobs \in Nat
  BY PoolAssumption DEF Pool!PoolAssumption
<1>6. \A n \in 1..MaxJobs : Pool!Status(n) = "none"
  BY <1>1, <1>5, StatusOf
<1> QED BY <1>4, <1>6 DEF Pool!Queue!Init

\* The invariant, for every behaviour.
LEMMA PoolCorrect ==
    ASSUME UsedAlone
    PROVE  Spec => [](subject = "pool" => PoolTypeOK /\ PhaseInv /\ JobsInv)
<1> DEFINE Inv == subject = "pool" => PoolTypeOK /\ PhaseInv /\ JobsInv
<1>1. Init => Inv
  BY PoolStarts, JobsStart DEF Init
<1>2. Inv /\ [Next]_vars => Inv'
  <2> SUFFICES ASSUME Inv, [Next]_vars, subject' = "pool"
               PROVE  PoolTypeOK' /\ PhaseInv' /\ JobsInv'
    OBVIOUS
  <2>1. CASE UNCHANGED vars
    BY <2>1 DEF vars, planVars, poolVars, PoolTypeOK, PhaseInv, Counted, Alive, OneStarts, Starts,
                UsersOnly, WhileNone, WhileMade, WhileListed, WhileUnlisted, WhenFreed, Creates,
                Reaps, Sole, JobsInv, Running
  <2>2. CASE Next
    <3>1. subject = "pool" /\ Pool!Next
      BY <2>2 DEF Next, ThreadSteps, PoolSteps, SyncSteps, SvSteps
    <3>2. PoolTypeOK'
      BY <3>1, PoolTypeStep DEF PhaseInv
    <3> QED BY <3>1, <3>2, PhaseStep, JobsStep
  <2> QED BY <2>1, <2>2
<1> QED BY <1>1, <1>2, PTL DEF Spec

\* Nobody uses a pool that was freed: neither a thread that called one of its
\* commands nor a worker (TpoolRelease in threadPoolCmd.c), if one thread alone
\* uses a pool that is released.
THEOREM PoolFreedCorrect ==
    ASSUME UsedAlone
    PROVE  Spec => []PoolFreedIsUnused
<1>1. (subject = "pool" => PoolTypeOK /\ PhaseInv /\ JobsInv) => PoolFreedIsUnused
  BY DEF PoolFreedIsUnused, Pool!FreedIsUnused, PhaseInv, WhenFreed
<1>2. Spec => [](subject = "pool" => PoolTypeOK /\ PhaseInv /\ JobsInv)
  BY PoolCorrect
<1>3. QED BY <1>1, <1>2, PTL

\* Every step of the pool is one of the abstract queue of jobs, or none: a job is
\* run at most once, the oldest first, and is kept until it is collected,
\* cancelled or the pool goes (TpoolWorker and the tpool commands).
THEOREM QueueCorrect ==
    ASSUME UsedAlone
    PROVE  Spec => QueueImplemented
<1> DEFINE Inv == subject = "pool" => PoolTypeOK /\ PhaseInv /\ JobsInv
<1>1. Init => (subject = "pool" => Pool!Queue!Init)
  BY JobsStart DEF Init
<1>2. Inv /\ [Next]_vars => [subject = "pool" => Pool!Queue!Step]_vars
  <2> SUFFICES ASSUME Inv, Next, subject = "pool" PROVE Pool!Queue!Step
    OBVIOUS
  <2>1. Pool!Next
    BY DEF Next, ThreadSteps, PoolSteps, SyncSteps, SvSteps
  <2> QED BY <2>1, JobsStep
<1>3. Spec => []Inv
  BY PoolCorrect
<1> HIDE DEF Inv
<1> QED BY <1>1, <1>2, <1>3, PTL DEF Spec, QueueImplemented

-----------------------------------------------------------------------------
(* Mutexes: the inductive invariant *)

SyncPcs == {"script", "get", "lock", "asleep", "woken", "wait", "sleeping", "waking", "release"}
SyncOps == {"none", "lock", "rlock", "wlock", "destroy", "eval", "wait", "unlock"}
AThread == [pc : SyncPcs, op : SyncOps, mode : {"none", "r", "w"}, held : Nat]
AMutex == [freed : BOOLEAN, owner : SyncThreads \cup {Nobody}, count : Int,
           native : SyncThreads \cup {Nobody}, numrd : Int, numwr : Int]
SyncTypeOK ==
    /\ plan \in SyncPlans
    /\ thread \in [SyncThreads -> AThread]
    /\ mux \in AMutex

\* On the way to unlock it; on the condition variable; after the lock.
Unlocks(t) == thread[t].pc = "release" \/ (thread[t].pc = "get" /\ thread[t].op = "unlock")
Asleep(t) == thread[t].pc \in {"wait", "sleeping", "waking"}
Waits(t) == thread[t].pc \in {"lock", "asleep", "woken"}

\* Who has the mutex holds its native lock, and so does who begins to wait.
ExclusiveInv ==
    \A t \in SyncThreads :
        /\ thread[t].held <= 1
        /\ Sync!Has(t) \/ thread[t].pc = "wait" => mux.native = t

\* The owner has locked it as often as it says, and nobody else has.
RecursiveInv ==
    /\ mux.owner = Nobody => mux.count = 0
    /\ \A t \in SyncThreads :
         /\ thread[t].held > 0 => mux.owner = t
         /\ mux.owner = t => thread[t].held > 0 /\ mux.count = thread[t].held

\* Who asks for the read-write mutex does not have it, or is a writer that is
\* still to be refused.
Asks(t) ==
    /\ Waits(t) => thread[t].held = 0
    /\ thread[t].pc = "get" /\ thread[t].op \in {"rlock", "lock", "eval"} => thread[t].held = 0
    /\ thread[t].pc = "get" /\ thread[t].op = "wlock" => thread[t].mode # "r"

Holders == {t \in SyncThreads : thread[t].held = 1}
OneWriter ==
    mux.count = -1 /\ \A t \in Holders : t = mux.owner /\ thread[t].mode = "w"
OnlyReaders ==
    mux.count = Cardinality(Holders) /\ \A t \in Holders : thread[t].mode = "r"

ReadWriteInv ==
    /\ \A t \in SyncThreads :
         Asks(t) /\ thread[t].held <= 1 /\ (thread[t].held = 0 <=> thread[t].mode = "none")
    /\ IsFiniteSet(Holders)
    /\ OneWriter \/ OnlyReaders

SyncInv ==
    /\ SyncTypeOK
    /\ \A t \in SyncThreads : Unlocks(t) => thread[t].held > 0
    /\ plan.kind = "exclusive" => ExclusiveInv
    /\ plan.kind # "exclusive" => mux.native = Nobody /\ \A t \in SyncThreads : ~Asleep(t)
    /\ plan.kind \in {"recursive", "eval"} => RecursiveInv
    /\ plan.kind = "rw" => ReadWriteInv

LEMMA NobodyIsNoThread == Nobody \notin SyncThreads
BY SyncAssumption DEF Sync!SyncAssumption

-----------------------------------------------------------------------------
(* Types *)

LEMMA MutexType ==
    ASSUME SyncTypeOK
    PROVE  /\ mux.count \in Int /\ mux.count + 1 \in Int /\ mux.count - 1 \in Int
           /\ mux.numrd \in Int /\ mux.numrd + 1 \in Int /\ mux.numrd - 1 \in Int
           /\ mux.numrd - 1 + 1 \in Int /\ mux.numwr - 1 + 1 \in Int
           /\ mux.numwr \in Int /\ mux.numwr + 1 \in Int /\ mux.numwr - 1 \in Int
<1>1. mux.count \in Int /\ mux.numrd \in Int /\ mux.numwr \in Int
  BY DEF SyncTypeOK, AMutex
<1> QED BY <1>1

LEMMA GoesType ==
    ASSUME SyncTypeOK, NEW t \in SyncThreads, NEW pc \in SyncPcs, Sync!Goes(t, pc)
    PROVE  thread' \in [SyncThreads -> AThread]
BY DEF Sync!Goes, SyncTypeOK, AThread

LEMMA GotType ==
    ASSUME SyncTypeOK, NEW t \in SyncThreads, NEW mode \in {"r", "w"}, Sync!Got(t, mode)
    PROVE  thread' \in [SyncThreads -> AThread]
<1>1. "script" \in SyncPcs
  BY DEF SyncPcs
<1>2. thread[t] \in AThread
  BY DEF SyncTypeOK
<1>3. thread[t].held + 1 \in Nat
  <2>1. thread[t].held \in Nat
    BY <1>2 DEF AThread
  <2> QED BY <2>1
<1>4. [thread[t] EXCEPT !.pc = "script", !.mode = mode, !.held = @ + 1] \in AThread
  BY <1>1, <1>2, <1>3 DEF AThread
<1>5. thread' = [thread EXCEPT ![t] =
                   [thread[t] EXCEPT !.pc = "script", !.mode = mode, !.held = @ + 1]]
  BY <1>2 DEF Sync!Got, SyncTypeOK, AThread
<1> QED BY <1>4, <1>5 DEF SyncTypeOK

LEMMA UnlockedType ==
    ASSUME SyncTypeOK, NEW t \in SyncThreads, thread[t].held > 0, Sync!Unlocked(t, "script")
    PROVE  mux' \in AMutex /\ thread' \in [SyncThreads -> AThread]
<1>1. "script" \in SyncPcs /\ "woken" \in SyncPcs
  BY DEF SyncPcs
<1>2. mux' \in AMutex
  <2>1. mux \in AMutex
    BY DEF SyncTypeOK
  <2>2. PICK count, owner : mux' = [mux EXCEPT !.count = count, !.native = Nobody,
                                               !.owner = owner]
                            /\ owner \in {mux.owner, Nobody} /\ count \in {0, mux.count - 1}
    BY DEF Sync!Unlocked
  <2>3. mux' = [mux EXCEPT !.count = count, !.native = Nobody, !.owner = owner]
        /\ owner \in SyncThreads \cup {Nobody} /\ count \in Int
    BY <2>1, <2>2, MutexType DEF AMutex
  <2> QED BY <2>1, <2>3 DEF AMutex
<1>3. \A u \in SyncThreads : thread'[u] \in AThread
  <2> SUFFICES ASSUME NEW u \in SyncThreads PROVE thread'[u] \in AThread
    OBVIOUS
  <2>1. thread[u] \in AThread /\ thread[t] \in AThread
    BY DEF SyncTypeOK
  <2>2. thread'[u] \in {[thread[t] EXCEPT !.pc = "script", !.held = @ - 1, !.mode = "none"],
                        [thread[t] EXCEPT !.pc = "script", !.held = @ - 1],
                        [thread[u] EXCEPT !.pc = "woken"], thread[u]}
    BY <2>1 DEF Sync!Unlocked, AThread
  <2>3. thread[t].held - 1 \in Nat
    <3>1. thread[t].held \in Nat
      BY <2>1 DEF AThread
    <3> QED BY <3>1
  <2>4. [thread[t] EXCEPT !.pc = "script", !.held = @ - 1, !.mode = "none"] \in AThread
    BY <1>1, <2>1, <2>3 DEF AThread
  <2>5. [thread[t] EXCEPT !.pc = "script", !.held = @ - 1] \in AThread
    BY <1>1, <2>1, <2>3 DEF AThread
  <2> QED BY <1>1, <2>1, <2>2, <2>4, <2>5 DEF AThread
<1> QED BY <1>2, <1>3 DEF Sync!Unlocked

LEMMA AsksType ==
    ASSUME SyncTypeOK, NEW t \in SyncThreads, NEW pc \in SyncPcs, NEW op \in SyncOps,
           thread' = [thread EXCEPT ![t].pc = pc, ![t].op = op]
    PROVE  thread' \in [SyncThreads -> AThread]
<1>1. thread[t] \in AThread
  BY DEF SyncTypeOK
<1>2. [thread[t] EXCEPT !.pc = pc, !.op = op] \in AThread
  BY <1>1 DEF AThread
<1>3. thread' = [thread EXCEPT ![t] = [thread[t] EXCEPT !.pc = pc, !.op = op]]
  BY <1>1 DEF SyncTypeOK, AThread
<1> QED BY <1>2, <1>3 DEF SyncTypeOK

LEMMA BeginType ==
    ASSUME SyncTypeOK, NEW t \in SyncThreads, NEW op \in SyncOps, Sync!Begin(t, op)
    PROVE  SyncTypeOK'
<1>1. "get" \in SyncPcs /\ "lock" \in SyncPcs
  BY DEF SyncPcs
<1>2. PICK pc \in {"get", "lock"} : thread' = [thread EXCEPT ![t].pc = pc, ![t].op = op]
  BY DEF Sync!Begin
<1>3. pc \in SyncPcs
  BY <1>1
<1>4. thread' \in [SyncThreads -> AThread]
  BY <1>2, <1>3, AsksType
<1> QED BY <1>4 DEF Sync!Begin, SyncTypeOK

LEMMA SyncType ==
    ASSUME SyncTypeOK, NEW t \in SyncThreads, Unlocks(t) => thread[t].held > 0,
           Sync!Command(t) \/ Sync!Proceed(t) \/ Sync!Release(t)
    PROVE  SyncTypeOK'
<1>0. \A pc \in {"script", "get", "lock", "asleep", "woken", "wait", "sleeping", "waking",
                 "release"} : pc \in SyncPcs
  BY DEF SyncPcs
<1>1. CASE Sync!Command(t)
  <2>0. \A op \in {"lock", "rlock", "wlock", "destroy", "eval", "wait"} : op \in SyncOps
    BY DEF SyncOps
  <2>2. CASE Sync!Lock(t)
    BY <2>0, <2>2, BeginType DEF Sync!Lock
  <2>3. CASE Sync!Destroy(t) \/ Sync!Eval(t)
    BY <2>0, <2>3, BeginType DEF Sync!Destroy, Sync!Eval
  <2>4. CASE Sync!Wait(t)
    BY ZenonT(60), <1>0, <2>0, <2>4 DEF Sync!Wait, SyncTypeOK, AThread
  <2>5. CASE Sync!Notify(t)
    BY <1>0, <2>5 DEF Sync!Notify, SyncTypeOK, AThread
  <2>6. CASE Sync!CondDestroy(t)
    BY <2>6 DEF Sync!CondDestroy, SyncTypeOK
  <2> QED BY <1>1, <2>2, <2>3, <2>4, <2>5, <2>6 DEF Sync!Command
<1>2. CASE Sync!Look(t)
  <2>1. Sync!Goes(t, "script") \/ Sync!Goes(t, "lock")
    BY <1>2 DEF Sync!Look
  <2>2. mux' = mux /\ plan' = plan
    BY <1>2 DEF Sync!Look
  <2> QED BY <1>0, <2>1, <2>2, GoesType DEF SyncTypeOK
<1>3. CASE Sync!LookDestroy(t)
  <2>1. (mux.freed \/ ~Sync!IsLocked) \in BOOLEAN
    OBVIOUS
  <2>2. mux' \in AMutex
    BY <1>3, <2>1 DEF Sync!LookDestroy, SyncTypeOK, AMutex
  <2>3. thread' \in [SyncThreads -> AThread]
    BY <1>0, <1>3, GoesType DEF Sync!LookDestroy
  <2> QED BY <1>3, <2>2, <2>3 DEF Sync!LookDestroy, SyncTypeOK
<1>4. CASE Sync!LookUnlock(t)
  <2>1. thread[t].held > 0
    BY <1>4 DEF Sync!LookUnlock, Unlocks
  <2>2. CASE Sync!IsLocked
    BY <1>4, <2>1, <2>2, UnlockedType DEF Sync!LookUnlock, SyncTypeOK
  <2>3. CASE ~Sync!IsLocked
    <3>1. Sync!Goes(t, "script") /\ mux' = mux /\ plan' = plan
      BY <1>4, <2>3 DEF Sync!LookUnlock
    <3> QED BY <1>0, <3>1, GoesType DEF SyncTypeOK
  <2> QED BY <2>2, <2>3
<1>5. CASE Sync!ReleaseEval(t)
  BY <1>5, UnlockedType DEF Sync!ReleaseEval, Unlocks, SyncTypeOK
<1>6. CASE Sync!EvalEnds(t)
  BY <1>6, UnlockedType DEF Sync!EvalEnds, Sync!Evaluates, SyncTypeOK
<1>7. CASE Sync!LockExclusive(t)
  <2>1. mux' \in AMutex
    BY <1>7, MutexType DEF Sync!LockExclusive, SyncTypeOK, AMutex
  <2> QED BY <1>7, <2>1, GotType DEF Sync!LockExclusive, SyncTypeOK
<1>8. CASE Sync!LockRecursive(t)
  <2>1. mux' \in AMutex
    <3>1. CASE mux.owner \in {t, Nobody}
      <4>1. PICK c \in {1, mux.count + 1} : mux' = [mux EXCEPT !.owner = t, !.count = c]
        BY <1>8, <3>1 DEF Sync!LockRecursive, SyncTypeOK, AMutex
      <4>2. c \in Int
        BY MutexType
      <4> QED BY <4>1, <4>2 DEF SyncTypeOK, AMutex
    <3>2. CASE mux.owner \notin {t, Nobody}
      BY <1>8, <3>2 DEF Sync!LockRecursive, SyncTypeOK
    <3> QED BY <3>1, <3>2
  <2>2. Sync!Got(t, "w") \/ Sync!Goes(t, "asleep")
    BY <1>8 DEF Sync!LockRecursive
  <2> QED BY <1>0, <1>8, <2>1, <2>2, GotType, GoesType DEF Sync!LockRecursive, SyncTypeOK
<1>9. CASE Sync!LockRead(t)
  <2>1. mux' \in AMutex
    BY <1>9, MutexType DEF Sync!LockRead, SyncTypeOK, AMutex
  <2>2. Sync!Got(t, "r") \/ Sync!Goes(t, "asleep")
    BY <1>9 DEF Sync!LockRead
  <2> QED BY <1>0, <1>9, <2>1, <2>2, GotType, GoesType DEF Sync!LockRead, SyncTypeOK
<1>10. CASE Sync!LockWrite(t)
  <2>1. mux' \in AMutex
    <3>1. PICK wr \in {mux.numwr, mux.numwr - 1} :
            \/ mux' = [mux EXCEPT !.numwr = wr + 1]
            \/ mux' = [mux EXCEPT !.numwr = wr, !.count = -1, !.owner = t]
      BY <1>10 DEF Sync!LockWrite
    <3>2. wr \in Int /\ wr + 1 \in Int
      BY MutexType
    <3>3. -1 \in Int
      OBVIOUS
    <3>4. CASE mux' = [mux EXCEPT !.numwr = wr + 1]
      BY <3>2, <3>4 DEF SyncTypeOK, AMutex
    <3>5. CASE mux' = [mux EXCEPT !.numwr = wr, !.count = -1, !.owner = t]
      BY <3>2, <3>3, <3>5 DEF SyncTypeOK, AMutex
    <3> QED BY <3>1, <3>4, <3>5
  <2>2. Sync!Got(t, "w") \/ Sync!Goes(t, "asleep")
    BY <1>10 DEF Sync!LockWrite
  <2> QED BY <1>0, <1>10, <2>1, <2>2, GotType, GoesType DEF Sync!LockWrite, SyncTypeOK
<1>11. CASE Sync!WaitSleeps(t) \/ Sync!WaitTimesOut(t)
  <2>1. mux' \in AMutex
    BY <1>11 DEF Sync!WaitSleeps, Sync!WaitTimesOut, SyncTypeOK, AMutex
  <2>2. Sync!Goes(t, "sleeping") \/ Sync!Goes(t, "waking")
    BY <1>11 DEF Sync!WaitSleeps, Sync!WaitTimesOut
  <2> QED BY <1>0, <1>11, <2>1, <2>2, GoesType
          DEF Sync!WaitSleeps, Sync!WaitTimesOut, SyncTypeOK
<1>12. CASE Sync!WaitEnds(t)
  <2>1. "lock" \in SyncOps
    BY DEF SyncOps
  <2> QED BY ZenonT(60), <1>0, <1>12, <2>1 DEF Sync!WaitEnds, SyncTypeOK, AThread, AMutex
<1>13. CASE Sync!Unlock(t)
  <2>1. "unlock" \in SyncOps
    BY DEF SyncOps
  <2>2. PICK pc \in {"get", "release"} :
           thread' = [thread EXCEPT ![t].pc = pc, ![t].op = "unlock"]
    BY <1>13 DEF Sync!Unlock
  <2>3. pc \in SyncPcs
    BY <1>0
  <2>4. thread' \in [SyncThreads -> AThread]
    BY <2>1, <2>2, <2>3, AsksType
  <2> QED BY <1>13, <2>4 DEF Sync!Unlock, SyncTypeOK
<1> QED
  BY <1>1, <1>2, <1>3, <1>4, <1>5, <1>6, <1>7, <1>8, <1>9, <1>10, <1>11, <1>12, <1>13
     DEF Sync!Proceed, Sync!Release

-----------------------------------------------------------------------------
(* Steps that change neither who has the mutex nor how often *)

\* What a step of another thread leaves to u: who is asleep may be woken.
Left(u) ==
    /\ thread'[u].op = thread[u].op /\ thread'[u].mode = thread[u].mode
    /\ thread'[u].held = thread[u].held
    /\ \/ thread'[u].pc = thread[u].pc
       \/ thread[u].pc = "asleep" /\ thread'[u].pc = "woken"
       \/ thread[u].pc = "sleeping" /\ thread'[u].pc = "waking"

Quiet(t) ==
    /\ plan' = plan /\ \A u \in SyncThreads \ {t} : Left(u)
    /\ mux'.owner = mux.owner /\ mux'.count = mux.count /\ mux'.native = mux.native
    /\ thread'[t].mode = thread[t].mode /\ thread'[t].held = thread[t].held
    /\ Unlocks(t)' => thread[t].held > 0
    /\ thread[t].pc \in {"sleeping", "waking"} => thread'[t].pc = "waking"
    /\ Asleep(t)' => Asleep(t) \/ mux.native = t
    /\ thread'[t].pc = "wait" => mux.native = t
    /\ plan.kind = "rw" => Asks(t)'

LEMMA MutexQuietKeeps ==
    ASSUME SyncInv, SyncTypeOK', NEW t \in SyncThreads, Quiet(t)
    PROVE  SyncInv'
<1>1. \A u \in SyncThreads : thread'[u].held = thread[u].held /\ thread'[u].mode = thread[u].mode
  BY DEF Quiet, Left
<1>2. \A u \in SyncThreads : Unlocks(u)' => thread'[u].held > 0
  BY <1>1 DEF SyncInv, Quiet, Left, Unlocks
<1>3. ASSUME plan.kind = "exclusive" PROVE ExclusiveInv'
  <2> SUFFICES ASSUME NEW u \in SyncThreads
               PROVE  /\ thread'[u].held <= 1
                      /\ Sync!Has(u)' \/ thread'[u].pc = "wait" => mux'.native = u
    BY DEF ExclusiveInv
  <2>1. thread[u].held <= 1 /\ (Sync!Has(u) \/ thread[u].pc = "wait" => mux.native = u)
    BY <1>3 DEF SyncInv, ExclusiveInv
  <2>2. Sync!Has(u)' => Sync!Has(u)
    BY <1>1 DEF Sync!Has, Quiet, Left
  <2>3. thread'[u].pc = "wait" => mux.native = u
    BY <2>1 DEF Quiet, Left
  <2> QED BY <1>1, <2>1, <2>2, <2>3 DEF Quiet
<1>4. ASSUME plan.kind # "exclusive"
      PROVE  mux'.native = Nobody /\ \A u \in SyncThreads : ~Asleep(u)'
  BY <1>4, NobodyIsNoThread DEF SyncInv, Quiet, Left, Asleep
<1>5. ASSUME plan.kind \in {"recursive", "eval"} PROVE RecursiveInv'
  BY <1>1, <1>5 DEF SyncInv, RecursiveInv, Quiet
<1>6. ASSUME plan.kind = "rw" PROVE ReadWriteInv'
  <2>0. ReadWriteInv
    BY <1>6 DEF SyncInv
  <2>1. Holders' = Holders
    BY <1>1 DEF Holders
  <2>2. \A u \in SyncThreads : Asks(u)'
    <3> SUFFICES ASSUME NEW u \in SyncThreads PROVE Asks(u)'
      OBVIOUS
    <3>1. CASE u = t
      BY <1>6, <3>1 DEF Quiet
    <3>2. CASE u # t
      BY <2>0, <3>2 DEF Quiet, Left, Asks, Waits, ReadWriteInv
    <3> QED BY <3>1, <3>2
  <2>3. \A u \in SyncThreads :
          thread'[u].held <= 1 /\ (thread'[u].held = 0 <=> thread'[u].mode = "none")
    BY <1>1, <2>0 DEF ReadWriteInv
  <2>4. OneWriter => OneWriter'
    BY <1>1, <2>1 DEF Quiet, OneWriter, Holders
  <2>5. OnlyReaders => OnlyReaders'
    BY <1>1, <2>1 DEF Quiet, OnlyReaders, Holders
  <2> QED BY <2>0, <2>1, <2>2, <2>3, <2>4, <2>5 DEF ReadWriteInv, Quiet
<1>7. plan' = plan
  BY DEF Quiet
<1> QED BY <1>2, <1>3, <1>4, <1>5, <1>6, <1>7 DEF SyncInv

LEMMA GoesFacts ==
    ASSUME SyncTypeOK, NEW t \in SyncThreads, NEW pc, Sync!Goes(t, pc)
    PROVE  /\ thread'[t].pc = pc /\ thread'[t].op = thread[t].op
           /\ thread'[t].mode = thread[t].mode /\ thread'[t].held = thread[t].held
           /\ \A u \in SyncThreads \ {t} : thread'[u] = thread[u] /\ Left(u)
BY DEF Sync!Goes, SyncTypeOK, AThread, Left

LEMMA AsksFacts ==
    ASSUME SyncTypeOK, NEW t \in SyncThreads, NEW pc, NEW op,
           thread' = [thread EXCEPT ![t].pc = pc, ![t].op = op]
    PROVE  /\ thread'[t].pc = pc /\ thread'[t].op = op
           /\ thread'[t].mode = thread[t].mode /\ thread'[t].held = thread[t].held
           /\ \A u \in SyncThreads \ {t} : thread'[u] = thread[u] /\ Left(u)
BY DEF SyncTypeOK, AThread, Left

LEMMA GotFacts ==
    ASSUME SyncTypeOK, NEW t \in SyncThreads, NEW mode, Sync!Got(t, mode)
    PROVE  /\ thread'[t].pc = "script" /\ thread'[t].op = thread[t].op
           /\ thread'[t].mode = mode /\ thread'[t].held = thread[t].held + 1
           /\ \A u \in SyncThreads \ {t} : thread'[u] = thread[u] /\ Left(u)
BY DEF Sync!Got, SyncTypeOK, AThread, Left

LEMMA UnlockedFacts ==
    ASSUME SyncTypeOK, NEW t \in SyncThreads, Sync!Unlocked(t, "script")
    PROVE  /\ thread'[t].pc = "script" /\ thread'[t].op = thread[t].op
           /\ thread'[t].mode = IF thread[t].held = 1 THEN "none" ELSE thread[t].mode
           /\ thread'[t].held = thread[t].held - 1
           /\ \A u \in SyncThreads \ {t} : Left(u)
<1>1. thread[t] \in AThread
  BY DEF SyncTypeOK
<1>2. thread'[t] = [thread[t] EXCEPT !.pc = "script", !.held = @ - 1,
                                     !.mode = IF thread[t].held = 1 THEN "none" ELSE @]
  BY DEF Sync!Unlocked
<1>3. ASSUME NEW u \in SyncThreads \ {t} PROVE Left(u)
  <2>1. \/ thread'[u] = thread[u]
        \/ thread[u].pc = "asleep" /\ thread'[u] = [thread[u] EXCEPT !.pc = "woken"]
    BY DEF Sync!Unlocked
  <2>2. thread[u] \in AThread
    BY DEF SyncTypeOK
  <2> QED BY <2>1, <2>2 DEF AThread, Left
<1> QED BY <1>1, <1>2, <1>3 DEF AThread

LEMMA BeginQuiet ==
    ASSUME SyncInv, NEW t \in SyncThreads, Sync!Lock(t) \/ Sync!Destroy(t) \/ Sync!Eval(t)
    PROVE  Quiet(t)
<1>1. PICK op \in {"lock", "rlock", "wlock", "destroy", "eval"} :
        /\ Sync!Begin(t, op)
        /\ op \in {"lock", "eval"} => plan.kind # "rw"
        /\ op = "rlock" => thread[t].held = 0
        /\ op = "wlock" => thread[t].mode # "r"
  BY DEF Sync!Lock, Sync!Destroy, Sync!Eval
<1>2. PICK pc \in {"get", "lock"} :
        /\ thread' = [thread EXCEPT ![t].pc = pc, ![t].op = op]
        /\ pc = "lock" => plan.kind = "eval"
  BY <1>1 DEF Sync!Begin
<1>3. thread[t].pc = "script" /\ mux' = mux /\ plan' = plan
  BY <1>1 DEF Sync!Begin
<1>4. SyncTypeOK
  BY DEF SyncInv
<1>5. /\ thread'[t].pc = pc /\ thread'[t].op = op
      /\ thread'[t].mode = thread[t].mode /\ thread'[t].held = thread[t].held
      /\ \A u \in SyncThreads \ {t} : Left(u)
  BY ZenonT(60), <1>2, <1>4, AsksFacts
<1> QED BY <1>1, <1>2, <1>3, <1>5 DEF Quiet, Unlocks, Asleep, Asks, Waits

LEMMA LookQuiet ==
    ASSUME SyncInv, NEW t \in SyncThreads, Sync!Look(t)
    PROVE  Quiet(t)
<1>1. /\ thread[t].pc = "get" /\ thread[t].op \in {"lock", "eval", "rlock", "wlock"}
      /\ mux' = mux /\ plan' = plan
  BY DEF Sync!Look
<1>2. PICK pc \in {"script", "lock"} : Sync!Goes(t, pc)
  BY DEF Sync!Look
<1>3. SyncTypeOK
  BY DEF SyncInv
<1>4. /\ thread'[t].pc = pc /\ thread'[t].op = thread[t].op
      /\ thread'[t].mode = thread[t].mode /\ thread'[t].held = thread[t].held
      /\ \A u \in SyncThreads \ {t} : Left(u)
  BY <1>2, <1>3, GoesFacts
<1>5. ASSUME plan.kind = "rw", pc = "lock" PROVE thread[t].held = 0
  <2>1. ReadWriteInv
    BY <1>5 DEF SyncInv
  <2>2. CASE thread[t].op # "wlock"
    BY <1>1, <2>1, <2>2 DEF ReadWriteInv, Asks
  <2>3. CASE thread[t].op = "wlock"
    <3>1. ~(mux.count # 0 /\ mux.owner = t)
      <4>1. SUFFICES ASSUME mux.count # 0, mux.owner = t PROVE FALSE
        OBVIOUS
      <4>2. Sync!Goes(t, "script")
        BY <1>5, <2>3, <4>1 DEF Sync!Look, Sync!IsLocked
      <4>3. thread'[t].pc = "script"
        BY <1>3, <4>2, GoesFacts
      <4> QED BY <1>4, <1>5, <4>3
    <3>2. thread[t].mode # "r"
      BY <1>1, <2>1, <2>3 DEF ReadWriteInv, Asks
    <3>3. thread[t].held \in {0, 1}
      <4>1. thread[t].held \in Nat
        BY <1>3 DEF SyncTypeOK, AThread
      <4>2. thread[t].held <= 1
        BY <2>1 DEF ReadWriteInv
      <4> QED BY <4>1, <4>2
    <3>4. t \notin Holders
      <4>1. CASE OneWriter
        <5>1. mux.owner # t
          BY <3>1, <4>1 DEF OneWriter
        <5> QED BY <4>1, <5>1 DEF OneWriter
      <4>2. CASE OnlyReaders
        BY <3>2, <4>2 DEF OnlyReaders
      <4> QED BY <2>1, <4>1, <4>2 DEF ReadWriteInv
    <3> QED BY <3>3, <3>4 DEF Holders
  <2> QED BY <2>2, <2>3
<1> QED BY <1>1, <1>2, <1>4, <1>5 DEF Quiet, Unlocks, Asleep, Asks, Waits

LEMMA MoveQuiet ==
    ASSUME SyncInv, NEW t \in SyncThreads,
           \/ Sync!LookDestroy(t) \/ Sync!WaitTimesOut(t)
           \/ Sync!LookUnlock(t) /\ ~Sync!IsLocked
    PROVE  Quiet(t)
<1>1. PICK pc \in {"script", "waking"} :
        /\ Sync!Goes(t, pc)
        /\ pc = "script" => thread[t].pc = "get"
        /\ pc = "waking" => thread[t].pc = "sleeping"
  BY DEF Sync!LookDestroy, Sync!WaitTimesOut, Sync!LookUnlock
<1>2. SyncTypeOK
  BY DEF SyncInv
<1>3. /\ thread'[t].pc = pc /\ thread'[t].op = thread[t].op
      /\ thread'[t].mode = thread[t].mode /\ thread'[t].held = thread[t].held
      /\ \A u \in SyncThreads \ {t} : Left(u)
  BY <1>1, <1>2, GoesFacts
<1>4. /\ mux'.owner = mux.owner /\ mux'.count = mux.count /\ mux'.native = mux.native
      /\ plan' = plan
  BY <1>2 DEF Sync!LookDestroy, Sync!WaitTimesOut, Sync!LookUnlock, SyncTypeOK, AMutex
<1> QED BY <1>1, <1>3, <1>4 DEF Quiet, Unlocks, Asleep, Asks, Waits

\* A lock that is not got.
LEMMA SleepQuiet ==
    ASSUME SyncInv, NEW t \in SyncThreads,
           \/ Sync!LockRecursive(t) /\ mux.owner \notin {t, Nobody}
           \/ Sync!LockRead(t) /\ (mux.count < 0 \/ mux.numwr > 0)
           \/ Sync!LockWrite(t) /\ mux.count # 0
    PROVE  Quiet(t)
<1>1. Sync!Goes(t, "asleep") /\ thread[t].pc \in {"lock", "woken"} /\ plan' = plan
  BY DEF Sync!LockRecursive, Sync!LockRead, Sync!LockWrite
<1>2. SyncTypeOK
  BY DEF SyncInv
<1>3. /\ thread'[t].pc = "asleep" /\ thread'[t].op = thread[t].op
      /\ thread'[t].mode = thread[t].mode /\ thread'[t].held = thread[t].held
      /\ \A u \in SyncThreads \ {t} : Left(u)
  BY <1>1, <1>2, GoesFacts
<1>4. mux'.owner = mux.owner /\ mux'.count = mux.count /\ mux'.native = mux.native
  BY <1>2 DEF Sync!LockRecursive, Sync!LockRead, Sync!LockWrite, SyncTypeOK, AMutex
<1>5. plan.kind = "rw" => thread[t].held = 0
  BY <1>1 DEF SyncInv, ReadWriteInv, Asks, Waits
<1> QED BY <1>1, <1>3, <1>4, <1>5 DEF Quiet, Unlocks, Asleep, Asks, Waits

LEMMA ScriptQuiet ==
    ASSUME SyncInv, NEW t \in SyncThreads,
           Sync!Wait(t) \/ Sync!Notify(t) \/ Sync!CondDestroy(t) \/ Sync!Unlock(t)
    PROVE  Quiet(t)
<1>1. SyncTypeOK
  BY DEF SyncInv
<1>2. mux' = mux /\ plan' = plan /\ thread[t].pc = "script"
  BY DEF Sync!Wait, Sync!Notify, Sync!CondDestroy, Sync!Unlock
<1>3. CASE Sync!Wait(t)
  <2>1. /\ thread'[t].pc = "wait" /\ thread'[t].op = "wait"
        /\ thread'[t].mode = thread[t].mode /\ thread'[t].held = thread[t].held
        /\ \A u \in SyncThreads \ {t} : thread'[u] = thread[u] /\ Left(u)
    <3>1. thread' = [thread EXCEPT ![t].pc = "wait", ![t].op = "wait"]
      BY <1>3 DEF Sync!Wait
    <3> QED BY <1>1, <3>1, AsksFacts
  <2>2. mux.native = t
    BY <1>3 DEF Sync!Wait
  <2> QED BY <1>2, <2>1, <2>2 DEF Quiet, Unlocks, Asleep, Asks, Waits
<1>4. CASE Sync!Notify(t)
  <2>1. ASSUME NEW u \in SyncThreads PROVE Left(u) /\ (thread[u].pc = "script" => thread'[u] = thread[u])
    <3>1. thread[u] \in AThread
      BY <1>1 DEF SyncTypeOK
    <3>2. \/ thread'[u] = thread[u]
          \/ thread[u].pc = "sleeping" /\ thread'[u] = [thread[u] EXCEPT !.pc = "waking"]
      BY <1>4 DEF Sync!Notify
    <3> QED BY <3>1, <3>2 DEF AThread, Left
  <2> QED BY <1>2, <2>1 DEF Quiet, Unlocks, Asleep, Asks, Waits
<1>5. CASE Sync!CondDestroy(t)
  <2>1. thread' = thread
    BY <1>5 DEF Sync!CondDestroy
  <2> QED BY <1>2, <2>1 DEF Quiet, Left, Unlocks, Asleep, Asks, Waits
<1>6. CASE Sync!Unlock(t)
  <2>1. PICK pc \in {"get", "release"} : thread' = [thread EXCEPT ![t].pc = pc, ![t].op = "unlock"]
    BY <1>6 DEF Sync!Unlock
  <2>2. /\ thread'[t].pc = pc /\ thread'[t].op = "unlock"
        /\ thread'[t].mode = thread[t].mode /\ thread'[t].held = thread[t].held
        /\ \A u \in SyncThreads \ {t} : Left(u)
    BY ZenonT(60), <1>1, <2>1, AsksFacts
  <2>3. thread[t].held > 0
    BY <1>6 DEF Sync!Unlock
  <2> QED BY <1>2, <2>2, <2>3 DEF Quiet, Unlocks, Asleep, Asks, Waits
<1> QED BY <1>3, <1>4, <1>5, <1>6

-----------------------------------------------------------------------------
(* Steps that get, give up or give back the mutex *)

\* What they leave of the invariant without regard to the kind.
Others(t) ==
    /\ plan' = plan /\ \A u \in SyncThreads \ {t} : Left(u)
    /\ ~Unlocks(t)' /\ (Asleep(t)' => Asleep(t))

LEMMA OthersKeep ==
    ASSUME SyncInv, NEW t \in SyncThreads, Others(t)
    PROVE  /\ \A u \in SyncThreads : Unlocks(u)' => thread'[u].held > 0
           /\ plan.kind # "exclusive" => \A u \in SyncThreads : ~Asleep(u)'
<1>1. \A u \in SyncThreads : Unlocks(u)' => thread'[u].held > 0
  BY DEF SyncInv, Others, Left, Unlocks
<1>2. plan.kind # "exclusive" => \A u \in SyncThreads : ~Asleep(u)'
  BY DEF SyncInv, Others, Left, Asleep
<1> QED BY <1>1, <1>2

LEMMA ExclusiveKept ==
    ASSUME SyncInv, SyncTypeOK', plan.kind = "exclusive", NEW t \in SyncThreads,
           \/ Sync!LockExclusive(t) \/ Sync!WaitSleeps(t) \/ Sync!WaitEnds(t)
           \/ Sync!Unlocked(t, "script") /\ thread[t].held > 0 /\ plan' = plan
              /\ thread[t].pc \notin {"sleeping", "waking"}
    PROVE  SyncInv'
<1>1. ExclusiveInv /\ SyncTypeOK
  BY DEF SyncInv
<1>2. \A u \in SyncThreads :
        (thread[u].held > 0 /\ thread[u].pc \notin {"sleeping", "waking"}) \/ thread[u].pc = "wait"
        => mux.native = u
  BY <1>1 DEF ExclusiveInv, Sync!Has
<1>3. \A u \in SyncThreads : thread[u].held <= 1 /\ thread[u].held \in Nat
  BY <1>1 DEF ExclusiveInv, SyncTypeOK, AThread
<1>4. SUFFICES
        /\ Others(t)
        /\ \A u \in SyncThreads :
             /\ thread'[u].held <= 1
             /\ (thread'[u].held > 0 /\ thread'[u].pc \notin {"sleeping", "waking"})
                  \/ thread'[u].pc = "wait" => mux'.native = u
  <2>1. ExclusiveInv'
    BY <1>4 DEF ExclusiveInv, Sync!Has
  <2>2. plan' = plan
    BY <1>4 DEF Others
  <2> QED BY <1>4, <2>1, <2>2, OthersKeep DEF SyncInv
<1>5. CASE Sync!LockExclusive(t)
  <2>1. mux.native = Nobody /\ Sync!Got(t, "w") /\ plan' = plan /\ thread[t].pc = "lock"
    BY <1>5 DEF Sync!LockExclusive
  <2>2. mux'.native = t
    BY <1>1, <1>5 DEF Sync!LockExclusive, SyncTypeOK, AMutex
  <2>3. thread[t].held = 0
    BY <1>2, <1>3, <2>1, NobodyIsNoThread
  <2> QED BY <1>1, <1>2, <1>3, <2>1, <2>2, <2>3, GotFacts, NobodyIsNoThread
          DEF Others, Left, Unlocks, Asleep
<1>6. CASE Sync!WaitSleeps(t)
  <2>1. mux.native = t /\ Sync!Goes(t, "sleeping") /\ plan' = plan /\ thread[t].pc = "wait"
    BY <1>2, <1>6 DEF Sync!WaitSleeps
  <2> QED BY <1>1, <1>2, <1>3, <2>1, GoesFacts DEF Others, Left, Unlocks, Asleep
<1>7. CASE Sync!WaitEnds(t)
  <2>1. /\ mux.native = Nobody /\ plan' = plan /\ thread[t].pc = "waking"
        /\ thread' = [thread EXCEPT ![t].pc = "script", ![t].op = "lock"]
    BY <1>7 DEF Sync!WaitEnds
  <2>2. mux'.native = t
    BY <1>1, <1>7 DEF Sync!WaitEnds, SyncTypeOK, AMutex
  <2>3. /\ thread'[t].pc = "script" /\ thread'[t].held = thread[t].held
        /\ \A u \in SyncThreads \ {t} : thread'[u] = thread[u] /\ Left(u)
    BY <1>1, <2>1, AsksFacts
  <2>4. Others(t)
    BY <2>1, <2>3 DEF Others, Unlocks, Asleep
  <2> QED BY <1>2, <1>3, <2>1, <2>2, <2>3, <2>4, NobodyIsNoThread
<1>8. CASE /\ Sync!Unlocked(t, "script") /\ thread[t].held > 0 /\ plan' = plan
           /\ thread[t].pc \notin {"sleeping", "waking"}
  <2>1. mux.native = t
    BY <1>2, <1>8
  <2>2. /\ thread'[t].pc = "script" /\ thread'[t].held = thread[t].held - 1
        /\ \A u \in SyncThreads \ {t} : Left(u)
    BY <1>1, <1>8, UnlockedFacts
  <2>3. Others(t)
    BY <1>8, <2>2 DEF Others, Unlocks, Asleep
  <2>4. thread'[t].held = 0
    BY <1>3, <1>8, <2>2
  <2>5. \A u \in SyncThreads \ {t} : thread[u].held = 0 \/ thread[u].pc \in {"sleeping", "waking"}
    BY <1>2, <1>3, <2>1
  <2>6. \A u \in SyncThreads \ {t} : thread[u].pc # "wait"
    BY <1>2, <2>1
  <2> QED BY <1>3, <2>2, <2>3, <2>4, <2>5, <2>6 DEF Left
<1> QED BY <1>5, <1>6, <1>7, <1>8

LEMMA RecursiveKept ==
    ASSUME SyncInv, SyncTypeOK', plan.kind \in {"recursive", "eval"}, NEW t \in SyncThreads,
           \/ Sync!LockRecursive(t) /\ mux.owner \in {t, Nobody}
           \/ Sync!Unlocked(t, "script") /\ thread[t].held > 0 /\ plan' = plan
    PROVE  SyncInv'
<1>1. RecursiveInv /\ SyncTypeOK /\ mux.native = Nobody
  BY DEF SyncInv
<1>2. \A u \in SyncThreads : thread[u].held \in Nat
  BY <1>1 DEF SyncTypeOK, AThread
<1>3. SUFFICES Others(t) /\ mux'.native = Nobody /\ RecursiveInv'
  <2>1. plan' = plan
    BY <1>3 DEF Others
  <2> QED BY <1>3, <2>1, OthersKeep DEF SyncInv
<1>4. CASE Sync!LockRecursive(t) /\ mux.owner \in {t, Nobody}
  <2>1. Sync!Got(t, "w") /\ plan' = plan
    BY <1>4 DEF Sync!LockRecursive
  <2>2. /\ mux'.native = mux.native /\ mux'.owner = t
        /\ mux'.count = IF mux.owner = t THEN mux.count + 1 ELSE 1
    BY <1>1, <1>4 DEF Sync!LockRecursive, SyncTypeOK, AMutex
  <2>3. Others(t)
    BY <1>1, <2>1, GotFacts DEF Others, Unlocks, Asleep
  <2>4. /\ thread'[t].held = thread[t].held + 1
        /\ \A u \in SyncThreads \ {t} : thread'[u].held = thread[u].held
    BY <1>1, <2>1, GotFacts
  <2>5. \A u \in SyncThreads \ {t} : thread[u].held = 0
    BY <1>1, <1>2, <1>4, NobodyIsNoThread DEF RecursiveInv
  <2>6. mux.owner # t => thread[t].held = 0
    BY <1>1, <1>2 DEF RecursiveInv
  <2>7. mux.owner = t => mux.count = thread[t].held
    BY <1>1 DEF RecursiveInv
  <2> QED BY <1>1, <1>2, <2>2, <2>3, <2>4, <2>5, <2>6, <2>7, NobodyIsNoThread DEF RecursiveInv
<1>5. CASE Sync!Unlocked(t, "script") /\ thread[t].held > 0 /\ plan' = plan
  <2>1. mux.owner = t /\ mux.count = thread[t].held
    BY <1>1, <1>5 DEF RecursiveInv
  <2>2. /\ mux'.native = Nobody /\ mux'.count = mux.count - 1
        /\ mux'.owner = IF mux.count - 1 > 0 THEN mux.owner ELSE Nobody
    BY <1>1, <1>5 DEF Sync!Unlocked, SyncTypeOK, AMutex
  <2>3. Others(t)
    BY <1>1, <1>5, UnlockedFacts DEF Others, Unlocks, Asleep
  <2>4. /\ thread'[t].held = thread[t].held - 1
        /\ \A u \in SyncThreads \ {t} : thread'[u].held = thread[u].held
    BY <1>1, <1>5, UnlockedFacts DEF Left
  <2>5. \A u \in SyncThreads \ {t} : thread[u].held = 0
    BY <1>1, <1>2, <2>1 DEF RecursiveInv
  <2> QED BY <1>2, <1>5, <2>1, <2>2, <2>3, <2>4, <2>5, NobodyIsNoThread DEF RecursiveInv
<1> QED BY <1>4, <1>5

LEMMA ReadWriteKept ==
    ASSUME SyncInv, SyncTypeOK', plan.kind = "rw", NEW t \in SyncThreads,
           \/ Sync!LockRead(t) /\ ~(mux.count < 0 \/ mux.numwr > 0)
           \/ Sync!LockWrite(t) /\ mux.count = 0
           \/ Sync!Unlocked(t, "script") /\ thread[t].held > 0 /\ plan' = plan
    PROVE  SyncInv'
<1>1. ReadWriteInv /\ SyncTypeOK /\ mux.native = Nobody
  BY DEF SyncInv
<1>2. \A u \in SyncThreads : thread[u].held \in Nat
  BY <1>1 DEF SyncTypeOK, AThread
<1>3. \A u \in SyncThreads : thread[u].held <= 1 /\ Asks(u)
  BY <1>1 DEF ReadWriteInv
<1>4. IsFiniteSet(Holders) /\ Cardinality(Holders) \in Nat /\ (Cardinality(Holders) = 0 <=> Holders = {})
  BY <1>1, FS_CardinalityType, FS_EmptySet DEF ReadWriteInv
<1>5. \A u \in SyncThreads \ {t} : Left(u) => Asks(u)'
  BY <1>3 DEF Left, Asks, Waits
<1>6. \A u \in SyncThreads : thread[u].held = 0 <=> thread[u].mode = "none"
  BY <1>1 DEF ReadWriteInv
<1>7. SUFFICES Others(t) /\ mux'.native = Nobody /\ ReadWriteInv'
  <2>1. plan' = plan
    BY <1>7 DEF Others
  <2> QED BY <1>7, <2>1, OthersKeep DEF SyncInv
<1>8. CASE Sync!LockRead(t) /\ ~(mux.count < 0 \/ mux.numwr > 0)
  <2>1. Sync!Got(t, "r") /\ plan' = plan /\ thread[t].pc \in {"lock", "woken"}
    BY <1>8 DEF Sync!LockRead
  <2>2. mux'.native = mux.native /\ mux'.count = mux.count + 1
    BY <1>1, <1>8 DEF Sync!LockRead, SyncTypeOK, AMutex
  <2>3. /\ thread'[t].pc = "script" /\ thread'[t].mode = "r"
        /\ thread'[t].held = thread[t].held + 1
        /\ \A u \in SyncThreads \ {t} : thread'[u] = thread[u] /\ Left(u)
    BY <1>1, <2>1, GotFacts
  <2>4. thread[t].held = 0
    BY <1>3, <2>1 DEF Asks, Waits
  <2>5. Holders' = Holders \cup {t} /\ t \notin Holders
    BY <2>3, <2>4 DEF Holders
  <2>6. mux.count = Cardinality(Holders) /\ \A u \in Holders : thread[u].mode = "r"
    <3>1. mux.count # -1
      BY <1>8
    <3> QED BY <1>1, <3>1 DEF ReadWriteInv, OneWriter, OnlyReaders
  <2>7. IsFiniteSet(Holders') /\ Cardinality(Holders') = Cardinality(Holders) + 1
    BY <1>4, <2>5, FS_AddElement
  <2>8. \A u \in SyncThreads :
          Asks(u)' /\ thread'[u].held <= 1 /\ (thread'[u].held = 0 <=> thread'[u].mode = "none")
    <3>1. Asks(t)' /\ thread'[t].held = 1
      BY <2>3, <2>4 DEF Asks, Waits
    <3>2. \A u \in SyncThreads : Asks(u)' /\ thread'[u].held <= 1
      BY <1>3, <1>5, <2>3, <3>1
    <3>3. ASSUME NEW u \in SyncThreads PROVE thread'[u].held = 0 <=> thread'[u].mode = "none"
      <4>1. CASE u = t
        BY <2>3, <3>1, <4>1
      <4>2. CASE u # t
        BY <1>6, <2>3, <4>2
      <4> QED BY <4>1, <4>2
    <3> QED BY <3>2, <3>3
  <2>9. OnlyReaders'
    BY <2>2, <2>3, <2>5, <2>6, <2>7 DEF OnlyReaders, Holders
  <2>10. Others(t)
    BY <2>1, <2>3 DEF Others, Unlocks, Asleep
  <2> QED BY <1>1, <2>2, <2>6, <2>7, <2>8, <2>9, <2>10 DEF ReadWriteInv
<1>9. CASE Sync!LockWrite(t) /\ mux.count = 0
  <2>1. Sync!Got(t, "w") /\ plan' = plan /\ thread[t].pc \in {"lock", "woken"}
    BY <1>9 DEF Sync!LockWrite
  <2>2. mux'.native = mux.native /\ mux'.count = -1 /\ mux'.owner = t
    BY <1>1, <1>9 DEF Sync!LockWrite, SyncTypeOK, AMutex
  <2>3. /\ thread'[t].pc = "script" /\ thread'[t].mode = "w"
        /\ thread'[t].held = thread[t].held + 1
        /\ \A u \in SyncThreads \ {t} : thread'[u] = thread[u] /\ Left(u)
    BY <1>1, <2>1, GotFacts
  <2>4. thread[t].held = 0
    BY <1>3, <2>1 DEF Asks, Waits
  <2>5. Holders = {}
    <3>1. mux.count # -1
      BY <1>9
    <3>2. Cardinality(Holders) = 0
      BY <1>1, <1>9, <3>1 DEF ReadWriteInv, OneWriter, OnlyReaders
    <3> QED BY <1>4, <3>2
  <2>6. Holders' = {t}
    BY <2>3, <2>4, <2>5 DEF Holders
  <2>7. IsFiniteSet(Holders')
    BY <2>6, FS_Singleton
  <2>8. \A u \in SyncThreads :
          Asks(u)' /\ thread'[u].held <= 1 /\ (thread'[u].held = 0 <=> thread'[u].mode = "none")
    <3>1. Asks(t)' /\ thread'[t].held = 1
      BY <2>3, <2>4 DEF Asks, Waits
    <3>2. \A u \in SyncThreads : Asks(u)' /\ thread'[u].held <= 1
      BY <1>3, <1>5, <2>3, <3>1
    <3>3. ASSUME NEW u \in SyncThreads PROVE thread'[u].held = 0 <=> thread'[u].mode = "none"
      <4>1. CASE u = t
        BY <2>3, <3>1, <4>1
      <4>2. CASE u # t
        BY <1>6, <2>3, <4>2
      <4> QED BY <4>1, <4>2
    <3> QED BY <3>2, <3>3
  <2>9. OneWriter'
    BY <2>2, <2>3, <2>6 DEF OneWriter
  <2>10. Others(t)
    BY <2>1, <2>3 DEF Others, Unlocks, Asleep
  <2> QED BY <1>1, <2>2, <2>7, <2>8, <2>9, <2>10 DEF ReadWriteInv
<1>10. CASE Sync!Unlocked(t, "script") /\ thread[t].held > 0 /\ plan' = plan
  <2>1. thread[t].held = 1 /\ t \in Holders
    BY <1>2, <1>3, <1>10 DEF Holders
  <2>2. /\ mux'.native = Nobody
        /\ mux'.count = IF mux.count < 0 THEN 0 ELSE mux.count - 1
    BY <1>1, <1>10 DEF Sync!Unlocked, SyncTypeOK, AMutex
  <2>3. /\ thread'[t].pc = "script" /\ thread'[t].mode = "none" /\ thread'[t].held = thread[t].held - 1
        /\ \A u \in SyncThreads \ {t} : Left(u)
    BY <1>1, <1>10, <2>1, UnlockedFacts
  <2>4. thread'[t].held = 0
    <3>1. thread'[t].held = thread[t].held - 1 /\ thread[t].held = 1
      BY <2>1, <2>3
    <3> QED BY <3>1
  <2>5. Holders' = Holders \ {t}
    <3>1. \A u \in SyncThreads \ {t} : thread'[u].held = thread[u].held
      BY <2>3 DEF Left
    <3> QED BY <2>4, <3>1 DEF Holders
  <2>6. IsFiniteSet(Holders') /\ Cardinality(Holders') = Cardinality(Holders) - 1
    BY <1>4, <2>1, <2>5, FS_RemoveElement
  <2>7. \A u \in SyncThreads :
          Asks(u)' /\ thread'[u].held <= 1 /\ (thread'[u].held = 0 <=> thread'[u].mode = "none")
    <3>1. Asks(t)'
      BY <2>3, <2>4 DEF Asks, Waits
    <3>2. \A u \in SyncThreads \ {t} :
            Asks(u)' /\ thread'[u].held = thread[u].held /\ thread'[u].mode = thread[u].mode
      BY <1>5, <2>3 DEF Left
    <3>3. \A u \in SyncThreads : Asks(u)' /\ thread'[u].held <= 1
      BY <1>3, <2>4, <3>1, <3>2
    <3>4. ASSUME NEW u \in SyncThreads PROVE thread'[u].held = 0 <=> thread'[u].mode = "none"
      <4>1. CASE u = t
        BY <2>3, <2>4, <4>1
      <4>2. CASE u # t
        BY <1>6, <3>2, <4>2
      <4> QED BY <4>1, <4>2
    <3> QED BY <3>3, <3>4
  <2>8. OnlyReaders'
    <3>1. CASE OneWriter
      <4>1. Holders' = {}
        BY <2>1, <2>5, <3>1 DEF OneWriter
      <4>2. mux'.count = 0
        BY <2>2, <3>1 DEF OneWriter
      <4> QED BY <4>1, <4>2, FS_EmptySet DEF OnlyReaders
    <3>2. CASE OnlyReaders
      <4>1. mux'.count = Cardinality(Holders')
        BY <1>4, <2>2, <2>6, <3>2 DEF OnlyReaders
      <4>2. \A u \in Holders' : thread'[u].mode = thread[u].mode
        BY <2>3, <2>5 DEF Holders, Left
      <4> QED BY <2>5, <3>2, <4>1, <4>2 DEF OnlyReaders
    <3> QED BY <1>1, <3>1, <3>2 DEF ReadWriteInv
  <2>9. Others(t)
    BY <1>10, <2>3 DEF Others, Unlocks, Asleep
  <2> QED BY <1>1, <2>2, <2>6, <2>7, <2>8, <2>9 DEF ReadWriteInv
<1> QED BY <1>8, <1>9, <1>10

-----------------------------------------------------------------------------
(* The invariant and the theorem *)

LEMMA SyncInit ==
    ASSUME Sync!Init
    PROVE  SyncInv
<1>1. /\ plan \in SyncPlans /\ mux = [freed |-> FALSE, owner |-> Nobody, count |-> 0,
                                      native |-> Nobody, numrd |-> 0, numwr |-> 0]
      /\ thread = [t \in SyncThreads |-> [pc |-> "script", op |-> "none", mode |-> "none", held |-> 0]]
  BY DEF Sync!Init
<1>2. SyncTypeOK
  <2>1. [freed |-> FALSE, owner |-> Nobody, count |-> 0, native |-> Nobody,
         numrd |-> 0, numwr |-> 0] \in AMutex
    BY DEF AMutex
  <2>2. [pc |-> "script", op |-> "none", mode |-> "none", held |-> 0] \in AThread
    BY DEF AThread, SyncPcs, SyncOps
  <2> QED BY <1>1, <2>1, <2>2 DEF SyncTypeOK
<1>3. \A t \in SyncThreads :
        thread[t].pc = "script" /\ thread[t].mode = "none" /\ thread[t].held = 0
  BY <1>1
<1>4. mux.count = 0 /\ mux.owner = Nobody /\ mux.native = Nobody
  BY <1>1
<1>5. Holders = {}
  <2>1. \A t \in SyncThreads : thread[t].held # 1
    BY <1>3
  <2> QED BY <2>1 DEF Holders
<1>6. ReadWriteInv
  <2>1. OnlyReaders /\ IsFiniteSet(Holders)
    BY <1>4, <1>5, FS_EmptySet DEF OnlyReaders
  <2>2. \A t \in SyncThreads : Asks(t) /\ thread[t].held <= 1
    BY <1>3 DEF Asks, Waits
  <2> QED BY <1>3, <2>1, <2>2 DEF ReadWriteInv
<1>7. ExclusiveInv
  <2>1. \A t \in SyncThreads : ~Sync!Has(t)
    BY <1>3 DEF Sync!Has
  <2> QED BY <1>3, <2>1 DEF ExclusiveInv
<1>8. RecursiveInv
  <2>1. \A t \in SyncThreads : thread[t].held = 0 /\ mux.owner # t
    BY <1>3, <1>4, NobodyIsNoThread
  <2> QED BY <1>4, <2>1 DEF RecursiveInv
<1> QED BY <1>2, <1>3, <1>4, <1>6, <1>7, <1>8 DEF SyncInv, Unlocks, Asleep

LEMMA SyncNext ==
    ASSUME SyncInv, Sync!Next
    PROVE  SyncInv'
<1>1. PICK t \in SyncThreads : Sync!Command(t) \/ Sync!Proceed(t) \/ Sync!Release(t)
  BY DEF Sync!Next
<1>2. SyncTypeOK'
  BY <1>1, SyncType DEF SyncInv
<1>3. ASSUME Quiet(t) PROVE SyncInv'
  BY <1>2, <1>3, MutexQuietKeeps
<1>4. plan.kind \in {"exclusive", "recursive", "rw", "eval"}
  BY SyncAssumption DEF Sync!SyncAssumption, SyncInv, SyncTypeOK
<1>5. ASSUME Sync!Unlocked(t, "script"), thread[t].held > 0, plan' = plan,
             thread[t].pc \notin {"sleeping", "waking"}
      PROVE  SyncInv'
  BY <1>2, <1>4, <1>5, ExclusiveKept, RecursiveKept, ReadWriteKept
<1>6. CASE Sync!Command(t)
  BY <1>3, <1>6, BeginQuiet, ScriptQuiet DEF Sync!Command
<1>7. CASE Sync!Look(t) \/ Sync!LookDestroy(t) \/ Sync!WaitTimesOut(t) \/ Sync!Unlock(t)
  BY <1>3, <1>7, LookQuiet, MoveQuiet, ScriptQuiet
<1>8. CASE Sync!LookUnlock(t)
  <2>1. CASE Sync!IsLocked
    <3>1. /\ Sync!Unlocked(t, "script") /\ plan' = plan
          /\ thread[t].pc = "get" /\ thread[t].op = "unlock"
      BY <1>8, <2>1 DEF Sync!LookUnlock
    <3>2. thread[t].held > 0
      BY <3>1 DEF SyncInv, Unlocks
    <3> QED BY <1>5, <3>1, <3>2
  <2>2. CASE ~Sync!IsLocked
    BY <1>3, <1>8, <2>2, MoveQuiet
  <2> QED BY <2>1, <2>2
<1>9. CASE Sync!ReleaseEval(t)
  <2>1. Sync!Unlocked(t, "script") /\ plan' = plan /\ thread[t].pc = "release"
    BY <1>9 DEF Sync!ReleaseEval
  <2>2. thread[t].held > 0
    BY <2>1 DEF SyncInv, Unlocks
  <2> QED BY <1>5, <2>1, <2>2
<1>10. CASE Sync!EvalEnds(t)
  BY <1>5, <1>10 DEF Sync!EvalEnds, Sync!Evaluates
<1>11. CASE Sync!LockExclusive(t) \/ Sync!WaitSleeps(t) \/ Sync!WaitEnds(t)
  <2>1. thread[t].pc \in {"wait", "waking"} => plan.kind = "exclusive"
    BY DEF SyncInv, Asleep
  <2>2. plan.kind = "exclusive"
    BY <1>11, <2>1 DEF Sync!LockExclusive, Sync!WaitSleeps, Sync!WaitEnds
  <2> QED BY <1>2, <1>11, <2>2, ExclusiveKept
<1>12. CASE Sync!LockRecursive(t)
  <2>1. plan.kind \in {"recursive", "eval"}
    BY <1>12 DEF Sync!LockRecursive
  <2> QED BY <1>2, <1>3, <1>12, <2>1, RecursiveKept, SleepQuiet
<1>13. CASE Sync!LockRead(t)
  <2>1. plan.kind = "rw"
    BY <1>13 DEF Sync!LockRead
  <2> QED BY <1>2, <1>3, <1>13, <2>1, ReadWriteKept, SleepQuiet
<1>14. CASE Sync!LockWrite(t)
  <2>1. plan.kind = "rw"
    BY <1>14 DEF Sync!LockWrite
  <2> QED BY <1>2, <1>3, <1>14, <2>1, ReadWriteKept, SleepQuiet
<1> QED
  BY <1>1, <1>6, <1>7, <1>8, <1>9, <1>10, <1>11, <1>12, <1>13, <1>14
     DEF Sync!Proceed, Sync!Release

LEMMA SyncExclusion ==
    ASSUME SyncInv
    PROVE  Sync!Exclusion
<1>1. SUFFICES ASSUME NEW t \in SyncThreads, NEW u \in SyncThreads, t # u,
                      Sync!Has(t), Sync!Has(u)
               PROVE  thread[t].mode = "r" /\ thread[u].mode = "r"
  BY DEF Sync!Exclusion
<1>2. plan.kind \in {"exclusive", "recursive", "rw", "eval"}
  BY SyncAssumption DEF Sync!SyncAssumption, SyncInv, SyncTypeOK
<1>3. CASE plan.kind = "exclusive"
  BY <1>1, <1>3 DEF SyncInv, ExclusiveInv
<1>4. CASE plan.kind \in {"recursive", "eval"}
  BY <1>1, <1>4 DEF SyncInv, RecursiveInv, Sync!Has
<1>5. CASE plan.kind = "rw"
  <2>1. ReadWriteInv /\ SyncTypeOK
    BY <1>5 DEF SyncInv
  <2>2. thread[t].held \in Nat /\ thread[u].held \in Nat
    BY <2>1 DEF SyncTypeOK, AThread
  <2>3. thread[t].held <= 1 /\ thread[u].held <= 1
    BY <2>1 DEF ReadWriteInv
  <2>4. thread[t].held > 0 /\ thread[u].held > 0
    BY <1>1 DEF Sync!Has
  <2>5. t \in Holders /\ u \in Holders
    BY <2>2, <2>3, <2>4 DEF Holders
  <2> QED BY <1>1, <2>1, <2>5 DEF ReadWriteInv, OneWriter, OnlyReaders
<1> QED BY <1>2, <1>3, <1>4, <1>5

\* A thread that has a mutex for writing, or has locked one that is not a
\* read-write one, is alone with it, whatever threads lock, unlock, wait,
\* destroy or evaluate (threadSpCmd.c).
THEOREM MutexExcludesCorrect == Spec => []MutexExcludes
<1> DEFINE Inv == subject = "sync" => SyncInv
<1>1. Init => Inv
  BY SyncInit DEF Init
<1>2. Inv /\ [Next]_vars => Inv'
  <2> SUFFICES ASSUME Inv, [Next]_vars, subject' = "sync" PROVE SyncInv'
    OBVIOUS
  <2>1. CASE UNCHANGED vars
    BY <2>1 DEF vars, planVars, syncVars, SyncInv, SyncTypeOK, ExclusiveInv, RecursiveInv,
                ReadWriteInv, OneWriter, OnlyReaders, Unlocks, Asleep, Asks, Waits, Holders, Sync!Has
  <2>2. CASE Next
    <3>1. subject = "sync" /\ Sync!Next
      BY <2>2 DEF Next, ThreadSteps, PoolSteps, SyncSteps, SvSteps
    <3> QED BY <3>1, SyncNext
  <2> QED BY <2>1, <2>2
<1>3. Inv => MutexExcludes
  BY SyncExclusion DEF MutexExcludes
<1> QED BY <1>1, <1>2, <1>3, PTL DEF Spec
================================================================================
