------------------------------ MODULE ThreadCmd -----------------------------
(***************************************************************************)
(* Tcl threads that send each other scripts and channels                   *)
(* (thread2.6/generic/threadCmd.c). Port trace mode runs its server in a   *)
(* thread created and used this way (port1.0/porttrace.tcl).               *)
(*                                                                         *)
(* Each thread runs the script it was created with, which ends in          *)
(* thread::wait: an event loop that runs what others have queued. A script *)
(* may use any command of the package, a bounded number of times. What     *)
(* happens under threadMutex without a wait is one step.                   *)
(***************************************************************************)
EXTENDS Integers, Sequences, FiniteSets, SequencesExt

CONSTANTS
    Threads,  \* the threads there may be
    Nobody,   \* none of them
    Marks,    \* the values for -eventmark
    Plans,    \* what a behaviour is about: the commands its scripts use, how
              \* many of them in all, and the threads that run at first
    Habits    \* "oneshot": a created thread's script may end without
              \* thread::wait, and one that is broadcast may end its thread

ThreadAssumption ==
    /\ Nobody \notin Threads
    /\ \A p \in Plans : p.born \in SUBSET Threads \ {{}} /\ p.calls \in Nat
    /\ Marks \subseteq Nat /\ 0 \in Marks

VARIABLES
    listed,      \* threadList
    tsd,         \* thread -> flags, refCount, maxEventsCount, eventsPending
    queue,       \* thread -> events posted to it
    run,         \* thread -> where it is, and where it goes on after a wait;
                 \* the event it serves; whether the script failed; the thread
                 \* it waits for; those still to be sent a broadcast
    result,      \* thread -> the result structure it waits on
    chan,        \* a channel: the threads it is registered in, the thread that
                 \* detached it, and whether it was closed
    errorThread, \* errorThreadId
    plan,        \* the plan of this behaviour
    calls        \* commands scripts may still use

vars == <<listed, tsd, queue, run, result, chan, errorThread, plan, calls>>

NoEvent == [kind |-> "none", src |-> Nobody, back |-> Nobody]
NoResult == [on |-> Nobody, kind |-> "none", code |-> "none"]
Flags == {"stopped", "inerror", "unwindonerror"}

TypeOK ==
    /\ listed \subseteq Threads
    /\ tsd \in [Threads -> [flags : SUBSET Flags, users : Int, mark : Marks, pending : Int]]
    /\ result \in [Threads -> [on : Threads \cup {Nobody},
                               kind : {"none", "send", "release", "transfer"},
                               code : {"none", "given", "died"}]]
    /\ chan \in [at : SUBSET Threads, parked : Threads \cup {Nobody}, closed : BOOLEAN]
    /\ errorThread \in Threads \cup {Nobody}

Init ==
    /\ plan \in Plans /\ calls = plan.calls
    /\ listed = plan.born
    /\ tsd = [t \in Threads |-> [flags |-> {}, users |-> 1, mark |-> 0, pending |-> 0]]
    /\ queue = [t \in Threads |-> <<>>]
    /\ run = [t \in Threads |->
                [pc |-> IF t \in plan.born THEN "script" ELSE "unborn", ret |-> "script",
                 cur |-> NoEvent, bad |-> FALSE, on |-> Nobody, todo |-> {}]]
    /\ result = [t \in Threads |-> NoResult]
    /\ \E t \in plan.born : chan = [at |-> {t}, parked |-> Nobody, closed |-> FALSE]
    /\ errorThread = Nobody

-----------------------------------------------------------------------------
(* Sending *)

Refuses(u) == u \notin listed \/ "inerror" \in tsd[u].flags

Counted(u) == IF tsd[u].mark > 0 THEN tsd[u].pending + 1 ELSE tsd[u].pending

Enqueue(u, kind, src, back) ==
    queue' = [queue EXCEPT ![u] = Append(@, [kind |-> kind, src |-> src, back |-> back])]

\* ThreadSend that does not wait for the script, but may for the target to
\* serve some of its events; t goes on at then. A send to itself is run when
\* t is idle.
Post(t, u, kind, back, then, todo) ==
    IF Refuses(u)
    THEN /\ run' = [run EXCEPT ![t].pc = then, ![t].todo = todo]
         /\ UNCHANGED <<tsd, queue>>
    ELSE LET full == u # t /\ tsd[u].mark > 0 /\ Counted(u) > tsd[u].mark IN
         /\ Enqueue(u, IF u = t THEN "idle" ELSE kind, Nobody, back)
         /\ tsd' = IF u = t THEN tsd ELSE [tsd EXCEPT ![u].pending = Counted(u)]
         /\ run' = [run EXCEPT ![t].pc = IF full THEN "asleep" ELSE then,
                               ![t].ret = then, ![t].on = u, ![t].todo = todo]

\* Woken by the target, which has served an event.
Throttled(t) ==
    LET u == run[t].on IN
    /\ run[t].pc = "throttled"
    /\ run' = [run EXCEPT ![t].pc =
                 IF tsd[u].mark > 0 /\ tsd[u].pending > tsd[u].mark
                 THEN "asleep" ELSE run[t].ret]
    /\ UNCHANGED <<listed, tsd, queue, result, chan, errorThread, plan, calls>>

Await(t, u, kind) ==
    /\ result' = [result EXCEPT ![t] = [on |-> u, kind |-> kind, code |-> "none"]]
    /\ run' = [run EXCEPT ![t].pc = "blocked", ![t].ret = run[t].pc]

\* The waits of ThreadSend, ThreadReserve and ThreadTransfer are over. A
\* channel whose transfer failed is registered here again.
Wake(t) ==
    /\ run[t].pc = "blocked" /\ result[t].code # "none"
    /\ result' = [result EXCEPT ![t] = NoResult]
    /\ run' = [run EXCEPT ![t].pc = run[t].ret]
    /\ chan' = IF result[t].kind = "transfer" /\ result[t].code = "died"
               THEN [chan EXCEPT !.at = @ \cup {t}] ELSE chan
    /\ UNCHANGED <<listed, tsd, queue, errorThread, plan, calls>>

-----------------------------------------------------------------------------
(* Commands of a script. Scripts learn of a thread by the call that created *)
(* it, when that has returned.                                              *)

Known == {u \in Threads : run[u].pc # "unborn"
                          /\ \A t \in Threads : run[t].pc = "creating" => run[t].on # u}

Uses(t, command) ==
    /\ command \in plan.commands
    /\ run[t].pc \in {"script", "serving"} /\ calls > 0
    /\ calls' = calls - 1
    /\ UNCHANGED plan

MayStop(t) ==
    \/ t \in plan.born \/ "oneshot" \in Habits
    \/ run[t].pc = "serving" /\ run[t].cur.kind # "broadcast"

\* thread::send; one to itself is run at once, a refused one fails.
Send(t) ==
    /\ Uses(t, "send")
    /\ \E u \in Known \ {t} :
        /\ ~Refuses(u)
        /\ Enqueue(u, "script", t, Nobody)
        /\ tsd' = [tsd EXCEPT ![u].pending = Counted(u)]
        /\ Await(t, u, "send")
    /\ UNCHANGED <<listed, chan, errorThread>>

\* thread::send -async, with a variable for the answer or without.
SendAsync(t) ==
    /\ Uses(t, "async")
    /\ \E u \in Known, back \in {t, Nobody} :
        /\ u = t => back = Nobody
        /\ Post(t, u, "script", back, run[t].pc, {})
    /\ UNCHANGED <<listed, result, chan, errorThread>>

\* thread::broadcast, to those that are listed at first, one after another.
Broadcast(t) ==
    /\ Uses(t, "broadcast")
    /\ run' = [run EXCEPT ![t].pc = "casting", ![t].ret = run[t].pc, ![t].todo = listed \ {t}]
    /\ UNCHANGED <<listed, tsd, queue, result, chan, errorThread>>
BroadcastNext(t) ==
    /\ run[t].pc = "casting"
    /\ LET then == IF run[t].cur = NoEvent THEN "script" ELSE "serving" IN
       \/ run[t].todo = {} /\ run' = [run EXCEPT ![t].pc = then] /\ UNCHANGED <<tsd, queue>>
       \/ \E u \in run[t].todo :
            Post(t, u, "broadcast", Nobody, "casting", run[t].todo \ {u})
    /\ UNCHANGED <<listed, result, chan, errorThread, plan, calls>>

\* thread::preserve
Preserve(t) ==
    /\ Uses(t, "preserve")
    /\ \E u \in Known \cap listed : tsd' = [tsd EXCEPT ![u].users = @ + 1]
    /\ UNCHANGED <<listed, queue, run, result, chan, errorThread>>

\* Slip: the thread is stopped but not woken.
ReleaseQuiet(t) ==
    /\ Uses(t, "release") /\ MayStop(t)
    /\ \E u \in Known \cap listed, wait \in BOOLEAN :
        LET last == tsd[u].users - 1 <= 0 IN
        /\ tsd' = [tsd EXCEPT ![u].users = @ - 1,
                              ![u].flags = IF last THEN @ \cup {"stopped"} ELSE @]
        /\ listed' = IF last THEN listed \ {u} ELSE listed
        /\ IF last /\ wait THEN Await(t, u, "release") ELSE UNCHANGED <<run, result>>
    /\ UNCHANGED <<queue, chan, errorThread>>

\* thread::release of a thread by its name: the last one takes it out of the
\* list and sends it an event to wake it.
Release(t) ==
    /\ Uses(t, "release") /\ MayStop(t)
    /\ \E u \in Known \cap listed, wait \in BOOLEAN :
        LET last == tsd[u].users - 1 <= 0 IN
        /\ tsd' = [tsd EXCEPT ![u].users = @ - 1,
                              ![u].flags = IF last THEN @ \cup {"stopped"} ELSE @]
        /\ listed' = IF last THEN listed \ {u} ELSE listed
        /\ IF last THEN Enqueue(u, "wake", IF wait THEN t ELSE Nobody, Nobody)
           ELSE UNCHANGED queue
        /\ IF last /\ wait THEN Await(t, u, "release") ELSE UNCHANGED <<run, result>>
    /\ UNCHANGED <<chan, errorThread>>

\* thread::release without a name, and thread::unwind.
Unwind(t) ==
    /\ Uses(t, "unwind") /\ MayStop(t)
    /\ tsd' = [tsd EXCEPT ![t].users = @ - 1,
                          ![t].flags = IF tsd[t].users - 1 <= 0 THEN @ \cup {"stopped"} ELSE @]
    /\ UNCHANGED <<listed, queue, run, result, chan, errorThread>>

\* thread::exit, which does not come back.
Exit(t) ==
    /\ Uses(t, "exit") /\ MayStop(t)
    /\ listed' = listed \ {t}
    /\ run' = [run EXCEPT ![t].pc = "exit"]
    /\ UNCHANGED <<tsd, queue, result, chan, errorThread>>

\* thread::configure
Configure(t) ==
    /\ Uses(t, "configure")
    /\ \E u \in Known \cap listed :
        \/ \E mark \in Marks : tsd' = [tsd EXCEPT ![u].mark = mark]
        \/ \E flag \in {"inerror", "unwindonerror"} :
             \/ tsd' = [tsd EXCEPT ![u].flags = @ \cup {flag}]
             \/ tsd' = [tsd EXCEPT ![u].flags = @ \ {flag}]
    /\ UNCHANGED <<listed, queue, run, result, chan, errorThread>>

\* thread::errorproc
ErrorProc(t) ==
    /\ Uses(t, "errorproc")
    /\ errorThread' = t
    /\ UNCHANGED <<listed, tsd, queue, run, result, chan>>

\* thread::create: the new thread lists itself before the creator goes on, and
\* is preserved by it after that.
Create(t) ==
    /\ Uses(t, "create")
    /\ \E u \in Threads :
        /\ run[u].pc = "unborn"
        /\ listed' = listed \cup {u}
        /\ tsd' = [tsd EXCEPT ![u] = [flags |-> {}, users |-> 0, mark |-> 0, pending |-> 0]]
        /\ run' = [run EXCEPT ![u].pc = "script",
                              ![t].pc = "creating", ![t].ret = run[t].pc, ![t].on = u]
    /\ UNCHANGED <<queue, result, chan, errorThread>>
Created(t) ==
    /\ run[t].pc = "creating" /\ run[t].on \in listed
    /\ \E preserve \in {0, 1} : tsd' = [tsd EXCEPT ![run[t].on].users = @ + preserve]
    /\ run' = [run EXCEPT ![t].pc = run[t].ret]
    /\ UNCHANGED <<listed, queue, result, chan, errorThread, plan, calls>>

\* thread::join of a joinable thread
Join(t) ==
    /\ Uses(t, "join")
    /\ \E u \in Known \ {t} :
        run' = [run EXCEPT ![t].pc = "joining", ![t].ret = run[t].pc, ![t].on = u]
    /\ UNCHANGED <<listed, tsd, queue, result, chan, errorThread>>
Joined(t) ==
    /\ run[t].pc = "joining" /\ run[run[t].on].pc = "dead"
    /\ run' = [run EXCEPT ![t].pc = run[t].ret]
    /\ UNCHANGED <<listed, tsd, queue, result, chan, errorThread, plan, calls>>

\* thread::transfer: the channel is cut out of the thread and put in an event.
Transfer(t) ==
    /\ Uses(t, "transfer")
    /\ t \in chan.at
    /\ \E u \in (Known \cap listed) \ {t} :
        /\ chan' = [chan EXCEPT !.at = @ \ {t}]
        /\ Enqueue(u, "channel", t, Nobody)
        /\ Await(t, u, "transfer")
    /\ UNCHANGED <<listed, tsd, errorThread>>

\* thread::detach and thread::attach
Detach(t) ==
    /\ Uses(t, "detach")
    /\ t \in chan.at
    /\ chan' = [chan EXCEPT !.at = @ \ {t}, !.parked = t]
    /\ UNCHANGED <<listed, tsd, queue, run, result, errorThread>>
Attach(t) ==
    /\ Uses(t, "detach")
    /\ t \notin chan.at /\ chan.parked # Nobody
    /\ chan' = [chan EXCEPT !.at = @ \cup {t}, !.parked = Nobody]
    /\ UNCHANGED <<listed, tsd, queue, run, result, errorThread>>

-----------------------------------------------------------------------------
(* Running scripts: NewThread, ThreadWait and ThreadEventProc *)

\* A script ends well or in error: that of an event, or the thread's own,
\* which has come to thread::wait or, if its end was not that, ends. None
\* fails where errors are reported: that would be the next one to report.
ScriptEnds(t) ==
    LET e == run[t].cur IN
    /\ run[t].pc \in {"script", "serving"}
    /\ \E bad \in BOOLEAN, waits \in BOOLEAN :
        /\ bad => t # errorThread
        /\ run[t].pc = "serving" \/ bad => ~waits
        /\ run[t].pc = "script" /\ ~bad /\ ~waits => "oneshot" \in Habits
        /\ run[t].pc = "script" /\ bad => "oneshot" \in Habits
        /\ LET after == IF run[t].pc = "script" THEN "ending"
                        ELSE IF e.back # Nobody THEN "callback" ELSE "check"
           IN  run' = [run EXCEPT ![t].bad = bad, ![t].ret = after, ![t].pc =
                         IF waits THEN "loop"
                         ELSE IF e.src # Nobody THEN "report"
                         ELSE IF bad THEN "error" ELSE after]
    /\ UNCHANGED <<listed, tsd, queue, result, chan, errorThread, plan, calls>>

\* The answer of a script whose sender waits for it.
Report(t) ==
    /\ run[t].pc = "report"
    /\ result' = [result EXCEPT ![run[t].cur.src].code = "given"]
    /\ run' = [run EXCEPT ![t].pc = "check"]
    /\ UNCHANGED <<listed, tsd, queue, chan, errorThread, plan, calls>>

\* ThreadErrorProc
ReportError(t) ==
    /\ run[t].pc = "error"
    /\ IF errorThread = Nobody
       THEN run' = [run EXCEPT ![t].pc = run[t].ret] /\ UNCHANGED <<tsd, queue>>
       ELSE Post(t, errorThread, "script", Nobody, run[t].ret, {})
    /\ UNCHANGED <<listed, result, chan, errorThread, plan, calls>>

\* An asynchronous answer is a script for the sender.
Callback(t) ==
    /\ run[t].pc = "callback"
    /\ Post(t, run[t].cur.back, "script", Nobody, "check", {})
    /\ UNCHANGED <<listed, result, chan, errorThread, plan, calls>>

\* The flags after an event: a script's error may unwind the thread.
Check(t) ==
    LET flags == tsd[t].flags
        unwound == IF run[t].bad /\ run[t].cur.kind # "idle" /\ "unwindonerror" \in flags
                   THEN flags \cup {"inerror"}
                        \cup (IF tsd[t].users = 0 THEN {"stopped"} ELSE {})
                   ELSE flags
    IN  /\ run[t].pc = "check"
        /\ tsd' = [tsd EXCEPT ![t].flags = unwound]
        /\ run' = [run EXCEPT ![t].pc = IF "stopped" \in unwound THEN "unlist" ELSE "loop",
                              ![t].cur = NoEvent, ![t].bad = FALSE]
        /\ UNCHANGED <<listed, queue, result, chan, errorThread, plan, calls>>

\* About to serve an event: whoever waits for that is woken.
Loop(t) ==
    /\ run[t].pc = "loop"
    /\ tsd' = IF tsd[t].mark > 0 THEN [tsd EXCEPT ![t].pending = @ - 1] ELSE tsd
    /\ run' = [u \in Threads |->
                 IF u = t THEN [run[u] EXCEPT !.pc = "event"]
                 ELSE IF tsd[t].mark > 0 /\ run[u].pc = "asleep" /\ run[u].on = t
                      THEN [run[u] EXCEPT !.pc = "throttled"]
                 ELSE run[u]]
    /\ UNCHANGED <<listed, queue, result, chan, errorThread, plan, calls>>

\* The event that is next: the first one; idle handlers wait for the others.
NextEvent(t) ==
    LET ready == {i \in DOMAIN queue[t] : queue[t][i].kind # "idle"}
        these == IF ready # {} THEN ready ELSE DOMAIN queue[t]
    IN  {i \in these : \A k \in these : i <= k}

Take(t, i) == queue' = [queue EXCEPT ![t] = RemoveAt(@, i)]

\* Slip: the event is left in the queue while its script runs.
ServeKept(t) ==
    /\ run[t].pc = "event"
    /\ \E i \in NextEvent(t) :
        /\ queue[t][i].kind # "channel"
        /\ run' = [run EXCEPT ![t].cur = queue[t][i], ![t].pc = "serving"]
    /\ UNCHANGED <<listed, tsd, queue, result, chan, errorThread, plan, calls>>

Serve(t) ==
    /\ run[t].pc = "event"
    /\ \E i \in NextEvent(t) : LET e == queue[t][i] IN
        /\ e.kind # "channel"
        /\ Take(t, i)
        /\ run' = [run EXCEPT ![t].cur = e, ![t].pc =
                     IF e.kind # "wake" THEN "serving"
                     ELSE IF e.src # Nobody THEN "report" ELSE "check"]
    /\ UNCHANGED <<listed, tsd, result, chan, errorThread, plan, calls>>

\* TransferEventProc
ServeChannel(t) ==
    /\ run[t].pc = "event"
    /\ \E i \in NextEvent(t) : LET e == queue[t][i] IN
        /\ e.kind = "channel"
        /\ Take(t, i)
        /\ chan' = [chan EXCEPT !.at = @ \cup {t}]
        /\ result' = [result EXCEPT ![e.src].code = "given"]
        /\ run' = [run EXCEPT ![t].pc = "check"]
    /\ UNCHANGED <<listed, tsd, errorThread, plan, calls>>

\* thread::wait is left: out of the list first, then the events go.
Unlist(t) ==
    /\ run[t].pc = "unlist"
    /\ listed' = listed \ {t}
    /\ run' = [run EXCEPT ![t].pc = "discard"]
    /\ UNCHANGED <<tsd, queue, result, chan, errorThread, plan, calls>>
Discard(t) ==
    /\ run[t].pc = "discard"
    /\ queue' = [queue EXCEPT ![t] = <<>>]
    /\ run' = [run EXCEPT ![t].pc = "ending"]
    /\ UNCHANGED <<listed, tsd, result, chan, errorThread, plan, calls>>

\* The interpreter goes, and its channels with it.
Closing(t) == [chan EXCEPT !.closed = @ \/ t \in chan.at, !.at = @ \ {t}]

Ending(t) ==
    /\ run[t].pc = "ending"
    /\ listed' = listed \ {t}
    /\ chan' = Closing(t)
    /\ run' = [run EXCEPT ![t].pc = "exit"]
    /\ UNCHANGED <<tsd, queue, result, errorThread, plan, calls>>

\* Slip: only those whose event is still queued are told.
TellQueued(t) == [u \in Threads |->
    IF \E i \in DOMAIN queue[t] : queue[t][i].src = u THEN [result[u] EXCEPT !.code = "died"]
    ELSE result[u]]

\* Everybody who waits for this thread is told that it died, also who has
\* its answer but has not seen it yet.
Tell(t) == [u \in Threads |->
    IF result[u].on = t THEN [result[u] EXCEPT !.code = "died"] ELSE result[u]]

\* ThreadExitProc. A detached channel is forgotten with its thread.
ExitProc(t) ==
    /\ run[t].pc = "exit"
    /\ listed' = listed \ {t}
    /\ queue' = [queue EXCEPT ![t] = <<>>]
    /\ result' = Tell(t)
    /\ chan' = [Closing(t) EXCEPT !.parked = IF @ = t THEN Nobody ELSE @]
    /\ run' = [run EXCEPT ![t].pc = "dead", ![t].cur = NoEvent]
    /\ UNCHANGED <<tsd, errorThread, plan, calls>>

Command(t) ==
    \/ Send(t) \/ SendAsync(t) \/ Broadcast(t) \/ Preserve(t) \/ Release(t) \/ Unwind(t)
    \/ Exit(t) \/ Configure(t) \/ ErrorProc(t) \/ Create(t) \/ Join(t)
    \/ Transfer(t) \/ Detach(t) \/ Attach(t)

Proceed(t) ==
    \/ Throttled(t) \/ Wake(t) \/ BroadcastNext(t) \/ Created(t) \/ Joined(t)
    \/ ScriptEnds(t) \/ Report(t) \/ ReportError(t) \/ Callback(t) \/ Check(t)
    \/ Loop(t) \/ Serve(t) \/ ServeChannel(t) \/ Unlist(t) \/ Discard(t)
    \/ Ending(t) \/ ExitProc(t)

Next == \E t \in Threads : Command(t) \/ Proceed(t)

\* A thread that can go on does, and its scripts come to an end.
Spec == Init /\ [][Next]_vars /\ \A t \in Threads : WF_vars(Proceed(t))

-----------------------------------------------------------------------------
(* Properties *)

Waits(t, kind) == run[t].pc = "blocked" /\ result[t].kind = kind

\* The events that will be answered to t: those in a queue, by their place
\* there, and those that are served.
Pending(t) ==
    UNION {{<<u, i>> : i \in {k \in DOMAIN queue[u] : queue[u][k].src = t}} : u \in Threads}
Serving == {"serving", "report", "blocked", "asleep", "throttled", "casting", "creating",
            "joining"}
ServedBy(t) == {u \in Threads : run[u].pc \in Serving /\ run[u].cur.src = t}
Answers(t) == Pending(t) \cup (ServedBy(t) \X {0})

\* No event outlives the wait of the thread whose result structure it points
\* to, and it is the only one that does; and whoever waits will be answered:
\* by such an event or by the end of the thread it waits for.
AnswerOnItsWay == \A t \in Threads :
    IF run[t].pc = "blocked" /\ result[t].code = "none"
    THEN /\ \A x, y \in Answers(t) : x = y
         /\ Answers(t) = {} => run[result[t].on].pc \in {"ending", "exit"}
    ELSE Answers(t) = {}

\* Each synchronous send is such a call: run at most once, never after its
\* sender was told that the target died.
Status(t) ==
    IF ~Waits(t, "send") THEN "none"
    ELSE IF result[t].code = "given" THEN "answered"
    ELSE IF result[t].code = "died" THEN "died"
    ELSE IF Pending(t) # {} THEN "asked"
    ELSE IF ServedBy(t) # {} THEN "running" ELSE "lost"
Remote == INSTANCE RemoteCall WITH
    Callers <- Threads, call <- [t \in Threads |-> Status(t)]
ImplementsRemoteCall == Remote!Spec

\* Threads that wait for each other, or at last for one that a full queue has
\* put to sleep and that has ended since.
WaitsOn(t) == IF run[t].pc = "blocked" THEN result[t].on ELSE run[t].on
Stuck == UNION {S \in SUBSET Threads : \A t \in S :
    /\ run[t].pc \in {"blocked", "asleep", "joining"}
    /\ \/ WaitsOn(t) \in S
       \/ run[t].pc = "asleep" /\ WaitsOn(t) \notin listed
       \/ run[t].pc = "joining" /\ WaitsOn(t) \in listed}

\* Every synchronous send, transfer and release -wait ends, unless threads
\* wait for each other in a circle.
SendsEnd == \A t \in Threads :
    run[t].pc = "blocked" ~> (run[t].pc # "blocked" \/ t \in Stuck)

\* So does every asynchronous send that has to wait for room.
AsyncSendsEnd == \A t \in Threads :
    run[t].pc = "asleep" ~> run[t].pc # "asleep"

\* The channel: registered in one thread, detached, on its way or closed, and
\* never two of these.
InTransfer == \E t \in Threads : Waits(t, "transfer") /\ result[t].code # "given"
ChannelInOnePlace ==
    /\ Cardinality(chan.at) <= 1
    /\ chan.closed => chan.at = {}

\* A channel that was cut out of its thread does not get lost: it is in
\* another thread, parked, on its way, or closed with the thread it was in.
ChannelKept ==
    chan.at # {} \/ chan.parked # Nobody \/ chan.closed \/ InTransfer

\* A detached channel stays until somebody attaches it.
ParkedUntilAttached == [][
    chan.parked # Nobody /\ chan'.parked = Nobody => chan'.at # {}]_chan

\* The thread that is being created is still there for its creator to preserve.
CreatorFindsChild == \A t \in Threads :
    run[t].pc = "creating" => run[t].on \in listed

\* thread::release -wait returns when the thread has exited.
ReleaseWaits == [][\A t \in Threads :
    Waits(t, "release") /\ run'[t].pc # "blocked" => run[result[t].on].pc = "dead"]_vars
=============================================================================
