-------------------------------- MODULE Trace -------------------------------
(***************************************************************************)
(* Trace mode (port1.0/porttrace.tcl, pextlib1.0/tracelib.c,               *)
(* darwintracelib1.0/darwintrace.c). While a target runs, a slave thread   *)
(* listens on a socket. Every process of the target has a library in it    *)
(* that connects, asks for the map of what it may use, asks about each     *)
(* file of the prefix and reports what it refuses. Afterwards the main     *)
(* thread closes the socket, asks the slave for the violations, and cleans *)
(* up the variables that both threads use.                                 *)
(***************************************************************************)
EXTENDS Integers, Sequences, FiniteSets

CONSTANTS
    Procs,   \* processes of the targets
    Conns,   \* connections
    NoConn,
    Slots,   \* connections that the slave can have at a time
    Plans    \* targets: which ports' files each may use and whether it is
             \* fenced; what processes do, with which files, how much of it;
             \* whether select returns when its socket is closed

Paths == {"sandbox", "declared", "undeclared", "outside"}
NoDeps == {"none"}  \* the dependencies were not set

TraceAssumption ==
    /\ NoConn \notin Conns /\ Slots \in Nat
    /\ \A p \in Plans :
        /\ p.calls \in Nat /\ p.paths \subseteq Paths /\ p.targets # <<>>
        /\ p.targets \in Seq([fence : BOOLEAN, deps : SUBSET Paths, fails : BOOLEAN])

\* The limits of the fence (README): the slave has a place for every connection, a
\* child does nothing between fork and execve, and the prerun of the last target
\* alone may fail.
WithinLimits ==
    /\ \A S \in SUBSET Conns : S # Conns => Cardinality(S) < Slots
    /\ \A p \in Plans : "share" \notin p.does
    /\ \A p \in Plans : \A i \in DOMAIN p.targets : i < Len(p.targets) => ~p.targets[i].fails

VARIABLES
    lib,     \* tracelib.c: sock, cleanup, fence, deps, map
    main,    \* the main thread: where it is, in which target
    slave,   \* the slave: where it is, what select has found
    conn,    \* connection -> state, requests, answers
    proc,    \* process -> where it is, its target, connection and map; the file
             \* it asks for and the verdict
    seen, tried,  \* violations the slave knows of, and those of this target
    plan, calls

vars == <<lib, main, slave, conn, proc, seen, tried, plan, calls>>

NoLib == [sock |-> FALSE, cleanup |-> FALSE, fence |-> FALSE, deps |-> NoDeps, map |-> "none"]
Closed == [state |-> "closed", reqs |-> <<>>, ans |-> <<>>]

Init ==
    /\ plan \in Plans /\ calls = plan.calls
    /\ lib = NoLib
    /\ main = [pc |-> "idle", target |-> 0]
    /\ slave = [pc |-> "none", ready |-> {}, listen |-> FALSE]
    /\ conn = [c \in Conns |-> [Closed EXCEPT !.state = "unused"]]
    /\ proc = [p \in Procs |-> [pc |-> "none", target |-> 0, conn |-> NoConn, map |-> "none",
                                path |-> "", verdict |-> ""]]
    /\ seen = {} /\ tried = {}

Target == plan.targets[main.target]

-----------------------------------------------------------------------------
(* The main thread *)

MainAt(pc) == main' = [main EXCEPT !.pc = pc]

\* trace_start: the slave opens the socket, unless it is being cleaned up, and
\* is then told to run. A target whose prerun has failed is not traced.
Start ==
    /\ main.pc = "idle" /\ main.target < Len(plan.targets)
    /\ LET t == plan.targets[main.target + 1] IN
        /\ main' = [pc |-> IF t.fails THEN "close" ELSE "prepare", target |-> main.target + 1]
        /\ IF t.fails
           THEN UNCHANGED <<lib, slave, seen>>
           ELSE /\ lib' = [lib EXCEPT !.sock = ~lib.cleanup]
                /\ slave' = [slave EXCEPT !.pc = "loop"]
                /\ seen' = {}
    /\ tried' = {}
    /\ UNCHANGED <<conn, proc, plan, calls>>

\* enablefence forgets the map that was made without the fence.
EnableFence ==
    /\ main.pc = "prepare"
    /\ lib' = IF Target.fence THEN [lib EXCEPT !.fence = TRUE, !.map = "none"] ELSE lib
    /\ MainAt("deps")
    /\ UNCHANGED <<slave, conn, proc, seen, tried, plan, calls>>
SetDeps ==
    /\ main.pc = "deps"
    /\ lib' = [lib EXCEPT !.deps = Target.deps]
    /\ MainAt("target")
    /\ UNCHANGED <<slave, conn, proc, seen, tried, plan, calls>>

\* The target runs processes.
Run(p) ==
    /\ main.pc = "target" /\ proc[p].pc = "none"
    /\ proc' = [proc EXCEPT ![p].pc = "run", ![p].target = main.target]
    /\ UNCHANGED <<lib, main, slave, conn, seen, tried, plan, calls>>

\* closesocket, when the target has ended: the flag, and then the socket.
TargetEnds ==
    \/ main.pc = "close"
    \/ main.pc = "target" /\ \A p \in Procs : proc[p].pc \in {"none", "run", "gone"}
CloseFlag ==
    /\ TargetEnds
    /\ lib' = [lib EXCEPT !.cleanup = TRUE]
    /\ MainAt("closing")
    /\ UNCHANGED <<slave, conn, proc, seen, tried, plan, calls>>
CloseSocket ==
    /\ main.pc = "closing"
    /\ lib' = [lib EXCEPT !.sock = FALSE]
    /\ conn' = [c \in Conns |-> IF conn[c].state = "pending" THEN Closed ELSE conn[c]]
    /\ MainAt("check")
    /\ UNCHANGED <<slave, proc, seen, tried, plan, calls>>

\* trace_check_violations sends to the slave, which must have come back from
\* tracelib run. It raises an error when there is no slave.
Check ==
    /\ main.pc = "check" /\ slave.pc \in {"none", "done"}
    /\ MainAt(IF slave.pc = "none" THEN "idle" ELSE "clean")
    /\ UNCHANGED <<lib, slave, conn, proc, seen, tried, plan, calls>>

\* Slip: the flag stays set.
CleanKeepsFlag ==
    /\ main.pc = "clean"
    /\ lib' = [NoLib EXCEPT !.cleanup = TRUE]
    /\ slave' = [slave EXCEPT !.pc = "none"]
    /\ MainAt("idle")
    /\ UNCHANGED <<conn, proc, seen, tried, plan, calls>>
\* trace_stop: everything is freed, and the slave is released.
Clean ==
    /\ main.pc = "clean"
    /\ lib' = NoLib
    /\ slave' = [slave EXCEPT !.pc = "none"]
    /\ MainAt("idle")
    /\ UNCHANGED <<conn, proc, seen, tried, plan, calls>>

-----------------------------------------------------------------------------
(* The slave: TracelibRunCmd *)

Users(c) == {p \in Procs : proc[p].conn = c}
Open == {c \in Conns : conn[c].state = "open"}
Pending == {c \in Conns : conn[c].state = "pending"}
Readable(c) == conn[c].reqs # <<>> \/ Users(c) = {}

SlaveAt(pc) == slave' = [slave EXCEPT !.pc = pc]

Loop ==
    /\ slave.pc = "loop" \/ (slave.pc = "serve" /\ slave.ready = {})
    /\ SlaveAt(IF lib.sock /\ ~lib.cleanup THEN "select" ELSE "end")
    /\ UNCHANGED <<lib, main, conn, proc, seen, tried, plan, calls>>

Select ==
    /\ slave.pc = "select"
    /\ LET ready == {c \in Open : Readable(c)} IN
        \/ /\ ready # {} \/ Pending # {}
           /\ slave' = [pc |-> "accept", ready |-> ready, listen |-> Pending # {}]
        \/ /\ ~lib.sock /\ plan.wakes
           /\ SlaveAt("loop")
    /\ UNCHANGED <<lib, main, conn, proc, seen, tried, plan, calls>>

\* One connection is accepted, and closed at once if there is no place for it.
Accept ==
    /\ slave.pc = "accept"
    /\ IF ~lib.sock THEN SlaveAt("end") /\ UNCHANGED conn
       ELSE /\ SlaveAt("serve")
            /\ IF slave.listen
               THEN \E c \in Pending :
                        conn' = IF Cardinality(Open) < Slots
                                THEN [conn EXCEPT ![c].state = "open"]
                                ELSE [conn EXCEPT ![c] = Closed]
               ELSE UNCHANGED conn
    /\ UNCHANGED <<lib, main, proc, seen, tried, plan, calls>>

\* Slip: the map of the first target is never forgotten.
MapKept == IF plan.targets[1].fence THEN "fenced" ELSE "all"
\* send_file_map makes the map once.
FileMap ==
    IF lib.map # "none" THEN lib.map ELSE IF lib.fence THEN "fenced" ELSE "all"

\* process_line
Serve(c) ==
    LET r == Head(conn[c].reqs)
        Answered(a) == [conn EXCEPT ![c].reqs = Tail(@), ![c].ans = Append(@, a)]
    IN  /\ slave.pc = "serve" /\ c \in slave.ready
        /\ slave' = [slave EXCEPT !.ready = IF Len(conn[c].reqs) <= 1 THEN @ \ {c} ELSE @]
        /\ \/ /\ conn[c].reqs = <<>>
              /\ conn' = [conn EXCEPT ![c] = Closed]
              /\ UNCHANGED <<lib, seen>>
           \/ /\ conn[c].reqs # <<>> /\ r.kind = "filemap"
              /\ conn' = Answered(FileMap) /\ lib' = [lib EXCEPT !.map = FileMap]
              /\ UNCHANGED seen
           \/ /\ conn[c].reqs # <<>> /\ r.kind = "dep_check" /\ lib.deps # NoDeps
              /\ conn' = Answered(IF r.path \in lib.deps THEN "+" ELSE "!")
              /\ UNCHANGED <<lib, seen>>
           \/ /\ conn[c].reqs # <<>> /\ r.kind = "sandbox_violation"
              /\ conn' = [conn EXCEPT ![c].reqs = Tail(@)]
              /\ seen' = seen \cup {<<main.target, r.by>>}
              /\ UNCHANGED lib
    /\ UNCHANGED <<main, proc, tried, plan, calls>>

\* Slip: the connections are left open.
EndKeeps ==
    /\ slave.pc = "end"
    /\ slave' = [pc |-> "done", ready |-> {}, listen |-> FALSE]
    /\ UNCHANGED <<lib, main, conn, proc, seen, tried, plan, calls>>
\* Every connection is closed, with what was not read.
End ==
    /\ slave.pc = "end"
    /\ slave' = [pc |-> "done", ready |-> {}, listen |-> FALSE]
    /\ conn' = [c \in Conns |->
         IF c \in Open THEN [conn[c] EXCEPT !.state = "closed", !.reqs = <<>>] ELSE conn[c]]
    /\ UNCHANGED <<lib, main, proc, seen, tried, plan, calls>>

-----------------------------------------------------------------------------
(* A process with darwintrace in it *)

Sends(p, kind, path) ==
    conn' = [conn EXCEPT ![proc[p].conn].reqs =
                 Append(@, [kind |-> kind, path |-> path, by |-> p])]
Verdict(p, v, map) ==
    proc' = [proc EXCEPT ![p].pc = "run", ![p].verdict = v, ![p].map = map]

\* __darwintrace_is_in_sandbox, with the map it has; a send to a socket that
\* was closed fails.
Judge(p, path, map) ==
    LET dead == conn[proc[p].conn].state = "closed"
    IN  IF map # "fenced" \/ path = "sandbox"
        THEN Verdict(p, "allowed", map) /\ UNCHANGED <<conn, tried>>
        ELSE IF path = "outside"
        THEN /\ Verdict(p, "refused", map)
             /\ IF dead THEN UNCHANGED conn ELSE Sends(p, "sandbox_violation", path)
             /\ tried' = IF proc[p].target = main.target THEN tried \cup {<<main.target, p>>}
                         ELSE tried
        ELSE /\ IF dead THEN Verdict(p, "refused", map) /\ UNCHANGED conn
                ELSE /\ Sends(p, "dep_check", path)
                     /\ proc' = [proc EXCEPT ![p].pc = "askdep", ![p].map = map]
             /\ UNCHANGED tried

Acts(p, what) ==
    /\ what \in plan.does /\ proc[p].pc = "run"
    /\ calls > 0 /\ calls' = calls - 1
    /\ UNCHANGED <<lib, main, slave, seen, plan>>

\* A file is used.
Access(p) ==
    /\ Acts(p, "access")
    /\ \E path \in plan.paths :
        proc' = [proc EXCEPT ![p].pc = IF proc[p].conn = NoConn THEN "connect" ELSE "judge",
                             ![p].path = path, ![p].verdict = ""]
    /\ UNCHANGED <<conn, tried>>
JudgeAgain(p) ==
    /\ proc[p].pc = "judge"
    /\ Judge(p, proc[p].path, proc[p].map)
    /\ UNCHANGED <<lib, main, slave, seen, plan, calls>>

\* __darwintrace_setup: a process that cannot connect to the socket of its
\* target aborts.
Connect(p) ==
    /\ proc[p].pc = "connect"
    /\ IF lib.sock /\ proc[p].target = main.target
       THEN \E c \in {d \in Conns : conn[d].state = "unused"} :
                /\ conn' = [conn EXCEPT ![c] = [state |-> "pending", ans |-> <<>>,
                              reqs |-> <<[kind |-> "filemap", path |-> "", by |-> p]>>]]
                /\ proc' = [proc EXCEPT ![p].pc = "askmap", ![p].conn = c]
       ELSE proc' = [proc EXCEPT ![p].pc = "gone"] /\ UNCHANGED conn
    /\ UNCHANGED <<lib, main, slave, seen, tried, plan, calls>>

\* exchange_with_port: the answer that comes first on the connection, or the
\* connection is closed. Without a map everything is allowed.
Taken(c) == [conn EXCEPT ![c].ans = Tail(@)]
Answer(p) ==
    LET c == proc[p].conn IN
    /\ proc[p].pc \in {"askmap", "askdep"}
    /\ conn[c].ans # <<>> \/ conn[c].state = "closed"
    /\ proc' = IF proc[p].pc = "askmap"
               THEN [proc EXCEPT ![p].pc = "judge",
                                 ![p].map = IF conn[c].ans = <<>> THEN "none"
                                            ELSE Head(conn[c].ans)]
               ELSE [proc EXCEPT ![p].pc = "run",
                        ![p].verdict = IF conn[c].ans # <<>> /\ Head(conn[c].ans) = "+"
                                       THEN "allowed" ELSE "refused"]
    /\ conn' = IF conn[c].ans = <<>> THEN conn ELSE Taken(c)
    /\ UNCHANGED <<lib, main, slave, seen, tried, plan, calls>>

\* A child has its parent's connection and map until it calls execve, which
\* closes the connection; unless the plan says so it does nothing before that.
Fork(p) ==
    /\ Acts(p, "fork")
    /\ \E q \in Procs :
        /\ proc[q].pc = "none"
        /\ proc' = [proc EXCEPT ![q] = [proc[p] EXCEPT
                        !.pc = IF "share" \in plan.does THEN "run" ELSE "forked",
                        !.verdict = ""]]
    /\ UNCHANGED <<conn, tried>>
Exec(p) ==
    /\ proc[p].pc = "forked" \/ Acts(p, "exec")
    /\ proc' = [proc EXCEPT ![p] = [@ EXCEPT !.pc = "run", !.conn = NoConn, !.map = "none",
                                             !.verdict = ""]]
    /\ calls' = IF proc[p].pc = "forked" THEN calls ELSE calls - 1
    /\ UNCHANGED <<lib, main, slave, conn, seen, tried, plan>>
Exit(p) ==
    /\ proc[p].pc = "run"
    /\ proc' = [proc EXCEPT ![p].pc = "gone", ![p].conn = NoConn]
    /\ UNCHANGED <<lib, main, slave, conn, seen, tried, plan, calls>>

Main ==
    \/ Start \/ EnableFence \/ SetDeps \/ CloseFlag \/ CloseSocket \/ Check \/ Clean
Slave == Loop \/ Select \/ Accept \/ End \/ \E c \in Conns : Serve(c)
Proceed(p) == JudgeAgain(p) \/ Connect(p) \/ Answer(p)
Process(p) == Access(p) \/ Fork(p) \/ Exec(p) \/ Exit(p)

Next ==
    \/ Main \/ Slave
    \/ \E p \in Procs : Run(p) \/ Proceed(p) \/ Process(p)

\* Threads and processes that can go on do.
Fairness == /\ WF_vars(Main) /\ WF_vars(Slave)
            /\ \A p \in Procs : WF_vars(Proceed(p))
Spec == Init /\ [][Next]_vars /\ Fairness

-----------------------------------------------------------------------------
(* Properties *)

Permitted(p) ==
    LET t == plan.targets[proc[p].target]
    IN  t.fence => proc[p].path \in {"sandbox"} \cup t.deps

\* While a target is traced, none of its processes gets at a file that is
\* neither in the sandbox nor of a port that the target depends on.
FenceHolds == [][\A p \in Procs :
    proc'[p].verdict = "allowed" /\ proc[p].verdict # "allowed"
    /\ main.pc = "target" /\ proc[p].target = main.target => Permitted(p)]_vars

\* A target's trace comes to its end, and so does every question.
TraceEnds ==
    /\ main.pc \notin {"idle", "target"} ~> main.pc \in {"idle", "target"}
    /\ \A p \in Procs : proc[p].pc \in {"askmap", "askdep"} ~> proc[p].pc \notin {"askmap", "askdep"}

\* A target that is traced has a socket, so that its processes need not abort.
SocketOpened == main.pc = "target" => lib.sock

\* What a process was refused is known when the violations are asked for.
ViolationsKnown == main.pc = "clean" => tried \subseteq seen

\* Files are only asked about when the dependencies are set.
DepsAreSet == lib.deps = NoDeps => \A c \in Conns : \A i \in DOMAIN conn[c].reqs :
    conn[c].reqs[i].kind # "dep_check" \/ main.pc # "target"
=============================================================================
