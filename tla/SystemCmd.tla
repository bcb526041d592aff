------------------------------- MODULE SystemCmd -------------------------------
(* The Tcl command "system" (pextlib1.0/system.c), which every phase of a port *)
(* runs its tools with: a shell is forked with its output in a pipe, the lines *)
(* are shown as they come, then the shell is waited for.  The command may      *)
(* leave a process in the background that has the pipe open too; in trace mode *)
(* another thread of MacPorts opens and closes descriptors meanwhile.          *)
EXTENDS Integers, FiniteSets

CONSTANTS MaxLines,    \* lines all processes of the command print together
          PipeSize,    \* lines the pipe holds
          NumFds,      \* descriptors of the process
          Others       \* may the process have another child?  a set of BOOLEANs

VARIABLES pc,          \* the command's thread
          fdset,       \* <<read end, write end>>, descriptors
          fds,         \* [descriptor -> "free", "read", "write" (the pipe) or "net"]
          read_failed,
          status,      \* "none", then "ok" or "error"
          shell,       \* "none", "starting", "running", "ended", "reaped"
          code,        \* how the shell ended: an exit code, -1 for a signal
          back,        \* a background process: "none", "running", "ended"
          other,       \* another child: "none", "running", "ended", "reaped"
          writers,     \* processes that have the pipe's write end open
          pipe,        \* lines in it, how many by the shell
          printed,     \* lines printed by the shell and by the background process
          shown,       \* lines given to ui_info, how many by the shell
          cut          \* was a descriptor of the other thread closed?
vars == <<pc, fdset, fds, read_failed, status, shell, code, back, other, writers, pipe,
          printed, shown, cut>>

SystemAssumption == {MaxLines, PipeSize, NumFds} \subseteq Nat

Processes == {"shell", "back"}
Total(n) == n["shell"] + n["back"]
FreeFds == {d \in 1 .. NumFds : fds[d] = "free"}
Lowest(S) == CHOOSE d \in S : \A e \in S : d <= e
ReaderOpen == \E d \in 1 .. NumFds : fds[d] = "read"

Goto(l) == pc' = l
Running == UNCHANGED <<code, back, printed, other, shell>>
Rest == UNCHANGED <<fdset, status, cut>>
--------------------------------------------------------------------------------
Init ==
    /\ pc = "pipe" /\ fdset = <<0, 0>> /\ fds = [d \in 1 .. NumFds |-> "free"]
    /\ read_failed = FALSE /\ status = "none" /\ cut = FALSE
    /\ shell = "none" /\ code = 0 /\ back = "none" /\ writers = {}
    /\ pipe = [p \in Processes |-> 0] /\ printed = pipe /\ shown = pipe
    /\ other \in {IF o THEN "running" ELSE "none" : o \in Others}

\* A failed pipe() or fork() is an error; fork leaves the pipe open.
Pipe ==
    /\ pc = "pipe" /\ Running /\ UNCHANGED <<read_failed, writers, pipe, shown, cut>>
    /\ \/ /\ Cardinality(FreeFds) >= 2
          /\ LET r == Lowest(FreeFds)  w == Lowest(FreeFds \ {r})
             IN  /\ fdset' = <<r, w>>
                 /\ fds' = [fds EXCEPT ![r] = "read", ![w] = "write"]
          /\ Goto("fork") /\ UNCHANGED status
       \/ status' = "error" /\ Goto("done") /\ UNCHANGED <<fdset, fds>>

Fork ==
    /\ pc = "fork" /\ UNCHANGED <<fdset, fds, read_failed, code, back, other, pipe, printed, shown, cut>>
    /\ \/ shell' = "starting" /\ writers' = {"shell"} /\ Goto("closewrite") /\ UNCHANGED status
       \/ status' = "error" /\ Goto("done") /\ UNCHANGED <<shell, writers>>

\* Defect: the parent keeps its own write end.
KeepWrite ==
    /\ pc = "closewrite" /\ Running /\ Rest /\ UNCHANGED <<read_failed, pipe, shown, fds>>
    /\ writers' = writers \cup {"parent"} /\ Goto("fdopen")

CloseWrite ==
    /\ pc = "closewrite" /\ Running /\ Rest /\ UNCHANGED <<read_failed, writers, pipe, shown>>
    /\ fds' = [fds EXCEPT ![fdset[2]] = "free"] /\ Goto("fdopen")

Fdopen ==
    /\ pc = "fdopen" /\ Running /\ Rest /\ UNCHANGED <<fds, writers, pipe, shown>>
    /\ \/ Goto("read") /\ UNCHANGED read_failed
       \/ Goto("wait") /\ read_failed' = TRUE

\* A line is shown; when there is no memory for it, or showing it fails, the rest
\* is not read.
Read(p) ==
    /\ pc = "read" /\ pipe[p] > 0 /\ Running /\ Rest /\ UNCHANGED <<fds, writers>>
    /\ pipe' = [pipe EXCEPT ![p] = @ - 1]
    /\ \/ shown' = [shown EXCEPT ![p] = @ + 1] /\ UNCHANGED <<pc, read_failed>>
       \/ read_failed' = TRUE /\ Goto("fclose") /\ UNCHANGED shown

EndOfFile ==
    /\ pc = "read" /\ Total(pipe) = 0 /\ writers = {}
    /\ Goto("fclose") /\ Running /\ Rest /\ UNCHANGED <<fds, read_failed, writers, pipe, shown>>

Fclose ==
    /\ pc = "fclose" /\ Goto("wait")
    /\ fds' = [fds EXCEPT ![fdset[1]] = "free"]
    /\ Running /\ Rest /\ UNCHANGED <<read_failed, writers, pipe, shown>>

\* Defect: how the shell ended is all that counts.
StatusOfShell == IF code = 0 THEN "ok" ELSE "error"
\* Status after wait(): exit code 0 of the shell, and all of its output read.
Status == IF code = 0 /\ ~read_failed THEN "ok" ELSE "error"

\* wait() takes whichever child has ended; another one's is an error.
Wait ==
    /\ pc = "wait" /\ UNCHANGED <<fdset, fds, read_failed, code, back, writers, pipe, printed, shown, cut>>
    /\ \/ shell = "ended" /\ shell' = "reaped" /\ status' = Status /\ UNCHANGED other
       \/ other = "ended" /\ other' = "reaped" /\ status' = "error" /\ UNCHANGED shell
    /\ Goto("cleanup")

\* The read end is closed once more: by now the number may be another's.
Cleanup ==
    /\ pc = "cleanup" /\ Goto("done")
    /\ cut' = (cut \/ fds[fdset[1]] = "net")
    /\ fds' = [fds EXCEPT ![fdset[1]] = "free"]
    /\ Running /\ UNCHANGED <<fdset, read_failed, status, writers, pipe, shown>>
--------------------------------------------------------------------------------
Parent == UNCHANGED <<pc, fdset, read_failed, status, shown, cut>>

\* The child arranges its descriptors, priority, user and directory and becomes
\* the shell; when one of these fails it exits with 1, with a line about chdir.
Start ==
    /\ shell = "starting" /\ Parent /\ UNCHANGED <<fds, back, other>>
    /\ \/ shell' = "running" /\ UNCHANGED <<code, writers, pipe, printed>>
       \/ shell' = "ended" /\ code' = 1 /\ writers' = writers \ {"shell"}
          /\ \/ UNCHANGED <<pipe, printed>>
             \/ /\ ReaderOpen /\ Total(printed) < MaxLines /\ Total(pipe) < PipeSize
                /\ pipe' = [pipe EXCEPT !["shell"] = @ + 1]
                /\ printed' = [printed EXCEPT !["shell"] = @ + 1]

\* Printing into a pipe nobody reads ends a process by SIGPIPE.
Alive(p) == IF p = "shell" THEN shell = "running" ELSE back = "running"
Prints(p) ==
    /\ Alive(p) /\ p \in writers /\ Total(printed) < MaxLines
    /\ Parent /\ UNCHANGED <<fds, other>>
    /\ IF ReaderOpen
       THEN /\ Total(pipe) < PipeSize
            /\ pipe' = [pipe EXCEPT ![p] = @ + 1] /\ printed' = [printed EXCEPT ![p] = @ + 1]
            /\ UNCHANGED <<shell, code, back, writers>>
       ELSE /\ shell' = IF p = "shell" THEN "ended" ELSE shell
            /\ code' = IF p = "shell" THEN -1 ELSE code
            /\ back' = IF p = "back" THEN "ended" ELSE back
            /\ writers' = writers \ {p} /\ UNCHANGED <<pipe, printed>>

\* What the command's processes do else: start one in the background, close or
\* redirect their output, end.
Background ==
    /\ shell = "running" /\ back = "none" /\ back' = "running"
    /\ writers' = IF "shell" \in writers THEN writers \cup {"back"} ELSE writers
    /\ Parent /\ UNCHANGED <<fds, shell, code, other, pipe, printed>>
Redirect(p) ==
    /\ Alive(p) /\ p \in writers /\ writers' = writers \ {p}
    /\ Parent /\ UNCHANGED <<fds, shell, code, back, other, pipe, printed>>
Exit(c) ==
    /\ shell = "running" /\ shell' = "ended" /\ code' = c /\ writers' = writers \ {"shell"}
    /\ Parent /\ UNCHANGED <<fds, back, other, pipe, printed>>
BackExit ==
    /\ back = "running" /\ back' = "ended" /\ writers' = writers \ {"back"}
    /\ Parent /\ UNCHANGED <<fds, shell, code, other, pipe, printed>>
OtherExit ==
    /\ other = "running" /\ other' = "ended"
    /\ Parent /\ UNCHANGED <<fds, shell, code, back, writers, pipe, printed>>

\* The thread of trace mode accepts a connection, or closes one.
Accept ==
    /\ FreeFds # {} /\ fds' = [fds EXCEPT ![Lowest(FreeFds)] = "net"]
    /\ Parent /\ Running /\ UNCHANGED <<writers, pipe>>
Hangup(d) ==
    /\ fds[d] = "net" /\ fds' = [fds EXCEPT ![d] = "free"]
    /\ Parent /\ Running /\ UNCHANGED <<writers, pipe>>

Caller == \/ Pipe \/ Fork \/ CloseWrite \/ Fdopen \/ EndOfFile \/ Fclose \/ Wait \/ Cleanup
          \/ \E p \in Processes : Read(p)
Next ==
    \/ Caller
    \/ Start \/ Background \/ BackExit \/ OtherExit \/ Accept
    \/ \E p \in Processes : Prints(p) \/ Redirect(p)
    \/ \E c \in {-1, 0, 1} : Exit(c)
    \/ \E d \in 1 .. NumFds : Hangup(d)

Spec == Init /\ [][Next]_vars /\ WF_vars(Caller) /\ WF_vars(Start)
--------------------------------------------------------------------------------
\* The command is reported to have succeeded only when its shell ended with exit
\* code 0 and every line the shell printed has been shown.
OkMeansDone ==
    status = "ok" => shell = "reaped" /\ code = 0 /\ shown["shell"] = printed["shell"]

\* The call ends once the shell and what it left in the background have ended.
CallEnds == (shell \in {"ended", "reaped"} /\ back # "running") ~> pc = "done"

\* The call ends once the shell has ended: not while a process in the background
\* has the pipe open.
ShellEndsCall == (shell = "ended") ~> pc = "done"

\* A command that succeeded is reported to have: not when wait() takes another
\* child, or showing its output failed.
SuccessIsReported ==
    pc = "done" /\ shell = "reaped" /\ code = 0 /\ ~read_failed => status = "ok"
NothingLeft == pc = "done" /\ ~read_failed /\ shell # "none" => shell = "reaped"

\* Descriptors of the other thread are left alone: not by the second close.
OthersKept == ~cut
================================================================================
