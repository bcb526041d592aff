------------------------------ MODULE Daemondo ------------------------------
(***************************************************************************)
(* daemondo (programs/daemondo/main.c): it starts a daemon, follows its    *)
(* process, restarts it on SIGHUP and on notifications, and stops it on    *)
(* SIGTERM. Its one thread serves a run loop; while it waits for a child   *)
(* in WaitChildDeath it serves the same loop in a mode that still handles  *)
(* the deaths of children, so ProcessChildDeath may run under Stop.        *)
(*                                                                         *)
(* The daemon, the commands it is controlled with and the kernel (kqueue,  *)
(* SIGCHLD, wait4) are the environment. Process ids are used once.         *)
(***************************************************************************)
EXTENDS Naturals, FiniteSets

CONSTANTS
    LastPid,   \* processes that can be forked before fork fails
    Styles,    \* pid styles to consider
    StopCmds,  \* whether there is a stop-cmd: a set of Booleans
    MaxCalls   \* SIGHUPs and notifications together

ASSUME DaemondoAssumption ==
    /\ LastPid \in Nat /\ MaxCalls \in Nat /\ StopCmds \subseteq BOOLEAN
    /\ Styles \subseteq {"none", "exec", "fileauto", "fileclean"}

VARIABLES
    pidStyle, stopCmd, restartCmd,  \* the options, fixed once read
    pc,           \* where the thread is
    target,       \* the process it waits for, or has found
    job,          \* what WaitChildDeath was called for
    restarting,   \* Stop and Start were called by Restart
    stay,         \* the run loop was not left since a timer fired
    terminating,  \* as in the code
    runningPid,   \* as in the code: 0 when stopped, Unknown when not known
    pidFile,      \* the process named in the pid file, 0 when there is none
    restartTimer, \* a restart is scheduled
    role,         \* what each process is
    life,         \* whether it is alive
    launched,     \* commands that have left a daemon behind
    watched,      \* processes with a kevent registered
    events,       \* kevents not yet read
    messages,     \* signals sent to the run loop and not yet handled
    calls         \* SIGHUPs and notifications so far

options == <<pidStyle, stopCmd, restartCmd>>
thread == <<pc, target, job, restarting, stay>>
system == <<role, life, launched, watched, events>>
input == <<messages, calls>>
vars == <<options, thread, terminating, runningPid, pidFile, restartTimer, system, input>>

Pids == 1..LastPid
Unknown == LastPid + 1   \* stands for the code's -1

FileStyle == pidStyle \in {"fileauto", "fileclean"}
Daemons == {p \in Pids : role[p] = "daemon" /\ life[p] = "alive"}

\* A daemon that a start-cmd left behind is not daemondo's own child.
OwnChild(p) == role[p] # "daemon" \/ pidStyle = "exec"

TypeOK ==
    /\ pidStyle \in Styles /\ stopCmd \in StopCmds /\ restartCmd \in BOOLEAN
    /\ pc \in {"start", "poll", "track", "loop", "wait", "pause", "ended"}
    /\ target \in 0..Unknown
    /\ job \in {"start", "stop", "restart"}
    /\ restarting \in BOOLEAN /\ stay \in BOOLEAN
    /\ terminating \in BOOLEAN /\ restartTimer \in BOOLEAN
    /\ runningPid \in 0..Unknown
    /\ pidFile \in 0..LastPid
    /\ role \in [Pids -> {"unused", "daemon", "start", "stop", "restart"}]
    /\ life \in [Pids -> {"unused", "alive", "zombie", "gone"}]
    /\ launched \subseteq Pids /\ watched \subseteq Pids /\ events \subseteq watched
    /\ messages \subseteq {"SIGCHLD", "SIGTERM", "SIGHUP"}
    /\ calls \in 0..MaxCalls

Init ==
    /\ pidStyle \in Styles /\ stopCmd \in StopCmds /\ restartCmd \in BOOLEAN
    /\ pidStyle = "exec" => stopCmd = FALSE /\ restartCmd = FALSE
    /\ pc = "start" /\ target = 0 /\ job = "start" /\ restarting = FALSE /\ stay = FALSE
    /\ terminating = FALSE /\ runningPid = 0 /\ pidFile = 0 /\ restartTimer = FALSE
    /\ role = [p \in Pids |-> "unused"] /\ life = [p \in Pids |-> "unused"]
    /\ launched = {} /\ watched = {} /\ events = {}
    /\ messages = {} /\ calls = 0

-----------------------------------------------------------------------------
(* processes *)

\* fork: the next process id.
Fork(p, r) ==
    /\ p \in Pids /\ role[p] = "unused"
    /\ \A q \in Pids : q < p => role[q] # "unused"
    /\ role' = [role EXCEPT ![p] = r]
    /\ life' = [life EXCEPT ![p] = "alive"]
    /\ UNCHANGED <<watched, events>>

\* How the processes ps look when they are dead and daemondo has been told.
Dies(ps) ==
    /\ life' = [p \in Pids |->
        IF p \notin ps THEN life[p] ELSE IF OwnChild(p) THEN "zombie" ELSE "gone"]
    /\ events' = events \cup (ps \cap watched)
    /\ messages' = IF \E p \in ps : OwnChild(p)
                   THEN messages \cup {"SIGCHLD"} ELSE messages

\* Slip: the pid file is left behind.
ForgetOnly == runningPid' = 0 /\ UNCHANGED pidFile

\* UnmonitorChild and DestroyPidFile.
Forget ==
    /\ runningPid' = 0
    /\ pidFile' = IF pidStyle \in {"exec", "fileclean"} THEN 0 ELSE pidFile

\* ProcessChildDeath for each of ps.
ProcessChildDeath(ps) ==
    IF runningPid \in ps THEN Forget ELSE UNCHANGED <<runningPid, pidFile>>

-----------------------------------------------------------------------------
(* Start *)

\* Start returns: MainLoop ends on an error of the first one, Restart
\* ignores it.
StartReturns(ok) ==
    /\ pc' = IF ok \/ restarting THEN "loop" ELSE "ended"
    /\ restarting' = FALSE
    /\ UNCHANGED <<target, job, stay>>

\* A pid file left over is deleted, and start-cmd run.
Start(p) ==
    /\ pc = "start"
    /\ Fork(p, IF pidStyle = "exec" THEN "daemon" ELSE "start") /\ UNCHANGED launched
    /\ pidFile' = 0
    /\ pc' = IF FileStyle THEN "poll" ELSE IF pidStyle = "exec" THEN "track" ELSE "wait"
    /\ target' = p /\ job' = "start"
    /\ UNCHANGED <<options, restarting, stay, terminating, runningPid, restartTimer, input>>

StartFails ==
    /\ pc = "start"
    /\ pidFile' = 0
    /\ StartReturns(FALSE)
    /\ UNCHANGED <<options, terminating, runningPid, restartTimer, system, input>>

\* WaitForValidPidFile: the file names a process that kill(pid, 0) finds.
FindPid ==
    /\ pc = "poll" /\ pidFile # 0 /\ life[pidFile] = "alive"
    /\ target' = pidFile /\ pc' = "track"
    /\ UNCHANGED <<options, job, restarting, stay, terminating, runningPid, pidFile,
                   restartTimer, system, input>>

LosePatience ==
    /\ pc = "poll"
    /\ StartReturns(FALSE)
    /\ UNCHANGED <<options, terminating, runningPid, pidFile, restartTimer, system, input>>

\* MonitorChild and CreatePidFile. There is no kevent to be had for a process
\* that is gone; for a zombie the kernel reports at once, or refuses.
Track ==
    /\ pc = "track"
    /\ runningPid' = target
    /\ \/ /\ target \in Pids /\ life[target] \in {"alive", "zombie"}
          /\ watched' = watched \cup {target}
          /\ events' = events \cup ({target} \ {p \in Pids : life[p] = "alive"})
       \/ /\ target \in Pids => life[target] # "alive"
          /\ UNCHANGED <<watched, events>>
    /\ pidFile' = IF pidStyle = "exec" THEN target ELSE pidFile
    /\ StartReturns(TRUE)
    /\ UNCHANGED <<options, terminating, restartTimer, role, life, launched, input>>

-----------------------------------------------------------------------------
(* Stop and Restart *)

\* Stop returns: to Restart, which sleeps before it starts again, or to the
\* run loop.
StopReturns ==
    /\ pc' = IF restarting' THEN "pause" ELSE "loop"
    /\ UNCHANGED <<target, job>>

\* A callback of the run loop begins: a source makes CFRunLoopRunInMode
\* return once it was handled, a timer does not.
CalledBy(source) == stay' = (source = "timer")

\* stop-cmd is run, or the process that is tracked is sent SIGTERM; either is
\* waited for. A failing fork of stop-cmd returns at once.
Stop ==
    \/ /\ stopCmd
       /\ \E p \in Pids : Fork(p, "stop") /\ target' = p
       /\ UNCHANGED launched
       /\ pc' = "wait" /\ job' = "stop"
    \/ /\ ~stopCmd /\ runningPid \in Pids /\ target' = runningPid
       /\ pc' = "wait" /\ job' = "stop"
       /\ UNCHANGED system
    \/ /\ stopCmd \/ runningPid \notin Pids
       /\ StopReturns /\ UNCHANGED system

Restart ==
    \/ /\ ~restartCmd
       /\ restarting' = TRUE
       /\ Stop
    \/ /\ restartCmd
       /\ \/ /\ \E p \in Pids : Fork(p, "restart") /\ target' = p
             /\ UNCHANGED launched
             /\ pc' = "wait" /\ job' = "restart"
          \/ UNCHANGED <<pc, target, job, system>>
       /\ UNCHANGED restarting

\* sleep(restartWait)
Pause ==
    /\ pc = "pause" /\ pc' = "start"
    /\ UNCHANGED <<options, target, job, restarting, stay, terminating, runningPid,
                   pidFile, restartTimer, system, input>>

\* Slip: a child that is not dead yet counts as gone when it is to be stopped.
WaitOnce ==
    /\ pc = "wait"
    /\ job = "stop" \/ life[target] # "alive" \/ ~OwnChild(target)
    /\ life' = [life EXCEPT ![target] = IF @ = "zombie" THEN "gone" ELSE @]
    /\ IF job = "stop" /\ stopCmd THEN Forget ELSE ProcessChildDeath({target})
    /\ stay' = (stay /\ runningPid # target)
    /\ UNCHANGED restarting
    /\ \/ job = "start" /\ pc' = "track" /\ target' = Unknown /\ UNCHANGED job
       \/ job = "stop" /\ StopReturns
       \/ job = "restart" /\ pc' = "loop" /\ UNCHANGED <<target, job>>
    /\ UNCHANGED <<options, terminating, restartTimer, role, launched,
                   watched, events, input>>

\* WaitChildDeath: wait4 has reaped the process, or says it is no child.
WaitEnds ==
    /\ pc = "wait"
    /\ life[target] # "alive" \/ ~OwnChild(target)
    /\ life' = [life EXCEPT ![target] = IF @ = "zombie" THEN "gone" ELSE @]
    /\ IF job = "stop" /\ stopCmd THEN Forget ELSE ProcessChildDeath({target})
    /\ stay' = (stay /\ runningPid # target)
    /\ UNCHANGED restarting
    /\ \/ job = "start" /\ pc' = "track" /\ target' = Unknown /\ UNCHANGED job
       \/ job = "stop" /\ StopReturns
       \/ job = "restart" /\ pc' = "loop" /\ UNCHANGED <<target, job>>
    /\ UNCHANGED <<options, terminating, restartTimer, role, launched,
                   watched, events, input>>

\* Slip: the process is asked again rather than killed.
AskAgain ==
    /\ pc = "wait" /\ life[target] = "alive"
    /\ UNCHANGED vars

\* kChildDeathTimeout has passed: SIGKILL.
KillTarget ==
    /\ pc = "wait" /\ life[target] = "alive" /\ OwnChild(target)
    /\ Dies({target})
    /\ UNCHANGED <<options, thread, terminating, runningPid, pidFile,
                   restartTimer, role, launched, watched, calls>>

-----------------------------------------------------------------------------
(* the run loop *)

\* MainLoop's condition is looked at only when the run loop is left.
Looping == pc = "loop" /\ (stay \/ (~terminating /\ runningPid # 0))

\* A source of the default mode was handled, or one of the childwatch mode.
Handled ==
    /\ stay' = (stay /\ pc = "wait")
    /\ UNCHANGED <<pc, target, job, restarting>>

\* Slip: the event is not taken off the queue.
EventLeft(p) ==
    /\ Looping \/ pc = "wait"
    /\ p \in events
    /\ watched' = watched \ {p}
    /\ ProcessChildDeath({p})
    /\ Handled
    /\ UNCHANGED <<options, terminating, restartTimer, role, life, launched, events, input>>

\* KQueueCallBack, in either mode of the run loop.
KQueueCallBack(p) ==
    /\ Looping \/ pc = "wait"
    /\ p \in events
    /\ events' = events \ {p} /\ watched' = watched \ {p}
    /\ ProcessChildDeath({p})
    /\ Handled
    /\ UNCHANGED <<options, terminating, restartTimer, role, life, launched, input>>

\* Slip: children are reaped and nobody is told.
ReapOnly ==
    /\ Looping \/ pc = "wait"
    /\ "SIGCHLD" \in messages
    /\ messages' = messages \ {"SIGCHLD"}
    /\ life' = [p \in Pids |-> IF life[p] = "zombie" THEN "gone" ELSE life[p]]
    /\ Handled
    /\ UNCHANGED <<options, terminating, runningPid, pidFile, restartTimer, role,
                   launched, watched, events, calls>>

\* SignalCallback for SIGCHLD, in either mode: CheckChildren.
CheckChildren ==
    LET dead == {p \in Pids : life[p] = "zombie"} IN
    /\ Looping \/ pc = "wait"
    /\ "SIGCHLD" \in messages
    /\ messages' = messages \ {"SIGCHLD"}
    /\ life' = [p \in Pids |-> IF p \in dead THEN "gone" ELSE life[p]]
    /\ ProcessChildDeath(dead)
    /\ Handled
    /\ UNCHANGED <<options, terminating, restartTimer, role, launched,
                   watched, events, calls>>

\* Slip: SIGTERM ends the run loop, and the daemon is not stopped.
TerminateOnly ==
    /\ Looping /\ "SIGTERM" \in messages
    /\ messages' = messages \ {"SIGTERM"}
    /\ terminating' = TRUE
    /\ Handled
    /\ UNCHANGED <<options, runningPid, pidFile, restartTimer, system, calls>>

\* Slip: SIGTERM is also served in the childwatch mode.
TerminateInWait ==
    /\ Looping \/ pc = "wait"
    /\ "SIGTERM" \in messages
    /\ messages' = messages \ {"SIGTERM"}
    /\ terminating' = TRUE
    /\ \/ pc = "loop" /\ restarting' = FALSE /\ CalledBy("source") /\ Stop
       \/ pc = "wait" /\ UNCHANGED <<thread, system>>
    /\ UNCHANGED <<options, runningPid, pidFile, restartTimer, calls>>

\* SignalCallback for SIGTERM and SIGHUP, in the default mode only.
Terminate ==
    /\ Looping /\ "SIGTERM" \in messages
    /\ messages' = messages \ {"SIGTERM"}
    /\ terminating' = TRUE
    /\ restarting' = FALSE /\ CalledBy("source") /\ Stop
    /\ UNCHANGED <<options, runningPid, pidFile, restartTimer, calls>>

HangUp ==
    /\ Looping /\ "SIGHUP" \in messages
    /\ messages' = messages \ {"SIGHUP"}
    /\ CalledBy("source") /\ Restart
    /\ UNCHANGED <<options, terminating, runningPid, pidFile, restartTimer, calls>>

\* ScheduledRestartCallback
TimerFires ==
    /\ Looping /\ restartTimer
    /\ restartTimer' = FALSE
    /\ CalledBy("timer") /\ Restart
    /\ UNCHANGED <<options, terminating, runningPid, pidFile, input>>

\* A wake-up or another notification: ScheduleDelayedRestart replaces the
\* timer that may be pending.
Notified ==
    /\ Looping /\ calls < MaxCalls
    /\ calls' = calls + 1 /\ restartTimer' = TRUE
    /\ Handled
    /\ UNCHANGED <<options, terminating, runningPid, pidFile, system, messages>>

End ==
    /\ pc = "loop" /\ ~Looping /\ pc' = "ended"
    /\ UNCHANGED <<options, target, job, restarting, stay, terminating, runningPid,
                   pidFile, restartTimer, system, input>>

-----------------------------------------------------------------------------
(* the environment *)

SendTerm ==
    /\ pc # "ended" /\ ~terminating /\ "SIGTERM" \notin messages
    /\ messages' = messages \cup {"SIGTERM"}
    /\ UNCHANGED <<options, thread, terminating, runningPid, pidFile,
                   restartTimer, system, calls>>

SendHup ==
    /\ pc # "ended" /\ calls < MaxCalls /\ "SIGHUP" \notin messages
    /\ messages' = messages \cup {"SIGHUP"} /\ calls' = calls + 1
    /\ UNCHANGED <<options, thread, terminating, runningPid, pidFile,
                   restartTimer, system>>

\* A daemon dies of its own or because it was asked to; one that wrote a pid
\* file may remove it, whatever it names now.
DaemonDies(p) ==
    /\ p \in Daemons
    /\ Dies({p})
    /\ \/ pidFile' = pidFile
       \/ FileStyle /\ pidFile' = 0
    /\ UNCHANGED <<options, thread, terminating, runningPid, restartTimer,
                   role, launched, watched, calls>>

\* A start-cmd or restart-cmd leaves a daemon behind, which writes its pid file.
Launch(p, d) ==
    /\ role[p] \in {"start", "restart"} /\ life[p] = "alive"
    /\ p \notin launched /\ launched' = launched \cup {p}
    /\ Fork(d, "daemon")
    /\ pidFile' = IF FileStyle THEN d ELSE pidFile
    /\ UNCHANGED <<options, thread, terminating, runningPid, restartTimer, input>>

\* A command ends, whether it did what it is for or not.
CommandEnds(p) ==
    /\ role[p] \in {"start", "stop", "restart"} /\ life[p] = "alive"
    /\ Dies({p})
    /\ UNCHANGED <<options, thread, terminating, runningPid, pidFile,
                   restartTimer, role, launched, watched, calls>>

-----------------------------------------------------------------------------
Thread ==
    \/ \E p \in Pids : Start(p)
    \/ StartFails \/ FindPid \/ LosePatience \/ Track \/ Pause
    \/ WaitEnds \/ KillTarget \/ End
    \/ \E p \in Pids : KQueueCallBack(p)
    \/ CheckChildren \/ Terminate \/ HangUp \/ TimerFires

Environment ==
    \/ SendTerm \/ SendHup \/ Notified
    \/ \E p \in Pids : DaemonDies(p) \/ CommandEnds(p)
    \/ \E p, d \in Pids : Launch(p, d)

\* daemondo has ended: what it left behind is not followed further.
Ended == pc = "ended" /\ UNCHANGED vars

Next ==
    \/ pc # "ended" /\ (Thread \/ Environment)
    \/ Ended

Spec == Init /\ [][Next]_vars

\* The thread goes on, each timeout passes in the end, and the run loop
\* serves every source that stays ready.
Fairness ==
    /\ WF_vars(Thread)
    /\ SF_vars(Terminate)
    /\ WF_vars(\E p \in Pids : KQueueCallBack(p)) /\ WF_vars(CheckChildren)

FairSpec == Spec /\ Fairness
-----------------------------------------------------------------------------
\* A daemon daemondo runs itself is replaced only when it is dead: a restart
\* never has two of them, though it may have taken SIGKILL to end the first
\* (Stop, WaitChildDeath and Start of main.c).
OneDaemon == pidStyle = "exec" => Cardinality(Daemons) <= 1

\* A process is waited for until it is dead ("The child should be dead and gone
\* by now.", WaitChildDeath in main.c).
ChildGone == [][pc = "wait" /\ pc' # "wait" => life'[target] # "alive"]_vars

\* The pid file daemondo writes names the process it follows, and is gone
\* when there is none (CreatePidFile, DestroyPidFile).
PidFileNamesDaemon == pidStyle = "exec" => pidFile = runningPid

\* daemondo leaves no daemon of its own behind when it ends, whether on
\* SIGTERM, on a death or because a restart failed.
EndsWithDaemon == pidStyle = "exec" /\ pc = "ended" => Daemons = {} /\ pidFile = 0

\* Once SIGTERM was taken nothing is started again, though a restart may have
\* been under way or due (SignalCallback, ScheduledRestartCallback).
NothingAfterTerm == terminating => pc \notin {"pause", "start", "poll", "track"}

\* The death of the daemon that is followed is noticed ("when it detects that
\* the daemon process has died", the help text of main.c).
DeathOf(p) == runningPid = p /\ life[p] \in {"zombie", "gone"}
DeathNoticed == \A p \in Pids : DeathOf(p) ~> runningPid # p

\* The death of a daemon that daemondo runs itself is noticed, though it may
\* happen before its kevent is registered: SIGCHLD tells of it as well.
ChildDeathNoticed ==
    \A p \in Pids : pidStyle = "exec" /\ DeathOf(p) ~> runningPid # p

\* SIGTERM ends daemondo, whatever it is doing when it arrives.
TermEnds == "SIGTERM" \in messages ~> pc = "ended"

\* daemondo ends when it has nothing to follow ("Run the run loop until we stop
\* it, or until the process we're tracking stops", MainLoop in main.c).
EndsWhenStopped == pc = "loop" /\ runningPid = 0 ~> pc = "ended"
\* All of this at once: one daemon, its pid file, its end and nothing after it.
DaemonTracked == TypeOK /\ OneDaemon /\ PidFileNamesDaemon /\ EndsWithDaemon /\ NothingAfterTerm
=============================================================================
