---------------------------- MODULE RegistryLock ----------------------------
(***************************************************************************)
(* The lock that keeps several port(1) processes from changing the         *)
(* registry at the same time: exclusive_lock and exclusive_unlock of       *)
(* registry2.0/registry.tcl, a count of open scopes kept by each process   *)
(* over one flock(2), and their callers, process_cmd of port/port.tcl and  *)
(* mportexec of macports1.0/macports.tcl.                                  *)
(*                                                                         *)
(* What a command does to the registry is abstracted to two steps: it      *)
(* reads something it will act on, and it changes something.               *)
(***************************************************************************)
EXTENDS Naturals, FiniteSets

CONSTANTS
    Procs,        \* processes that run port(1)
    Prompted,     \* those that read their commands from a user or a file
    Writers,      \* those that may write to the registry's directory
    Words,        \* what may be typed as the name of an action
    Actions,      \* the actions of action_array
    Guess,        \* word -> the actions it may stand for
    Faults,       \* errors of flock other than EAGAIN
    Erring,       \* processes whose options may not parse and whose ports'
                  \* dependencies may not resolve
    MaxExecs,     \* mportexec calls that take the lock, for one command
    MaxLocked,    \* bound on nlocked
    None          \* no process

ASSUME ConfigAssumption ==
    /\ {Prompted, Writers, Erring} \subseteq SUBSET Procs
    /\ Guess \in [Words -> SUBSET Actions]
    /\ Faults \subseteq {"EOPNOTSUPP", "other"}
    /\ None \notin Procs /\ MaxExecs \in Nat /\ MaxLocked \in Nat

VARIABLES
    pc,       \* where each process is
    word,     \* the word it is processing
    locked,   \* process_cmd's local of that name
    execs,    \* calls of mportexec that hold a scope of the lock
    left,     \* calls of mportexec the command may still make
    nlocked,  \* registry::nlocked
    lockfd,   \* registry::lockfd exists
    holder,   \* the process the operating system has granted the flock to
    based     \* what the process's next change is based on

vars == <<pc, word, locked, execs, left, nlocked, lockfd, holder, based>>

\* Slip: install is left out of the switch.
InstallUnlocked == {"activate", "deactivate", "setrequested", "unsetrequested",
                    "upgrade", "uninstall"}

\* The switch of lock_reg_if_needed looks at the word as it was typed.
Lockable == {"activate", "deactivate", "setrequested", "unsetrequested",
             "upgrade", "uninstall", "install"}

\* The actions that change the registry outside mportexec's own scope.
Changing == {"activate", "deactivate", "setrequested", "unsetrequested",
             "upgrade", "uninstall", "install", "archive", "rev-upgrade"}

\* The actions that call mportexec for a target that needs dependencies;
\* "build" stands for every such target that leaves the registry alone.
Executing == {"install", "activate", "upgrade", "rev-upgrade", "archive", "build"}

ActionOf(p) == CHOOSE a \in Guess[word[p]] : TRUE

TypeOK ==
    /\ pc \in [Procs -> {"off", "prompt", "trying", "waiting", "find",
                          "run", "ended"}]
    /\ word \in [Procs -> Words \cup {""}]
    /\ locked \in [Procs -> BOOLEAN]
    /\ execs \in [Procs -> Nat]
    /\ left \in [Procs -> Nat]
    /\ nlocked \in [Procs -> Nat]
    /\ lockfd \in [Procs -> BOOLEAN]
    /\ holder \in Procs \cup {None}
    /\ based \in [Procs -> {"nothing", "current", "stale"}]

Init ==
    /\ pc = [p \in Procs |-> "off"]
    /\ word = [p \in Procs |-> ""]
    /\ locked = [p \in Procs |-> FALSE]
    /\ execs = [p \in Procs |-> 0]
    /\ left = [p \in Procs |-> 0]
    /\ nlocked = [p \in Procs |-> 0]
    /\ lockfd = [p \in Procs |-> FALSE]
    /\ holder = None
    /\ based = [p \in Procs |-> "nothing"]

-----------------------------------------------------------------------------
(* exclusive_lock and exclusive_unlock *)

\* Where exclusive_lock returns to: process_cmd before it looks for the
\* action, or mportexec.
Resume(e) == IF e = 0 THEN "find" ELSE "run"

\* Only the first scope of a process goes to the operating system, and only
\* when the lock file may be opened.
Enter(p, e) ==
    LET first == nlocked[p] = 0 /\ (lockfd[p] \/ p \in Writers) IN
    /\ nlocked[p] < MaxLocked
    /\ nlocked' = [nlocked EXCEPT ![p] = @ + 1]
    /\ lockfd' = IF first THEN [lockfd EXCEPT ![p] = TRUE] ELSE lockfd
    /\ pc' = [pc EXCEPT ![p] = IF first THEN "trying" ELSE Resume(e)]
    /\ execs' = [execs EXCEPT ![p] = e]
    /\ UNCHANGED holder

\* Slip: the end of every scope gives the lock back.
LeaveEveryTime(p) ==
    /\ nlocked' = [nlocked EXCEPT ![p] = @ - 1]
    /\ holder' = IF lockfd[p] /\ holder = p THEN None ELSE holder

\* Slip: the count is compared before it is lowered.
LeaveTooLate(p) ==
    /\ nlocked' = [nlocked EXCEPT ![p] = @ - 1]
    /\ holder' = IF nlocked[p] = 0 /\ lockfd[p] /\ holder = p
                 THEN None ELSE holder

\* exclusive_unlock: the last scope gives the lock back.
LeaveLock(p) ==
    /\ nlocked' = [nlocked EXCEPT ![p] = @ - 1]
    /\ holder' = IF nlocked[p] = 1 /\ lockfd[p] /\ holder = p
                 THEN None ELSE holder

\* The process exits: its descriptors are closed and its lock with them.
\* In the registry's terms it is then as if it had never run.
Exit(p) ==
    /\ pc' = [pc EXCEPT ![p] = "off"]
    /\ word' = [word EXCEPT ![p] = ""]
    /\ locked' = [locked EXCEPT ![p] = FALSE]
    /\ execs' = [execs EXCEPT ![p] = 0]
    /\ left' = [left EXCEPT ![p] = 0]
    /\ nlocked' = [nlocked EXCEPT ![p] = 0]
    /\ lockfd' = [lockfd EXCEPT ![p] = FALSE]
    /\ holder' = IF holder = p THEN None ELSE holder
    /\ based' = [based EXCEPT ![p] = "nothing"]

\* An error of exclusive_lock ends the process when process_cmd called it;
\* callers of mportexec catch it and carry on. Either way nlocked was
\* already raised.
LockError(p) ==
    IF execs[p] = 0
    THEN Exit(p)
    ELSE /\ execs' = [execs EXCEPT ![p] = @ - 1]
         /\ pc' = [pc EXCEPT ![p] = "run"]
         /\ UNCHANGED <<word, locked, left, nlocked, lockfd, holder, based>>

\* flock succeeded, or is not supported here: exclusive_lock returns.
Granted(p, h) ==
    /\ pc' = [pc EXCEPT ![p] = Resume(execs[p])]
    /\ holder' = h
    /\ UNCHANGED <<word, locked, execs, left, nlocked, lockfd, based>>

\* Slip: EAGAIN is taken for a lock that is not supported.
TryThrough(p) ==
    /\ pc[p] = "trying"
    /\ \/ holder \in {None, p} /\ Granted(p, p)
       \/ holder \notin {None, p} /\ Granted(p, holder)
       \/ "EOPNOTSUPP" \in Faults /\ Granted(p, holder)
       \/ "other" \in Faults /\ LockError(p)

\* flock -exclusive -noblock
Try(p) ==
    /\ pc[p] = "trying"
    /\ \/ holder \in {None, p} /\ Granted(p, p)
       \/ /\ holder \notin {None, p}
          /\ pc' = [pc EXCEPT ![p] = "waiting"]
          /\ UNCHANGED <<word, locked, execs, left, nlocked, lockfd, holder, based>>
       \/ "EOPNOTSUPP" \in Faults /\ Granted(p, holder)
       \/ "other" \in Faults /\ LockError(p)

\* flock -exclusive, after "Waiting for lock"
Acquire(p) == pc[p] = "waiting" /\ holder = None /\ Granted(p, p)

Interrupted(p) == pc[p] = "waiting" /\ Faults # {} /\ LockError(p)

-----------------------------------------------------------------------------
(* process_cmd *)

Start(p) ==
    /\ pc[p] = "off"
    /\ pc' = [pc EXCEPT ![p] = "prompt"]
    /\ UNCHANGED <<word, locked, execs, left, nlocked, lockfd, holder, based>>

\* The word is taken from the command line and the lock asked for.
Type(p, w) ==
    /\ pc[p] = "prompt"
    /\ word' = [word EXCEPT ![p] = w]
    /\ left' = [left EXCEPT ![p] = MaxExecs]
    /\ \/ /\ w \in Lockable
          /\ locked' = [locked EXCEPT ![p] = TRUE]
          /\ Enter(p, 0)
       \/ /\ w \notin Lockable
          /\ locked' = [locked EXCEPT ![p] = FALSE]
          /\ pc' = [pc EXCEPT ![p] = "find"]
          /\ UNCHANGED <<execs, nlocked, lockfd, holder>>
    /\ UNCHANGED based

\* process_cmd returns: to the prompt, or to the end of the program.
Return(p) ==
    /\ pc' = [pc EXCEPT ![p] = IF p \in Prompted THEN "prompt" ELSE "ended"]
    /\ word' = [word EXCEPT ![p] = ""]
    /\ locked' = [locked EXCEPT ![p] = FALSE]
    /\ left' = [left EXCEPT ![p] = 0]
    /\ based' = [based EXCEPT ![p] = "nothing"]
    /\ UNCHANGED <<execs, lockfd>>

\* find_action names one action and the options parse.
Find(p) ==
    /\ pc[p] = "find" /\ Cardinality(Guess[word[p]]) = 1
    /\ pc' = [pc EXCEPT ![p] = "run"]
    /\ UNCHANGED <<word, locked, execs, left, nlocked, lockfd, holder, based>>

\* An unknown or ambiguous action, or arguments that do not parse, break out
\* of the loop, past exclusive_unlock.
Break(p) ==
    /\ pc[p] = "find"
    /\ p \in Erring \/ Cardinality(Guess[word[p]]) # 1
    /\ Return(p)
    /\ UNCHANGED <<nlocked, holder>>

\* Slip: the lock is given back whether or not this action asked for it.
DoneUnlocks(p) ==
    /\ pc[p] = "run" /\ execs[p] = 0
    /\ Return(p) /\ LeaveLock(p)

\* Slip: the lock is not given back.
DoneForgets(p) ==
    /\ pc[p] = "run" /\ execs[p] = 0
    /\ Return(p) /\ UNCHANGED <<nlocked, holder>>

\* The action's procedure returns and the scope is closed.
Done(p) ==
    /\ pc[p] = "run" /\ execs[p] = 0
    /\ Return(p)
    /\ IF locked[p] THEN LeaveLock(p) ELSE UNCHANGED <<nlocked, holder>>

\* A process that was given one command ends with it, a prompted one when
\* its user says so, and any of them when it is killed.
Quit(p) == pc[p] \in {"prompt", "ended"} /\ Exit(p)

Kill(p) == pc[p] \notin {"off", "prompt", "ended"} /\ Exit(p)

-----------------------------------------------------------------------------
(* the action's procedure, and mportexec *)

\* Whether the process reads and changes the registry here: an action that
\* does, or the dependencies inside mportexec's scope.
Changes(p) ==
    /\ pc[p] = "run" /\ p \in Writers
    /\ execs[p] > 0 \/ ActionOf(p) \in Changing

Decide(p) ==
    /\ Changes(p) /\ based[p] = "nothing"
    /\ based' = [based EXCEPT ![p] = "current"]
    /\ UNCHANGED <<pc, word, locked, execs, left, nlocked, lockfd, holder>>

Change(p) ==
    /\ Changes(p) /\ based[p] # "nothing"
    /\ based' = [q \in Procs |-> IF q # p /\ based[q] # "nothing"
                                 THEN "stale" ELSE based[q]]
    /\ UNCHANGED <<pc, word, locked, execs, left, nlocked, lockfd, holder>>

\* mportexec of a port with dependencies; nested, of one to be upgraded.
ExecBegin(p) ==
    /\ pc[p] = "run" /\ ActionOf(p) \in Executing /\ left[p] > 0
    /\ left' = [left EXCEPT ![p] = @ - 1]
    /\ Enter(p, execs[p] + 1)
    /\ UNCHANGED <<word, locked, based>>

\* What was read inside the outermost scope is not used after it.
ExecReturn(p) ==
    /\ pc[p] = "run" /\ execs[p] > 0
    /\ execs' = [execs EXCEPT ![p] = @ - 1]
    /\ based' = IF execs[p] = 1 /\ ~locked[p]
                THEN [based EXCEPT ![p] = "nothing"] ELSE based
    /\ UNCHANGED <<pc, word, locked, left, lockfd>>

\* The dependencies have been evaluated.
ExecEnd(p) == ExecReturn(p) /\ LeaveLock(p)

\* mportdepends fails, or an upgrade raises an error: no exclusive_unlock.
ExecFail(p) ==
    p \in Erring /\ ExecReturn(p) /\ UNCHANGED <<nlocked, holder>>

-----------------------------------------------------------------------------
Finish(p) == ExecEnd(p) \/ ExecFail(p) \/ Done(p)

Next == \E p \in Procs :
    \/ Start(p) \/ Quit(p) \/ Kill(p)
    \/ \E w \in Words : Type(p, w)
    \/ Try(p) \/ Acquire(p) \/ Interrupted(p)
    \/ Find(p) \/ Break(p)
    \/ Decide(p) \/ Change(p) \/ ExecBegin(p) \/ Finish(p)

Spec == Init /\ [][Next]_vars

\* A process that can go on does; a process that has run its one command
\* ends; a released lock is not withheld for ever from one of those who wait
\* for it. A user at a prompt need never type anything.
Fairness == \A p \in Procs :
    /\ WF_vars(Try(p)) /\ SF_vars(Acquire(p))
    /\ WF_vars(Find(p) \/ Break(p)) /\ WF_vars(Finish(p))
    /\ p \notin Prompted => WF_vars(Quit(p))

FairSpec == Spec /\ Fairness

-----------------------------------------------------------------------------
\* A process that has been through exclusive_lock and not yet through the
\* exclusive_unlock of that scope.
Inside(p) == nlocked[p] > 0 /\ pc[p] \notin {"trying", "waiting"}

\* Scopes of the lock that process_cmd and mportexec have open.
Scopes(p) ==
    IF pc[p] \in {"find", "run"} THEN execs[p] + (IF locked[p] THEN 1 ELSE 0) ELSE 0

\* At most one of the processes that may write to the registry is inside the
\* lock ("acquire exclusive lock on registry", registry.tcl).
MutualExclusion ==
    \A p, q \in Writers : Inside(p) /\ Inside(q) => p = q

\* The operating system's lock is held for as long as any scope is open: the
\* end of an inner scope, or a failure in it, does not let others in while
\* the outer one still relies on it.
ScopesHeld == \A p \in Writers : Scopes(p) > 0 => holder = p

\* What a process has read to decide on a change has not been changed by
\* another process since: the lock is taken before "reading any info which
\* will affect a decision on what to modify" (registry.tcl).
DecisionsCurrent == \A p \in Procs : based[p] # "stale"

\* A process that is waiting for its next command leaves the registry to
\* others: the lock is released "when done writing to it" (registry.tcl) and
\* after every action (process_cmd, "unlock if needed").
PromptHoldsNothing == \A p \in Procs : pc[p] = "prompt" => holder # p

\* Who waits for the lock gets it, or is ended.
WaitersServed == \A p \in Procs : pc[p] = "waiting" ~> pc[p] # "waiting"

\* The lock in a process: no inner scope gives it up, and it covers all a
\* decision rests on (process_cmd, mportexec).
LockKept == TypeOK /\ ScopesHeld /\ DecisionsCurrent
=============================================================================
