----------------------------- MODULE TargetState -----------------------------
(***************************************************************************)
(* The state file of a build (src/port1.0/portutil.tcl): check_variants,   *)
(* eval_targets, target_run and open_statefile, as processes run them on   *)
(* one port.                                                               *)
(*                                                                         *)
(* The state file lies in the work directory and names the targets that    *)
(* were completed there, the variants they were completed with and the     *)
(* checksum of the Portfile. Every check of the variants and every target  *)
(* opens it anew: it is looked at first, the work directory is deleted if  *)
(* the Portfile has changed, and only then is the file locked. A lock      *)
(* belongs to the file and not to its path, so files are numbered. An edit  *)
(* is taken to be later by a second than what was written before it.       *)
(*                                                                         *)
(* The targets stand in the order dlist_eval runs them (DepList). Left out *)
(* are -f, -o and -y, which skip the checks, and the other work paths.     *)
(***************************************************************************)
EXTENDS Naturals, FiniteSets

CONSTANTS
    Procs,      \* processes that build the port
    Last,       \* number of targets
    Selections, \* sets of variants that are asked for
    Existing,   \* what there may be of an earlier build
    Supports,   \* whether the file system supports flock: a set of Booleans
    Concurrent, \* processes run at the same time
    MidCommand, \* the user edits and cleans while a process runs
    AutoClean,  \* a process that has completed every target may clean
    MaxStarts, MaxEdits, MaxCleans, MaxDeaths, MaxFiles, None

TargetStateAssumption ==
    /\ {Last, MaxStarts, MaxEdits, MaxCleans, MaxDeaths, MaxFiles} \subseteq Nat /\ MaxFiles > 0
    /\ {Concurrent, MidCommand, AutoClean} \subseteq BOOLEAN
    /\ Supports \subseteq BOOLEAN
    /\ Existing \subseteq {"none", "current", "outdated", "unversioned"}
    /\ None \notin Procs

VARIABLES
    portfile, \* the Portfile, by the number of its edits
    dir,      \* the work directory exists
    tree,     \* what was completed in it: [t |-> target, pf |-> Portfile, vars |-> variants]
    path,     \* the state file, 0 when there is none
    file,     \* what each file holds
    holder,   \* who has flocked it
    proc,     \* the processes
    flocks,   \* flock is supported
    bounds    \* what is left of MaxStarts, MaxCleans, MaxDeaths and MaxFiles

work == <<dir, tree, path>>
vars == <<portfile, work, file, holder, proc, flocks, bounds>>

Targets == 1..Last
Files == 1..MaxFiles
Portfiles == 1..(MaxEdits + 1)
Variants == UNION Selections

\* old: last written before the Portfile was. A sum of 0 is none.
Contents == [version : BOOLEAN, sum : {0} \cup Portfiles, vars : SUBSET Variants,
             done : SUBSET Targets, old : BOOLEAN]
Empty == [version |-> FALSE, sum |-> 0, vars |-> {}, done |-> {}, old |-> FALSE]

Idle == [pc |-> "idle", task |-> 0, parsed |-> 1, sel |-> {}, sum |-> 1,
         fresh |-> FALSE, fd |-> 0]

TypeOK ==
    /\ portfile \in Portfiles /\ dir \in BOOLEAN /\ flocks \in Supports
    /\ tree \subseteq [t : Targets, pf : Portfiles, vars : Selections]
    /\ path \in {0} \cup Files
    /\ file \in [Files -> Contents]
    /\ holder \in [Files -> Procs \cup {None}]
    /\ proc \in [Procs -> [
            pc : {"idle", "open", "look", "discard", "create", "lock", "version",
                  "sum", "locked", "running", "record", "completed"},
            task : 0..Last, parsed : Portfiles, sel : SUBSET Variants, sum : Portfiles,
            fresh : BOOLEAN, fd : {0} \cup Files]]
    /\ bounds \in [starts : 0..MaxStarts, cleans : 0..MaxCleans,
                   deaths : 0..MaxDeaths, files : 0..MaxFiles]

\* An earlier build has completed the first n targets.
Earlier(kind, n, sel) ==
    [Empty EXCEPT !.version = kind # "unversioned",
                  !.sum = IF kind = "current" THEN portfile
                          ELSE IF kind = "outdated" THEN 1 ELSE 0,
                  !.vars = sel, !.done = 1..n, !.old = kind = "outdated"]

Init ==
    /\ flocks \in Supports
    /\ proc = [p \in Procs |-> Idle]
    /\ holder = [f \in Files |-> None]
    /\ bounds = [starts |-> MaxStarts, cleans |-> MaxCleans,
                  deaths |-> MaxDeaths, files |-> MaxFiles - 1]
    /\ \E kind \in Existing, n \in 0..Last, sel \in Selections :
        /\ portfile \in (IF kind = "outdated" THEN {2} ELSE {1})
        /\ dir = (kind # "none")
        /\ path = IF kind = "none" THEN 0 ELSE 1
        /\ file = [f \in Files |->
                IF f = 1 /\ kind # "none" THEN Earlier(kind, n, sel) ELSE Empty]
        /\ tree = IF kind = "none" THEN {}
                  ELSE {[t |-> t, pf |-> 1, vars |-> sel] : t \in 1..n}

-----------------------------------------------------------------------------
At(p, pc) == proc[p].pc = pc
Alone(p) == \A q \in Procs \ {p} : At(q, "idle")

GoTo(p, pc) == proc' = [proc EXCEPT ![p].pc = pc]

\* A line is appended to the file p has open.
Write(p, c) == file' = [file EXCEPT ![proc[p].fd] = [c EXCEPT !.old = FALSE]]
File(p) == file[proc[p].fd]

\* Slip: the file is not closed.
LockKept(p) == UNCHANGED holder

\* What becomes of the descriptors and locks of p when it closes the file.
Unlock(p) == holder' = [f \in Files |-> IF holder[f] = p THEN None ELSE holder[f]]

End(p) == proc' = [proc EXCEPT ![p] = Idle] /\ Unlock(p)

\* Slip: the last target is not told from the others.
OneMore(p) ==
    /\ proc' = [proc EXCEPT ![p].pc = "open", ![p].task = @ + 1, ![p].fd = 0]
    /\ Unlock(p)

\* The next target, each with a file of its own.
NextTask(p) ==
    /\ proc' = [proc EXCEPT ![p].pc = IF proc[p].task = Last THEN "completed" ELSE "open",
                            ![p].task = IF proc[p].task = Last THEN Last ELSE @ + 1,
                            ![p].fd = 0]
    /\ Unlock(p)

\* delete $workpath
DeleteWork == tree' = {} /\ path' = 0

\* mportopen reads the Portfile.
Start(p) ==
    /\ At(p, "idle") /\ bounds.starts > 0 /\ (Concurrent \/ Alone(p))
    /\ \E sel \in Selections :
        proc' = [proc EXCEPT ![p] = [Idle EXCEPT !.pc = "open", !.parsed = portfile,
                                                 !.sel = sel]]
    /\ bounds' = [bounds EXCEPT !.starts = @ - 1]
    /\ UNCHANGED <<portfile, work, file, holder, flocks>>

-----------------------------------------------------------------------------
(* open_statefile *)

\* The work directory is made, and the checksum taken of the Portfile as it is.
Prepare(p) ==
    /\ At(p, "open")
    /\ dir' = TRUE
    /\ proc' = [proc EXCEPT ![p].pc = "look", ![p].sum = portfile]
    /\ UNCHANGED <<portfile, tree, path, file, holder, flocks, bounds>>

\* Slip: a file without a version is never outdated.
ByChecksum(c, sum) == c.version /\ c.sum # sum

\* Version 2 is judged by its checksum, a file without a version by its age.
Outdated(c, sum) == IF c.version THEN c.sum # sum ELSE c.old

Look(p) ==
    /\ At(p, "look")
    /\ LET stale == path # 0 /\ Outdated(file[path], proc[p].sum) IN
       proc' = [proc EXCEPT ![p].pc = IF stale THEN "discard" ELSE "create",
                            ![p].fresh = stale \/ path = 0]
    /\ UNCHANGED <<portfile, work, file, holder, flocks, bounds>>

\* Slip: the state is kept though the Portfile has changed.
NotDiscarded(p) ==
    /\ At(p, "discard")
    /\ GoTo(p, "create")
    /\ UNCHANGED <<portfile, work, file, holder, flocks, bounds>>

Discard(p) ==
    /\ At(p, "discard")
    /\ DeleteWork /\ dir' = TRUE
    /\ GoTo(p, "create")
    /\ UNCHANGED <<portfile, file, holder, flocks, bounds>>

\* open $statefile a+
Create(p) ==
    /\ At(p, "create")
    /\ \/ /\ path # 0
          /\ proc' = [proc EXCEPT ![p].pc = "lock", ![p].fd = path]
          /\ UNCHANGED <<path, file, bounds, holder>>
       \/ /\ path = 0 /\ dir /\ bounds.files > 0
          /\ path' = MaxFiles + 1 - bounds.files
          /\ file' = [file EXCEPT ![path'] = Empty]
          /\ bounds' = [bounds EXCEPT !.files = @ - 1]
          /\ proc' = [proc EXCEPT ![p].pc = "lock", ![p].fd = path']
          /\ UNCHANGED holder
       \/ /\ ~dir
          /\ End(p)
          /\ UNCHANGED <<path, file, bounds>>
    /\ UNCHANGED <<portfile, dir, tree, flocks>>

\* Slip: EAGAIN is taken for success.
NoWait(p) ==
    /\ At(p, "lock")
    /\ holder' = [holder EXCEPT ![proc[p].fd] = IF flocks THEN p ELSE @]
    /\ GoTo(p, IF flocks /\ proc[p].fresh THEN "version" ELSE "locked")
    /\ UNCHANGED <<portfile, work, file, flocks, bounds>>

\* Without flock the file is used as it is, and a new one gets no header.
Lock(p) ==
    /\ At(p, "lock")
    /\ IF flocks
       THEN /\ holder[proc[p].fd] = None
            /\ holder' = [holder EXCEPT ![proc[p].fd] = p]
            /\ GoTo(p, IF proc[p].fresh THEN "version" ELSE "locked")
       ELSE GoTo(p, "locked") /\ UNCHANGED holder
    /\ UNCHANGED <<portfile, work, file, flocks, bounds>>

WriteVersion(p) ==
    /\ At(p, "version")
    /\ IF File(p).version THEN UNCHANGED file
       ELSE Write(p, [File(p) EXCEPT !.version = TRUE])
    /\ GoTo(p, "sum")
    /\ UNCHANGED <<portfile, work, holder, flocks, bounds>>

\* The first checksum in the file is the one that is read.
WriteSum(p) ==
    /\ At(p, "sum")
    /\ IF File(p).sum = proc[p].sum THEN UNCHANGED file
       ELSE Write(p, [File(p) EXCEPT !.sum = IF @ = 0 THEN proc[p].sum ELSE @])
    /\ GoTo(p, "locked")
    /\ UNCHANGED <<portfile, work, holder, flocks, bounds>>

-----------------------------------------------------------------------------
(* check_variants, target_run and the end of mportexec *)

\* check_statefile_variants: a file with neither variants nor targets agrees
\* with every selection.
Agrees(p) ==
    \/ File(p).vars = {} /\ File(p).done = {}
    \/ File(p).vars = proc[p].sel

CheckVariants(p) ==
    /\ At(p, "locked") /\ proc[p].task = 0
    /\ \/ Agrees(p) /\ NextTask(p)
          /\ IF proc[p].sel \subseteq File(p).vars THEN UNCHANGED file
             ELSE Write(p, [File(p) EXCEPT !.vars = @ \cup proc[p].sel])
       \/ ~Agrees(p) /\ End(p) /\ UNCHANGED file
    /\ UNCHANGED <<portfile, work, flocks, bounds>>

\* check_statefile: completed already.
Skip(p) ==
    /\ At(p, "locked") /\ proc[p].task \in File(p).done
    /\ NextTask(p)
    /\ UNCHANGED <<portfile, work, file, flocks, bounds>>

Run(p) ==
    /\ At(p, "locked") /\ proc[p].task \in Targets \ File(p).done
    /\ GoTo(p, "running")
    /\ UNCHANGED <<portfile, work, file, holder, flocks, bounds>>

\* The procedures of the target succeed in what the work directory is by then.
Complete(p) ==
    /\ At(p, "running") /\ dir
    /\ tree' = tree \cup {[t |-> proc[p].task, pf |-> proc[p].parsed, vars |-> proc[p].sel]}
    /\ GoTo(p, "record")
    /\ UNCHANGED <<portfile, dir, path, file, holder, flocks, bounds>>

\* Slip: the result of a procedure is not looked at.
Recorded(p) ==
    /\ At(p, "running")
    /\ GoTo(p, "record")
    /\ UNCHANGED <<portfile, work, file, holder, flocks, bounds>>

\* Slip: a target that fails does not end the list.
GoesOn(p) ==
    /\ At(p, "running")
    /\ NextTask(p)
    /\ UNCHANGED <<portfile, work, file, flocks, bounds>>

Fail(p) ==
    /\ At(p, "running")
    /\ End(p)
    /\ UNCHANGED <<portfile, work, file, flocks, bounds>>

\* write_statefile target
Record(p) ==
    /\ At(p, "record")
    /\ Write(p, [File(p) EXCEPT !.done = @ \cup {proc[p].task}])
    /\ NextTask(p)
    /\ UNCHANGED <<portfile, work, flocks, bounds>>

\* mportexec may clean after an install.
Finish(p) ==
    /\ At(p, "completed")
    /\ End(p)
    /\ \/ AutoClean /\ DeleteWork /\ dir' = FALSE
       \/ UNCHANGED work
    /\ UNCHANGED <<portfile, file, flocks, bounds>>

-----------------------------------------------------------------------------
(* the user *)

Undisturbed == MidCommand \/ \A p \in Procs : At(p, "idle")

Edit ==
    /\ Undisturbed /\ portfile <= MaxEdits
    /\ portfile' = portfile + 1
    /\ file' = [f \in Files |-> [file[f] EXCEPT !.old = TRUE]]
    /\ UNCHANGED <<work, holder, proc, flocks, bounds>>

\* port clean: the target has no state, so it does not open the file.
Clean ==
    /\ Undisturbed /\ dir /\ bounds.cleans > 0
    /\ DeleteWork /\ dir' = FALSE
    /\ bounds' = [bounds EXCEPT !.cleans = @ - 1]
    /\ UNCHANGED <<portfile, file, holder, proc, flocks>>

Die(p) ==
    /\ ~At(p, "idle") /\ bounds.deaths > 0
    /\ bounds' = [bounds EXCEPT !.deaths = @ - 1]
    /\ End(p)
    /\ UNCHANGED <<portfile, work, file, flocks>>

OpenStatefile(p) ==
    \/ Prepare(p) \/ Look(p) \/ Discard(p) \/ Create(p)
    \/ Lock(p) \/ WriteVersion(p) \/ WriteSum(p)

RunTarget(p) ==
    \/ CheckVariants(p) \/ Skip(p) \/ Run(p)
    \/ Complete(p) \/ Fail(p) \/ Record(p) \/ Finish(p)

Next ==
    \/ \E p \in Procs : Start(p) \/ OpenStatefile(p) \/ RunTarget(p) \/ Die(p)
    \/ Edit \/ Clean

Spec == Init /\ [][Next]_vars

\* A process goes on, and one that waits for the lock of a file gets it if it
\* is free again and again. Every target ends.
FairSpec ==
    /\ Spec
    /\ \A p \in Procs : WF_vars(OpenStatefile(p)) /\ WF_vars(RunTarget(p)) /\ SF_vars(Lock(p))
-----------------------------------------------------------------------------
\* No two processes run a target in the work directory at the same time
\* ("Waiting for lock on $statefile", open_statefile).
Exclusive ==
    \A p, q \in Procs : At(p, "running") /\ At(q, "running") => p = q

\* A target runs on what the targets before it have left in the directory
\* ("check if the step was already done (as mentioned in the state file)",
\* target_run).
RunsOnCompleted ==
    \A p \in Procs : At(p, "running") =>
        \A t \in 1..(proc[p].task - 1) : \E x \in tree : x.t = t

\* The targets the state file names were completed in its directory, with the
\* Portfile whose checksum it has (write_statefile, open_statefile).
DoneMeansBuilt ==
    path # 0 => \A t \in file[path].done : \E x \in tree :
        x.t = t /\ file[path].sum \in {0, x.pf}

\* What lies in the work directory comes from one Portfile and one selection of
\* variants ("Make sure the variations match those stored in the statefile",
\* check_variants).
NoMixing == \A x, y \in tree : x.pf = y.pf /\ x.vars = y.vars

\* A process that has started ends, though it has to wait for others.
ProcessesEnd == \A p \in Procs : ~At(p, "idle") ~> At(p, "idle")
=============================================================================
