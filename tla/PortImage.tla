------------------------------ MODULE PortImage ------------------------------
(***************************************************************************)
(* Activating, deactivating, installing and uninstalling port images: the  *)
(* procedures activate and deactivate of src/registry2.0/portimage.tcl,    *)
(* uninstall of src/registry2.0/portuninstall.tcl and the end of           *)
(* install_main of src/port1.0/portinstall.tcl, on the three stores they   *)
(* change: the registry, the archives of the images, the file system.      *)
(*                                                                         *)
(* One MacPorts process runs one command at a time (RegistryLock is about  *)
(* several processes).  The Tcl call stack is explicit, because activation *)
(* deactivates other ports, and its error handler activates them again.    *)
(* Between any two steps the process may die, and every step that touches  *)
(* a file may fail.  Left out: directories, file attributes, the contents  *)
(* of files, and the check for dependents, which can only refuse a command *)
(* before it does anything.                                                *)
(***************************************************************************)
EXTENDS Naturals, Sequences, FiniteSets

CONSTANTS
    Entries,        \* the registry entries: one for each version of each port
    Names,          \* the names of ports
    Files,          \* the paths that images contain
    Port,           \* entry -> its name
    Contents,       \* entry -> the files of its image (imagefiles)
    ReplacedBy,     \* <<n, m>>: the port index has n replaced_by m
    Forcing,        \* whether commands are given -f: a subset of BOOLEAN
    Interactive,    \* several commands may be given to one process
    SecondsPass,    \* no two activations get the same [clock seconds]
    UserMidCommand, \* the user may make a file while a command runs
    MaxStamp,       \* bound on the number of distinct backup suffixes
    MaxUser,        \* bound on the files the user makes at one path
    MaxFails,       \* bound on the number of failing steps
    MaxCrashes      \* bound on the number of deaths of the process

ASSUME PortImageAssumption ==
    /\ Port \in [Entries -> Names]
    /\ Contents \in [Entries -> SUBSET Files]
    /\ ReplacedBy \subseteq Names \X Names
    /\ "none" \notin Entries /\ "user" \notin Entries
    /\ Forcing \subseteq BOOLEAN
    /\ {Interactive, SecondsPass, UserMidCommand} \subseteq BOOLEAN
    /\ {MaxStamp, MaxUser, MaxFails, MaxCrashes} \subseteq Nat

\* A path and the backups of it: <<f, 0>> is the path f itself and <<f, s>> is
\* f with the suffix .mp_s, where s is the time of the activation.
Paths == Files \X (0..MaxStamp)

VARIABLES
    state,      \* registry: the state of every entry
    active,     \* registry: the active rows of the files table, as this
                \*   connection sees them: <<entry, file, stamp>>, where
                \*   <<file, stamp>> is the row's actual_path
    committed,  \* registry: the same rows without the open transaction
    archive,    \* the entries whose archive is on disk
    fs,         \* what is at every path: "none", a file of the user's, or a
                \*   file that came out of an entry's image
    force,      \* portimage::force, which keeps its value between commands
    stack,      \* the procedures being run, the innermost first
    clock,      \* the time, in seconds
    made,       \* history: how many files the user has made at each path
    budget,     \* how many failures and deaths may still come
    clean       \* history: nothing has happened that cannot be undone

registry == <<state, active, committed>>
environment == <<clock, made, budget, clean>>
vars == <<state, active, committed, archive, fs, force, stack, clock, made,
          budget, clean>>

Ops == {"activate", "deactivate", "install", "uninstall"}
Pcs == {"start", "others", "extract", "claim", "replaced", "link", "move",
        "mark", "unmove", "restore", "react", "unlink", "remove", "unmark",
        "image", "entry", "record", "ok", "fail"}

Frames ==
    [op : Ops, ent : Entries,
     via : {"user", "target", "direct", "name"},    \* how it was called
     forced : BOOLEAN,                              \* the user said -f
     pc : Pcs,
     todo : SUBSET Paths,           \* what the loop over files has still to do
     calls : SUBSET Entries,        \* the entries still to be (de)activated
     victims : SUBSET Entries,      \* todeactivate of _activate_contents
     backups : SUBSET Files,        \* backups of _activate_contents
     moved : SUBSET Files,          \* rollback_filelist of _activate_contents
     stamp : 0..MaxStamp]           \* the time in baksuffix

TypeOK ==
    /\ state \in [Entries -> {"absent", "imaged", "installed"}]
    /\ active \in SUBSET (Entries \X Files \X (0..MaxStamp))
    /\ committed \in SUBSET (Entries \X Files \X (0..MaxStamp))
    /\ archive \in SUBSET Entries
    /\ fs \in [Paths -> {"none", "user"} \cup Entries]
    /\ force \in BOOLEAN
    /\ stack \in Seq(Frames)
    /\ clock \in 1..(MaxStamp + 1)
    /\ made \in [Files -> Nat]
    /\ budget \in [fails : Nat, crashes : Nat]
    /\ clean \in BOOLEAN

\* Every image has been installed, none has been activated, and the user may
\* have files of his own.
Init ==
    /\ state = [e \in Entries |-> "imaged"]
    /\ active = {}
    /\ committed = {}
    /\ archive = Entries
    /\ made \in [Files -> {n \in {0, 1} : n <= MaxUser}]
    /\ fs = [p \in Paths |-> IF p[2] = 0 /\ made[p[1]] = 1 THEN "user" ELSE "none"]
    /\ force = FALSE
    /\ stack = <<>>
    /\ clock = 1
    /\ budget = [fails |-> MaxFails, crashes |-> MaxCrashes]
    /\ clean = TRUE
-----------------------------------------------------------------------------
\* registry::entry owner: the entry that has an active row for the path.
Owner(p) == {e \in Entries : <<e, p[1], p[2]>> \in active}

\* Slip: the SELECT before the UPDATE of reg_entry_activate is forgotten.
TakenUnseen(paths) == paths = {}

\* reg_entry_activate refuses to make a row active at such paths.
Taken(paths) == \E p \in paths : Owner(p) # {}

\* registry::entry installed: the entries of a name whose state is installed.
Installed(n) == {e \in Entries : Port[e] = n /\ state[e] = "installed"}

RowsOf(e) == {r \in active : r[1] = e}
Image(e) == {<<f, 0>> : f \in Contents[e]}
Exists(p) == fs[p] # "none"

Idle == stack = <<>>
Top == Head(stack)
At(op, pc) == ~Idle /\ Top.op = op /\ Top.pc = pc

\* The running procedure goes on as the frame f; the frame f is called.
Continue(f) == stack' = <<f>> \o Tail(stack)
Goto(pc) == Continue([Top EXCEPT !.pc = pc])
Push(f, caller) == stack' = <<f, caller>> \o Tail(stack)

Call(op, e, via) ==
    [op |-> op, ent |-> e, via |-> via, forced |-> FALSE, pc |-> "start",
     todo |-> {}, calls |-> {}, victims |-> {}, backups |-> {}, moved |-> {},
     stamp |-> 0]

\* A step that fails although nothing in the model is against it: a full disk,
\* a file that cannot be removed, an error from the database.
Spend ==
    /\ budget.fails > 0
    /\ budget' = [budget EXCEPT !.fails = @ - 1]

Commit == committed' = active
\* Slip: the transaction in which an error was thrown is committed.
RollbackCommits == committed' = active /\ UNCHANGED active

Rollback == active' = committed /\ UNCHANGED committed
-----------------------------------------------------------------------------
(* The environment. *)

\* A port command.  activate sets portimage::force and nothing resets it; a
\* process that is given one command starts with it unset.  (To the other
\* commands -f makes a difference only in the check for dependents.)
Command(op, e, forced) ==
    /\ Idle
    /\ Interactive \/ ~force
    /\ forced => op = "activate"
    /\ op = "activate" /\ (force \/ forced) => clock <= MaxStamp
    /\ stack' = <<[Call(op, e, "user") EXCEPT !.forced = forced]>>
    /\ force' = (force \/ forced)
    /\ UNCHANGED <<registry, archive, fs, environment>>

\* The process that held portimage::force ends, and another is started.
NewProcess ==
    /\ Idle
    /\ force
    /\ force' = FALSE
    /\ UNCHANGED <<registry, archive, fs, stack, environment>>

\* The user makes a file at a path that no port has.
UserMakes(f) ==
    /\ Idle \/ UserMidCommand
    /\ made[f] < MaxUser
    /\ ~Exists(<<f, 0>>)
    /\ \A e \in Entries : <<e, f, 0>> \notin committed
    /\ made' = [made EXCEPT ![f] = @ + 1]
    /\ fs' = [fs EXCEPT ![<<f, 0>>] = "user"]
    /\ UNCHANGED <<registry, archive, force, stack, clock, budget, clean>>

\* The process dies; SQLite drops its transaction.
Crash ==
    /\ ~Idle
    /\ budget.crashes > 0
    /\ budget' = [budget EXCEPT !.crashes = @ - 1]
    /\ Rollback
    /\ stack' = <<>>
    /\ force' = FALSE
    /\ clean' = FALSE
    /\ UNCHANGED <<state, archive, fs, clock, made>>
-----------------------------------------------------------------------------
(* Calling and returning. *)

\* Where the caller goes on when a procedure it called has failed: the calls
\* for ports that are replaced are inside its try, the others are not.
Handler(pc) == IF pc = "replaced" THEN "restore" ELSE "fail"

\* run_target counts a target that failed as run if the state is as it wanted.
AsWanted(f) ==
    state[f.ent] = IF f.op = "activate" THEN "installed" ELSE "imaged"

\* The innermost procedure returns.  A target that failed is followed by a
\* direct call: for a replaced port, with its name and no version.
Return ==
    /\ ~Idle
    /\ Top.pc \in {"ok", "fail"}
    /\ IF Len(stack) = 1 \/ Top.pc = "ok" \/ (Top.via = "target" /\ AsWanted(Top))
       THEN stack' = Tail(stack)
       ELSE LET caller == stack[2] IN
            IF Top.via = "target"
            THEN Continue(Call(Top.op, Top.ent,
                               IF caller.pc = "replaced" THEN "name" ELSE "direct"))
            ELSE stack' = <<[caller EXCEPT !.pc = Handler(@)]>> \o Tail(Tail(stack))
    /\ UNCHANGED <<registry, archive, fs, force, environment>>
-----------------------------------------------------------------------------
(* activate. *)

\* The checks inside registry::read, and the other active versions.
ActivateStart ==
    /\ At("activate", "start")
    /\ LET e == Top.ent IN
       IF state[e] = "imaged" /\ e \in archive
       THEN Continue([Top EXCEPT !.pc = "others",
                                 !.calls = Installed(Port[e]) \ {e}])
       ELSE Goto("fail")
    /\ UNCHANGED <<registry, archive, fs, force, environment>>

\* The next of the ports to deactivate: other versions of this port, later the
\* ports this one replaces.  run_target may be out of the question, because of
\* no-exec or because no portfile was stored.
CallDeactivate(o) ==
    /\ At("activate", "others") \/ At("activate", "replaced")
    /\ o \in Top.calls
    /\ \E via \in {"target", IF Top.pc = "replaced" THEN "name" ELSE "direct"} :
          Push(Call("deactivate", o, via), [Top EXCEPT !.calls = @ \ {o}])
    /\ UNCHANGED <<registry, archive, fs, force, environment>>

\* Slip: the other versions of the port are left active.
OthersSkipped ==
    /\ At("activate", "others")
    /\ Goto("extract")
    /\ UNCHANGED <<registry, archive, fs, force, environment>>

OthersDone ==
    /\ At("activate", "others")
    /\ Top.calls = {}
    /\ Goto("extract")
    /\ UNCHANGED <<registry, archive, fs, force, environment>>

\* _activate_contents: the suffix for backups is chosen, the archive is
\* extracted, and the first transaction begins.  The time matters only to an
\* activation that is forced.
Extract ==
    /\ At("activate", "extract")
    /\ force => clock <= MaxStamp
    /\ Continue([Top EXCEPT !.pc = "claim", !.todo = Image(Top.ent),
                            !.stamp = IF force THEN clock ELSE 0])
    /\ clock' \in IF ~force THEN {clock}
                  ELSE IF SecondsPass THEN {clock + 1} ELSE {clock, clock + 1}
    /\ UNCHANGED <<registry, archive, fs, force, made, budget, clean>>

\* The archive cannot be extracted.  (With no suffix left, none is tried.)
ExtractFails ==
    /\ At("activate", "extract")
    /\ IF force /\ clock > MaxStamp THEN UNCHANGED budget ELSE Spend
    /\ Goto("fail")
    /\ UNCHANGED <<registry, archive, fs, force, clock, made, clean>>

\* An owner of the path that gives way, because the port replaces it.
Replaced(p) ==
    {o \in Owner(p) \ {Top.ent} : <<Port[o], Port[Top.ent]>> \in ReplacedBy}

Claimed(p) == [Top EXCEPT !.todo = @ \ {p}]

\* The file's owner will be deactivated before this port's files are moved in.
ClaimReplaced(p) ==
    /\ At("activate", "claim")
    /\ p \in Top.todo
    /\ Replaced(p) # {}
    /\ Continue([Claimed(p) EXCEPT !.victims = @ \cup Replaced(p)])
    /\ UNCHANGED <<registry, archive, fs, force, environment>>

\* Nothing is at the path, or it is this port's own.
ClaimFree(p) ==
    /\ At("activate", "claim")
    /\ p \in Top.todo
    /\ ~force
    /\ Owner(p) = {Top.ent} \/ (Owner(p) = {} /\ ~Exists(p))
    /\ Continue(Claimed(p))
    /\ UNCHANGED <<registry, archive, fs, force, environment>>

\* Without force, a file in the way ends the activation.
ClaimRefused(p) ==
    /\ At("activate", "claim")
    /\ p \in Top.todo
    /\ ~force
    /\ Replaced(p) = {}
    /\ Owner(p) \ {Top.ent} # {} \/ (Owner(p) = {} /\ Exists(p))
    /\ Rollback
    /\ Goto("restore")
    /\ UNCHANGED <<state, archive, fs, force, environment>>

\* Slip: the file in the way is deleted, not renamed.
BackUpDeletes(p, bak) ==
    fs' = [fs EXCEPT ![p] = "none"]

\* Slip: the owner's row is made inactive, and not active again as the backup.
RowsDropped(p, bak) ==
    active \ {<<o, p[1], p[2]>> : o \in Owner(p)}

\* Slip: only the rows of other entries are moved.
RowsOfOthersMoved(p, bak) ==
    LET others == Owner(p) \ {Top.ent} IN
    (active \ {<<o, p[1], p[2]>> : o \in others})
        \cup {<<o, bak[1], bak[2]>> : o \in others}

\* The backup of a file, a rename that overwrites, and of its owner's row.
BackUp(p, bak) ==
    fs' = IF Exists(p) THEN [fs EXCEPT ![bak] = fs[p], ![p] = "none"] ELSE fs

RowsMoved(p, bak) ==
    (active \ {<<o, p[1], p[2]>> : o \in Owner(p)})
        \cup {<<o, bak[1], bak[2]>> : o \in Owner(p)}

\* With force, a file in the way is moved to the backup path, on disk and, if
\* it has an owner, in the registry, which may find the backup path taken.
ClaimForced(p) ==
    /\ At("activate", "claim")
    /\ p \in Top.todo
    /\ force
    /\ Replaced(p) = {}
    /\ LET bak == <<p[1], Top.stamp>>
           after == [Claimed(p) EXCEPT
                       !.backups = IF Exists(p) THEN @ \cup {p[1]} ELSE @]
       IN /\ BackUp(p, bak)
          /\ IF Owner(p) # {} /\ Taken({bak})
             THEN Rollback /\ Continue([after EXCEPT !.pc = "restore"])
             ELSE /\ active' = RowsMoved(p, bak)
                  /\ UNCHANGED committed
                  /\ Continue(after)
    /\ UNCHANGED <<state, archive, force, environment>>

\* A file is missing from the archive, or cannot be moved to its backup.
ClaimFails ==
    /\ At("activate", "claim")
    /\ Top.todo # {}
    /\ Spend
    /\ Rollback
    /\ Goto("restore")
    /\ UNCHANGED <<state, archive, fs, force, clock, made, clean>>

\* The first transaction commits.
ClaimDone ==
    /\ At("activate", "claim")
    /\ Top.todo = {}
    /\ Commit
    /\ Continue([Top EXCEPT !.pc = "replaced", !.calls = Top.victims])
    /\ UNCHANGED <<state, active, archive, fs, force, environment>>

ReplacedDone ==
    /\ At("activate", "replaced")
    /\ Top.calls = {}
    /\ Goto("link")
    /\ UNCHANGED <<registry, archive, fs, force, environment>>

\* The second transaction: reg_entry_activate makes the rows of all the files
\* active, unless one of the paths is in use, by this entry or another.
Link ==
    /\ At("activate", "link")
    /\ LET e == Top.ent IN
       IF Taken(Image(e))
       THEN Rollback /\ Goto("unmove")
       ELSE /\ active' = (active \ RowsOf(e)) \cup {<<e, f, 0>> : f \in Contents[e]}
            /\ UNCHANGED committed
            /\ Continue([Top EXCEPT !.pc = "move", !.todo = Image(e)])
    /\ UNCHANGED <<state, archive, fs, force, environment>>

\* Slip: the rename into place overwrites.
MoveOver(p) ==
    /\ At("activate", "move")
    /\ p \in Top.todo
    /\ fs' = [fs EXCEPT ![p] = Top.ent]
    /\ Continue([Claimed(p) EXCEPT !.moved = @ \cup {p[1]}])
    /\ UNCHANGED <<registry, archive, force, environment>>

\* _activate_file: a rename, which does not overwrite.
Move(p) ==
    /\ At("activate", "move")
    /\ p \in Top.todo
    /\ IF Exists(p)
       THEN Rollback /\ Goto("unmove") /\ UNCHANGED fs
       ELSE /\ fs' = [fs EXCEPT ![p] = Top.ent]
            /\ Continue([Claimed(p) EXCEPT !.moved = @ \cup {p[1]}])
            /\ UNCHANGED <<active, committed>>
    /\ UNCHANGED <<state, archive, force, environment>>

MoveFails ==
    /\ At("activate", "move")
    /\ Top.todo # {}
    /\ Spend
    /\ Rollback
    /\ Goto("unmove")
    /\ UNCHANGED <<state, archive, fs, force, clock, made, clean>>

\* Slip: the transaction commits before every file is in its place.
MoveDoneEarly ==
    /\ At("activate", "move")
    /\ Commit
    /\ Goto("mark")
    /\ UNCHANGED <<state, active, archive, fs, force, environment>>

\* The second transaction commits.
MoveDone ==
    /\ At("activate", "move")
    /\ Top.todo = {}
    /\ Commit
    /\ Goto("mark")
    /\ UNCHANGED <<state, active, archive, fs, force, environment>>

\* The state is set outside the transactions, when all is done.
Mark ==
    /\ At("activate", "mark")
    /\ state' = [state EXCEPT ![Top.ent] = "installed"]
    /\ Goto("ok")
    /\ UNCHANGED <<active, committed, archive, fs, force, environment>>

\* The error handler: the files that were moved in are removed,
Unmove(f) ==
    /\ At("activate", "unmove")
    /\ f \in Top.moved
    /\ fs' = [fs EXCEPT ![<<f, 0>>] = "none"]
    /\ Continue([Top EXCEPT !.moved = @ \ {f}])
    /\ UNCHANGED <<registry, archive, force, environment>>

\* Slip: the files that were moved in stay.
UnmoveSkipped ==
    /\ At("activate", "unmove")
    /\ Goto("restore")
    /\ UNCHANGED <<registry, archive, fs, force, environment>>

UnmoveDone ==
    /\ At("activate", "unmove")
    /\ Top.moved = {}
    /\ Goto("restore")
    /\ UNCHANGED <<registry, archive, fs, force, environment>>

\* the backups are moved back, over whatever is there,
Restore(f) ==
    /\ At("activate", "restore")
    /\ f \in Top.backups
    /\ Exists(<<f, Top.stamp>>)
    /\ fs' = [fs EXCEPT ![<<f, 0>>] = fs[<<f, Top.stamp>>],
                        ![<<f, Top.stamp>>] = "none"]
    /\ Continue([Top EXCEPT !.backups = @ \ {f}])
    /\ UNCHANGED <<registry, archive, force, environment>>

RestoreDone ==
    /\ At("activate", "restore")
    /\ Top.backups = {}
    /\ Continue([Top EXCEPT !.pc = "react", !.calls = Top.victims])
    /\ UNCHANGED <<registry, archive, fs, force, environment>>

\* Slip: a port that has been activated again is not taken off the list.
CallActivateAgain(v) ==
    /\ At("activate", "react")
    /\ v \in Top.calls
    /\ IF state[v] = "imaged"
       THEN \E via \in {"target", "direct"} : Push(Call("activate", v, via), Top)
       ELSE Continue(Top)
    /\ UNCHANGED <<registry, archive, fs, force, environment>>

\* the replaced ports that were deactivated are activated again,
CallActivate(v) ==
    /\ At("activate", "react")
    /\ v \in Top.calls
    /\ LET rest == [Top EXCEPT !.calls = @ \ {v}] IN
       IF state[v] = "imaged"
       THEN \E via \in {"target", "direct"} : Push(Call("activate", v, via), rest)
       ELSE Continue(rest)
    /\ UNCHANGED <<registry, archive, fs, force, environment>>

\* and the error is raised again.
ReactDone ==
    /\ At("activate", "react")
    /\ Top.calls = {}
    /\ Goto("fail")
    /\ UNCHANGED <<registry, archive, fs, force, environment>>

\* Something fails where nothing will undo it: the last update of the registry,
\* or a step of the error handler itself, which must fail if a backup is gone.
LateFails ==
    /\ At("activate", "mark") \/ At("activate", "unmove") \/ At("activate", "restore")
    /\ Top.pc = "unmove" => Top.moved # {}
    /\ Top.pc = "restore" => Top.backups # {}
    /\ IF Top.pc = "restore" /\ \E f \in Top.backups : ~Exists(<<f, Top.stamp>>)
       THEN UNCHANGED budget
       ELSE Spend
    /\ clean' = FALSE
    /\ Goto("fail")
    /\ UNCHANGED <<registry, archive, fs, force, clock, made>>
-----------------------------------------------------------------------------
(* deactivate. *)

\* Exactly one entry of the name must be active, and be the version that was
\* asked for, if one was.
DeactivateStart ==
    /\ At("deactivate", "start")
    /\ LET current == Installed(Port[Top.ent]) IN
       \/ /\ Top.via = "name" \/ current = {Top.ent}
          /\ \E i \in current :
                /\ current = {i}
                /\ Continue([Top EXCEPT !.pc = "unlink", !.ent = i])
       \/ /\ Cardinality(current) # 1 \/ (Top.via # "name" /\ current # {Top.ent})
          /\ Goto("fail")
    /\ UNCHANGED <<registry, archive, fs, force, environment>>

\* _deactivate_contents: a transaction makes the entry's rows inactive,
Unlink ==
    /\ At("deactivate", "unlink")
    /\ LET e == Top.ent IN
       /\ active' = active \ RowsOf(e)
       /\ Continue([Top EXCEPT !.pc = "remove",
                               !.todo = {<<r[2], r[3]>> : r \in RowsOf(e)}])
    /\ UNCHANGED <<state, committed, archive, fs, force, environment>>

\* removes what is at their paths,
Remove(p) ==
    /\ At("deactivate", "remove")
    /\ p \in Top.todo
    /\ fs' = [fs EXCEPT ![p] = "none"]
    /\ Continue(Claimed(p))
    /\ UNCHANGED <<registry, archive, force, environment>>

RemoveFails ==
    /\ At("deactivate", "remove")
    /\ \E p \in Top.todo : Exists(p)
    /\ Spend
    /\ clean' = FALSE
    /\ Rollback
    /\ Goto("fail")
    /\ UNCHANGED <<state, archive, fs, force, clock, made>>

\* and commits.
RemoveDone ==
    /\ At("deactivate", "remove")
    /\ Top.todo = {}
    /\ Commit
    /\ Goto("unmark")
    /\ UNCHANGED <<state, active, archive, fs, force, environment>>

\* Slip: a state that is none of the registry's is stored.
UnmarkWrongly ==
    /\ At("deactivate", "unmark")
    /\ state' = [state EXCEPT ![Top.ent] = "inactive"]
    /\ Goto("ok")
    /\ UNCHANGED <<active, committed, archive, fs, force, environment>>

Unmark ==
    /\ At("deactivate", "unmark")
    /\ state' = [state EXCEPT ![Top.ent] = "imaged"]
    /\ Goto("ok")
    /\ UNCHANGED <<active, committed, archive, fs, force, environment>>

UnmarkFails ==
    /\ At("deactivate", "unmark")
    /\ Spend
    /\ clean' = FALSE
    /\ Goto("fail")
    /\ UNCHANGED <<registry, archive, fs, force, clock, made>>
-----------------------------------------------------------------------------
(* uninstall and install. *)

UninstallStart ==
    /\ At("uninstall", "start")
    /\ LET e == Top.ent IN
       CASE state[e] = "absent" -> Goto("fail")
         [] state[e] = "imaged" -> Goto("image")
         [] state[e] = "installed" ->
               \E via \in {"target", "direct"} :
                  Push(Call("deactivate", e, via), [Top EXCEPT !.pc = "image"])
    /\ UNCHANGED <<registry, archive, fs, force, environment>>

\* The archive is deleted first,
DeleteImage ==
    /\ At("uninstall", "image")
    /\ archive' = archive \ {Top.ent}
    /\ Goto("entry")
    /\ UNCHANGED <<registry, fs, force, environment>>

\* then, in a transaction, the entry.
DeleteEntry ==
    /\ At("uninstall", "entry")
    /\ state' = [state EXCEPT ![Top.ent] = "absent"]
    /\ active' = active \ RowsOf(Top.ent)
    /\ committed' = active'
    /\ Goto("ok")
    /\ UNCHANGED <<archive, fs, force, environment>>

\* install_main puts the archive in its place first,
InstallStart ==
    /\ At("install", "start")
    /\ IF state[Top.ent] = "absent"
       THEN archive' = archive \cup {Top.ent} /\ Goto("record")
       ELSE UNCHANGED archive /\ Goto("fail")
    /\ UNCHANGED <<registry, fs, force, environment>>

\* then records the image in one transaction.
Record ==
    /\ At("install", "record")
    /\ state' = [state EXCEPT ![Top.ent] = "imaged"]
    /\ Goto("ok")
    /\ UNCHANGED <<active, committed, archive, fs, force, environment>>

\* The transaction fails: the entry stays as it was.
EntryFails ==
    /\ At("uninstall", "entry") \/ At("install", "record")
    /\ Spend
    /\ clean' = (clean /\ Top.op = "install")
    /\ Goto("fail")
    /\ UNCHANGED <<registry, archive, fs, force, clock, made>>
-----------------------------------------------------------------------------
ActivateStep ==
    \/ ActivateStart \/ OthersDone \/ Extract \/ ExtractFails
    \/ \E o \in Entries : CallDeactivate(o)
    \/ \E p \in Paths : \/ ClaimReplaced(p) \/ ClaimFree(p)
                        \/ ClaimRefused(p) \/ ClaimForced(p)
    \/ ClaimFails \/ ClaimDone \/ ReplacedDone
    \/ Link \/ MoveFails \/ MoveDone \/ Mark
    \/ \E p \in Paths : Move(p)

UndoStep ==
    \/ \E f \in Files : Unmove(f) \/ Restore(f)
    \/ UnmoveDone \/ RestoreDone \/ ReactDone \/ LateFails
    \/ \E v \in Entries : CallActivate(v)

DeactivateStep ==
    \/ DeactivateStart \/ Unlink \/ RemoveFails \/ RemoveDone
    \/ Unmark \/ UnmarkFails
    \/ \E p \in Paths : Remove(p)

ImageStep ==
    \/ UninstallStart \/ DeleteImage \/ DeleteEntry
    \/ InstallStart \/ Record \/ EntryFails

Step == ActivateStep \/ UndoStep \/ DeactivateStep \/ ImageStep \/ Return

Next ==
    \/ Step
    \/ \E op \in Ops, e \in Entries, forced \in Forcing : Command(op, e, forced)
    \/ \E f \in Files : UserMakes(f)
    \/ NewProcess
    \/ Crash

Spec == Init /\ [][Next]_vars

\* A command that has been started goes on until it ends or the process dies.
FairSpec == Spec /\ WF_vars(Step)
-----------------------------------------------------------------------------
\* No two entries own the same path, in this connection's view of the registry
\* or in the committed one: reg_entry_activate refuses a path in use, and a
\* forced activation moves the other owner's row away first.
NoSharedPath(rows) ==
    \A r, q \in rows : r[2] = q[2] /\ r[3] = q[3] => r[1] = q[1]

UniqueOwner == NoSharedPath(active) /\ NoSharedPath(committed)

\* At most one version of a port is active (the loop of activate that
\* deactivates the others), whatever fails or dies on the way.
OneActiveVersion ==
    \A d, e \in Entries :
        Port[d] = Port[e] /\ state[d] = "installed" /\ state[e] = "installed" => d = e

\* Between commands the state of an entry agrees with its rows and with its
\* archive, if every failure so far was one the code undoes.
StateAgrees ==
    Idle /\ clean =>
        /\ active = committed
        /\ \A e \in Entries :
              /\ {r[2] : r \in RowsOf(e)} =
                    IF state[e] = "installed" THEN Contents[e] ELSE {}
              /\ state[e] # "absent" => e \in archive

\* Between commands the registry and the disk agree on where the files of the
\* ports are, if every failure so far was one the code undoes.  The comment in
\* the error handler of _activate_contents says it moves the backups back and
\* that "Transaction rollback will take care of this in the registry".
DiskAgrees ==
    Idle /\ clean =>
        /\ \A r \in active : fs[<<r[2], r[3]>>] = r[1]
        /\ \A p \in Paths : fs[p] \in Entries => Owner(p) = {fs[p]}

\* No file of the user's is lost: each is where he made it or at a backup path
\* of it, even while a command runs and after a failure or a crash.
UserFilesKept ==
    \A f \in Files :
        Cardinality({s \in 0..MaxStamp : fs[<<f, s>>] = "user"}) = made[f]

\* Without force in effect, no step moves or removes a file of the user's.
UnforcedKeepsUserFiles ==
    [][~force => \A p \in Paths : fs[p] = "user" => fs'[p] = "user"]_vars

\* The command being run, the outermost frame, was given without -f.
AskedWithoutForce == ~Idle /\ ~stack[Len(stack)].forced

\* A command given without -f moves or removes no file of the user's: "if
\* we're not forcing the activation, then we bail out if we find any files
\* that already exist" (_activate_contents).
UnaskedKeepsUserFiles ==
    [][AskedWithoutForce => \A p \in Paths : fs[p] = "user" => fs'[p] = "user"]_vars

\* An activation that succeeds has put every file of the image in its place,
\* with the entry as its owner, and no other version is active; whatever
\* failed or crashed before it.
ActivationDelivers ==
    At("activate", "ok") =>
        /\ state[Top.ent] = "installed"
        /\ Installed(Port[Top.ent]) = {Top.ent}
        /\ \A p \in Image(Top.ent) : fs[p] = Top.ent /\ Owner(p) = {Top.ent}

\* One version of a port is active at most, and an activation that succeeds has
\* put its own in place, whatever failed or died before (activate,
\* _activate_contents).
ActivatesOne == OneActiveVersion /\ ActivationDelivers

\* Registry, archives and disk agree between commands if every failure so far
\* was one the code undoes (the error handlers of _activate_contents,
\* _deactivate_contents and install_main).
StoresAgree == TypeOK /\ StateAgrees /\ DiskAgrees

\* A forced activation of an image that is there succeeds if no step of it
\* fails: it recovers from a process that died at any point.
ForcedActivationRecovers ==
    At("activate", "fail") /\ force /\ budget.fails = MaxFails =>
        state[Top.ent] # "imaged" \/ Top.ent \notin archive

\* Every command ends, with what it calls and calls again.
CommandsEnd == ~Idle ~> Idle
=============================================================================
