------------------------------ MODULE Registry ------------------------------
(***************************************************************************)
(* The registry as scripts use it: registry::open and close, read, write,  *)
(* and registry::entry (registry2.0/registry.c, entry.c, entryobj.c,       *)
(* util.c), over the database of RegistryTxn.                              *)
(*                                                                         *)
(* For every entry a process has met there is a reg_entry in its heap. The *)
(* table open_entries leads from the id to it, and a Tcl command of a name *)
(* that the interpreter had free leads to it from scripts. Scripts keep    *)
(* such names, and a deletion that is rolled back must not make one of     *)
(* them useless: the reg_entry of a deleted entry is kept in a list until  *)
(* the transaction ends.                                                   *)
(***************************************************************************)
EXTENDS RegistryTxn, Sequences, FiniteSetsExt, SequencesExt

CONSTANTS
    MaxObjects,  \* bound on a process's reg_entry objects
    Habits       \* what scripts do beside what MacPorts' own do: "reopen" an
                 \* entry that was closed, "mix" deletions with new names in a
                 \* transaction, delete "again" what was given back, or "alone"

ASSUME HabitsAssumption ==
    MaxObjects \in Nat /\ Habits \subseteq {"reopen", "mix", "again", "alone"}

VARIABLES
    heap,     \* process -> its reg_entry objects, freed ones too
    table,    \* process -> open_entries: id -> object, or 0
    cmds,     \* process -> name -> object it leads to, or 0, and whether the
              \* command frees the object's name when it is deleted
    deleted,  \* process -> the list registry::deleted
    victim,   \* process -> the object whose rows are being deleted
    held      \* process -> names its script has, each with the id it is for

objVars == <<heap, table, cmds, deleted, victim, held>>
vars == <<txnVars, objVars>>

Names == 1..MaxObjects
NoName == 0
NoCommand == [to |-> 0, frees |-> FALSE]

TypeOK ==
    /\ TxnTypeOK
    /\ \A p \in Procs :
        /\ Len(heap[p]) <= MaxObjects
        /\ \A o \in DOMAIN heap[p] :
            heap[p][o] \in [id : Ids, name : Names \cup {NoName}, live : BOOLEAN]
        /\ table[p] \in [Ids -> 0..Len(heap[p])]
        /\ cmds[p] \in [Names -> [to : 0..Len(heap[p]), frees : BOOLEAN]]
        /\ deleted[p] \in Seq(DOMAIN heap[p])
        /\ victim[p] \in 0..Len(heap[p])
        /\ held[p] \subseteq Names \X Ids

Init ==
    /\ db \in {Blank(s) : s \in Found}
    /\ work = [p \in Procs |-> Blank("absent")]
    /\ lock = [p \in Procs |-> "none"]
    /\ begun = {} /\ looked = {}
    /\ status = [p \in Procs |-> {}]
    /\ pc = [p \in Procs |-> "off"]
    /\ calls = Calls
    /\ heap = [p \in Procs |-> <<>>]
    /\ table = [p \in Procs |-> [i \in Ids |-> 0]]
    /\ cmds = [p \in Procs |-> [n \in Names |-> NoCommand]]
    /\ deleted = [p \in Procs |-> <<>>]
    /\ victim = [p \in Procs |-> 0]
    /\ held = [p \in Procs |-> {}]

-----------------------------------------------------------------------------
(* Objects and their names. A memory is the part of the state of a process *)
(* that holds them, and is changed as a whole.                             *)

Memory(p) == [heap |-> heap[p], table |-> table[p], cmds |-> cmds[p]]

Remember(p, m) ==
    /\ heap' = [heap EXCEPT ![p] = m.heap]
    /\ table' = [table EXCEPT ![p] = m.table]
    /\ cmds' = [cmds EXCEPT ![p] = m.cmds]

\* A new object for an id takes the place of one the table still has.
NewObject(m, i) ==
    LET o == Len(m.heap) + 1 IN
    [m EXCEPT !.heap = Append(@, [id |-> i, name |-> NoName, live |-> TRUE]),
              !.table[i] = o]

\* reg_stmt_to_entry
StmtToEntry(m, i) == IF m.table[i] = 0 THEN NewObject(m, i) ELSE m

\* Tcl_DeleteCommand; only restored commands have delete_entry.
DeleteCommand(m, n) ==
    [m EXCEPT !.cmds[n] = NoCommand,
              !.heap = IF m.cmds[n].frees
                       THEN [m.heap EXCEPT ![m.cmds[n].to].name = NoName] ELSE @]

\* Tcl_CreateObjCommand deletes a command of that name first.
CreateCommand(m, n, o, frees) ==
    LET cleared == IF m.cmds[n].to # 0 THEN DeleteCommand(m, n) ELSE m
    IN  [cleared EXCEPT !.cmds[n] = [to |-> o, frees |-> frees]]

\* entry_to_obj: an object that has a name keeps it, and the command with it.
EntryToObj(m, o) ==
    LET n == Min({k \in Names : m.cmds[k].to = 0})
    IN  IF m.heap[o].name # NoName THEN m
        ELSE [CreateCommand(m, n, o, FALSE) EXCEPT !.heap[o].name = n]

\* reg_entry_free
FreeEntry(m, o) ==
    [m EXCEPT !.table[m.heap[o].id] = 0, !.heap[o].live = FALSE]

\* Slip: the command is given back without its object.
RestoreNothing(m, o) == m

\* restore_entry_list
RestoreEntry(m, o) == CreateCommand(m, m.heap[o].name, o, TRUE)

Room(p) == Len(heap[p]) < MaxObjects

\* What the script has been given: the object's name, for the object's id.
Given(m, o) == <<m.heap[o].name, m.heap[o].id>>

-----------------------------------------------------------------------------
(* Calls of a script *)

Quiet == UNCHANGED <<begun, status, pc>>

Call(p) ==
    /\ pc[p] \in {"idle", "script"} /\ calls[p] > 0
    /\ calls' = [calls EXCEPT ![p] = @ - 1]

\* In its transaction, the script has not deleted what would free names.
Unmixed(p) == deleted[p] = <<>> \/ "mix" \in Habits

\* registry::entry create, with the rows of map and depends that install adds
\* in the same transaction. The object is new whatever the table has.
Create(p) ==
    /\ Call(p) /\ pc[p] = "script" /\ "can_write" \in status[p]
    /\ Room(p) /\ Unmixed(p)
    /\ LET i == View(p).next
           m == NewObject(Memory(p), i)
           o == Len(m.heap)
           named == EntryToObj(m, o)
       IN  /\ i \in Ids
           /\ Write(p, [View(p) EXCEPT !.ports = @ \cup {i}, !.next = i + 1,
                                       !.files = @ \cup {i}, !.deps = @ \cup {i}])
           /\ Remember(p, named)
           /\ held' = [held EXCEPT ![p] = @ \cup {Given(named, o)}]
    /\ Quiet /\ UNCHANGED <<deleted, victim>>

\* set_entry registers no delete_entry: the entry of a command that was closed
\* still has its name, and would be found under it.
Closed(p, o) == heap[p][o].name # NoName /\ cmds[p][heap[p][o].name].to # o

\* registry::entry open, owner, search, imaged, installed, and an entry's
\* dependents and dependencies: the ids that are found become names.
Find(p) ==
    /\ Call(p) /\ Unmixed(p)
    /\ \E found \in SUBSET View(p).ports :
        LET met == FoldSet(LAMBDA i, m : StmtToEntry(m, i), Memory(p), found)
            all == FoldSet(LAMBDA i, m : EntryToObj(m, m.table[i]), met, found)
        IN  /\ found # {}
            /\ "reopen" \in Habits \/ \A i \in found : table[p][i] # 0 => ~Closed(p, table[p][i])
            /\ Len(heap[p]) + Cardinality({i \in found : table[p][i] = 0}) <= MaxObjects
            /\ Remember(p, all)
            /\ held' = [held EXCEPT ![p] = @ \cup {Given(all, all.table[i]) : i \in found}]
    /\ Read(p)
    /\ Quiet /\ UNCHANGED <<deleted, victim>>

\* registry::entry close
Close(p) ==
    /\ Call(p)
    /\ \E h \in held[p] :
        /\ cmds[p][h[1]].to # 0
        /\ Remember(p, DeleteCommand(Memory(p), h[1]))
        /\ held' = [held EXCEPT ![p] = @ \ {h}]
    /\ Quiet /\ UNCHANGED <<db, work, lock, looked, deleted, victim>>

\* registry::entry delete: the row of ports, which must be there.
Delete(p) ==
    /\ Call(p)
    /\ "alone" \in Habits \/ (pc[p] = "script" /\ "can_write" \in status[p])
    /\ \E h \in held[p] :
        LET o == cmds[p][h[1]].to
            i == heap[p][o].id
        IN  /\ o # 0 /\ i \in View(p).ports
            /\ "again" \in Habits \/ ~cmds[p][h[1]].frees
            /\ Write(p, [View(p) EXCEPT !.ports = @ \ {i}])
            /\ victim' = [victim EXCEPT ![p] = o]
    /\ pc' = [pc EXCEPT ![p] = "files"]
    /\ UNCHANGED <<begun, status, heap, table, cmds, deleted, held>>

DeleteFiles(p) ==
    /\ At(p, "files", "deps")
    /\ Write(p, [View(p) EXCEPT !.files = @ \ {heap[p][victim[p]].id}])
    /\ UNCHANGED <<begun, status, calls, objVars>>

\* Where there is a transaction of registry::write the object goes to the
\* list, else it is freed. The name the script used is taken away.
Removed(p) ==
    LET o == victim[p]
        n == heap[p][o].name
        listed == "can_write" \in status[p]
        m == IF listed THEN Memory(p) ELSE FreeEntry(Memory(p), o)
    IN  /\ Remember(p, DeleteCommand(m, n))
        /\ deleted' = IF listed THEN [deleted EXCEPT ![p] = <<o>> \o @] ELSE deleted
        /\ held' = [held EXCEPT ![p] = {h \in @ : h[1] # n}]
        /\ victim' = [victim EXCEPT ![p] = 0]
        /\ pc' = [pc EXCEPT ![p] = IF "transacting" \in status[p] THEN "script" ELSE "idle"]

\* Slip: the dependencies are left.
DeleteDepsNot(p) ==
    /\ pc[p] = "deps"
    /\ Write(p, View(p))
    /\ Removed(p)
    /\ UNCHANGED <<begun, status, calls>>

DeleteDeps(p) ==
    /\ pc[p] = "deps"
    /\ Write(p, [View(p) EXCEPT !.deps = @ \ {heap[p][victim[p]].id}])
    /\ Removed(p)
    /\ UNCHANGED <<begun, status, calls>>

\* A statement fails and SQLite rolls everything back: the script fails, or
\* it is the COMMIT that does.
StatementFails(p) ==
    /\ "full" \in Faults /\ pc[p] \in InScript \cup {"commit"}
    /\ p \in begun /\ Writing(p)
    /\ RolledBack(p)
    /\ victim' = [victim EXCEPT ![p] = 0]
    /\ pc' = [pc EXCEPT ![p] = IF @ = "commit" THEN @ ELSE "rollback"]
    /\ UNCHANGED <<status, calls, heap, table, cmds, deleted, held>>

-----------------------------------------------------------------------------
(* registry::read, registry::write and registry::close *)

Begin(p) ==
    /\ pc[p] = "idle" /\ calls[p] > 0
    /\ calls' = [calls EXCEPT ![p] = @ - 1]
    /\ \E how \in {"read", "write"} : pc' = [pc EXCEPT ![p] = how]
    /\ UNCHANGED <<base, status, objVars>>

Started(p) ==
    /\ StartRead(p) \/ StartWrite(p) \/ Refused(p)
    /\ UNCHANGED <<calls, objVars>>

\* The script ends; or breaks off, or fails.
ScriptEnds(p) ==
    /\ pc[p] = "script"
    /\ \E how \in {"commit", "rollback"} : pc' = [pc EXCEPT ![p] = how]
    /\ UNCHANGED <<base, status, calls, objVars>>

\* delete_entry_list; no object is in the list twice.
FreeDeleted(p) == FoldSet(LAMBDA o, m : FreeEntry(m, o), Memory(p), ToSet(deleted[p]))

Committing(p) ==
    /\ Commit(p)
    /\ Remember(p, FreeDeleted(p))
    /\ deleted' = [deleted EXCEPT ![p] = <<>>]
    /\ UNCHANGED <<calls, victim, held>>

Waiting(p) == Wait(p) /\ UNCHANGED <<calls, objVars>>

\* The names of entries that were deleted are there again; those of entries
\* that were made are of no use to the script.
GiveBack(p, m) ==
    /\ Remember(p, m)
    /\ held' = [held EXCEPT ![p] =
                  {h \in @ : h[2] \in db.ports}
                  \cup {Given(Memory(p), o) : o \in ToSet(deleted[p])}]

\* A name that was freed cannot be given to a command: the process ends.
Nameless(p) == \E o \in ToSet(deleted[p]) : heap[p][o].name = NoName

RollingBack(p) ==
    /\ Rollback(p) /\ ~Nameless(p)
    /\ GiveBack(p, FoldSet(LAMBDA o, m : RestoreEntry(m, o), Memory(p), ToSet(deleted[p])))
    /\ deleted' = [deleted EXCEPT ![p] = <<>>]
    /\ UNCHANGED <<calls, victim>>

\* The list is dropped by Tcl_DeleteAssocData, which frees its entries.
EndFailed(p) ==
    /\ EndFails(p)
    /\ Remember(p, FreeDeleted(p))
    /\ deleted' = [deleted EXCEPT ![p] = <<>>]
    /\ held' = [held EXCEPT ![p] = {h \in @ : h[2] \in db.ports}]
    /\ UNCHANGED <<calls, victim>>

\* registry_tcl_detach: commands go by the names of the table's objects, then
\* those objects.
Detach(p) ==
    LET known == {table[p][i] : i \in Ids} \ {0}
        m == FoldSet(LAMBDA o, n : IF n.heap[o].name = NoName THEN n
                                   ELSE DeleteCommand(n, n.heap[o].name),
                     Memory(p), known)
    IN  /\ pc[p] = "idle" /\ "transacting" \notin status[p]
        /\ Remember(p, [m EXCEPT !.table = [i \in Ids |-> 0],
                                 !.heap = [o \in DOMAIN @ |->
                                    IF o \in known THEN [@[o] EXCEPT !.live = FALSE] ELSE @[o]]])
        /\ held' = [held EXCEPT ![p] = {}]
        /\ status' = [status EXCEPT ![p] = {}]
        /\ pc' = [pc EXCEPT ![p] = "off"]
        /\ UNCHANGED <<base, calls, deleted, victim>>

\* The process ends, of itself, by a failure or killed: nothing is left of it
\* but what it has committed.
Gone(p) ==
    /\ RolledBack(p)
    /\ status' = [status EXCEPT ![p] = {}]
    /\ pc' = [pc EXCEPT ![p] = "off"]
    /\ heap' = [heap EXCEPT ![p] = <<>>]
    /\ table' = [table EXCEPT ![p] = [i \in Ids |-> 0]]
    /\ cmds' = [cmds EXCEPT ![p] = [n \in Names |-> NoCommand]]
    /\ deleted' = [deleted EXCEPT ![p] = <<>>]
    /\ victim' = [victim EXCEPT ![p] = 0]
    /\ held' = [held EXCEPT ![p] = {}]
    /\ UNCHANGED calls

Kill(p) == pc[p] # "off" /\ Gone(p)
CannotOpen(p) == OpenFails(p) /\ Gone(p)
Crash(p) == pc[p] = "rollback" /\ p \in begun /\ Nameless(p) /\ Gone(p)

Open(p) ==
    /\ Stat(p) \/ Attach(p) \/ CreateBegin(p) \/ CreateTables(p) \/ UpdateBegin(p)
       \/ ReadVersion(p) \/ AlterTables(p) \/ OpenCommit(p) \/ LookAgain(p)
    /\ UNCHANGED objVars

\* What a process does once it has been called, without a choice of its own.
Proceed(p) ==
    \/ Started(p) \/ DeleteFiles(p) \/ DeleteDeps(p)
    \/ Committing(p) \/ Waiting(p) \/ RollingBack(p) \/ EndFailed(p)

Step(p) ==
    \/ Open(p) \/ CannotOpen(p) \/ Begin(p) \/ ScriptEnds(p) \/ Proceed(p)
    \/ Create(p) \/ Find(p) \/ Close(p) \/ Delete(p) \/ StatementFails(p)
    \/ Detach(p) \/ Kill(p) \/ Crash(p)

Next == \E p \in Procs : Step(p)

Spec == Init /\ [][Next]_vars

FairSpec == Spec /\ \A p \in Procs :
    WF_vars(Open(p) \/ CannotOpen(p) \/ Proceed(p) \/ Crash(p) \/ ScriptEnds(p))

-----------------------------------------------------------------------------
(* Properties *)

\* A name a script was given leads to a reg_entry of the entry it was given
\* for, one that is not freed: a deletion that is rolled back gives the entry
\* its command again, and no other command ends with it.
NamesLead == \A p \in Procs : \A h \in held[p] :
    LET o == cmds[p][h[1]].to IN
    /\ o # 0
    /\ heap[p][o].live /\ heap[p][o].id = h[2]

\* No row of files or dependencies is without its row of ports, and none of
\* them is missing, whoever is killed in the middle of an installation or a
\* deletion.
RowsTogether == db.files = db.ports /\ db.deps = db.ports

\* To those who share it the registry is one value that transactions replace:
\* it is never changed between a transaction's first look at it and its end,
\* the check of the version and the update that follows it included.
Atomic == INSTANCE AtomicRegistry WITH
    Procs <- Procs, Nothing <- Blank("absent"), db <- db,
    seen <- [p \in Procs |-> IF p \in looked THEN db ELSE Blank("absent")]
ImplementsAtomicRegistry == Atomic!Spec

\* Both have read the version; one has updated the tables and its COMMIT waits
\* for the other, whose ALTER TABLE waits for it.
Standoff == \E p, q \in Procs :
    pc[p] = "altered" /\ Writing(p) /\ pc[q] = "alter" /\ lock[q] = "shared"

\* Every COMMIT and every opening comes to its end, although both repeat what
\* is busy: those a COMMIT waits for do not wait for it. Two processes that
\* update an old registry at once are the exception.
CallsEnd == \A p \in Procs :
    pc[p] \in Opening \cup {"commit", "rollback", "files", "deps"}
        ~> (pc[p] \in {"idle", "script", "off"} \/ Standoff)
UpdateEnds == \A p \in Procs : pc[p] = "alter" ~> pc[p] \in {"altered", "off"}
\* What scripts hold and what the tables hold stays whole.
RegistryWhole == NamesLead /\ RowsTogether
=============================================================================
