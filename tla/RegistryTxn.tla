---------------------------- MODULE RegistryTxn -----------------------------
(***************************************************************************)
(* The registry's database as several port(1) processes use it: attaching, *)
(* creating and updating it (cregistry/registry.c, sql.c) and the read and *)
(* write transactions of registry2.0/registry.c.                           *)
(*                                                                         *)
(* SQLite's locks are modelled from how the code uses them: readers share, *)
(* one process reserves the right to write, and its commit, once it is     *)
(* pending, keeps new readers away and waits for the others to leave. A    *)
(* loop on SQLITE_BUSY is an action that is not enabled.                   *)
(***************************************************************************)
EXTENDS Naturals, FiniteSets

CONSTANTS
    Procs,    \* the processes
    MaxId,    \* bound on the ids of entries
    Calls,    \* process -> bound on its calls and openings of the registry
    Found,    \* the states the file may be in at first
    Faults    \* errors on which SQLite itself rolls back: "full" or none

Ids == 1..MaxId
Schemas == {"absent", "empty", "1.0", "1.1"}

ASSUME TxnAssumption ==
    /\ MaxId \in Nat /\ Calls \in [Procs -> Nat]
    /\ Found \subseteq Schemas /\ Faults \subseteq {"full"}

VARIABLES
    db,      \* what is committed: tables, and the next id of an entry
    work,    \* process -> what it sees while it may write
    lock,    \* process -> its lock on the database
    begun,   \* processes whose connection is in a transaction
    looked,  \* history: those that have read in what is to be one transaction
    status,  \* process -> flags of reg_registry
    pc,      \* process -> where it is
    calls    \* process -> calls it may still make

base == <<db, work, lock, begun, looked>>
txnVars == <<base, status, pc, calls>>

Blank(schema) == [schema |-> schema, ports |-> {}, files |-> {}, deps |-> {}, next |-> 1]

Databases == [schema : Schemas, ports : SUBSET Ids, files : SUBSET Ids,
              deps : SUBSET Ids, next : 1..(MaxId + 1)]

\* After opening: reading the state of the file; creating; updating.
Opening == {"new", "old", "create", "created", "update", "version", "alter", "altered",
            "again"}

\* After registry::write and ::read: the script, its rows of a deletion to go.
InScript == {"script", "files", "deps"}

TxnTypeOK ==
    /\ db \in Databases
    /\ work \in [Procs -> Databases]
    /\ lock \in [Procs -> {"none", "shared", "reserved", "pending"}]
    /\ begun \subseteq Procs /\ looked \subseteq Procs
    /\ status \in [Procs -> SUBSET {"attached", "transacting", "can_write"}]
    /\ pc \in [Procs -> Opening \cup InScript
                        \cup {"off", "idle", "read", "write", "commit", "rollback"}]
    /\ calls \in [Procs -> Nat]

-----------------------------------------------------------------------------
(* SQLite *)

Writing(p) == lock[p] \in {"reserved", "pending"}
View(p) == IF Writing(p) THEN work[p] ELSE db

MayRead(p) == lock[p] # "none" \/ \A q \in Procs \ {p} : lock[q] # "pending"
MayReserve(p) == \A q \in Procs \ {p} : ~Writing(q)
MayFinish(p) == \A q \in Procs \ {p} : lock[q] = "none"

Looked(p) == looked' = IF pc[p] \in Opening \cup InScript THEN looked \cup {p} ELSE looked

\* A transaction keeps the lock its statements took.
Read(p) ==
    /\ MayRead(p)
    /\ lock' = IF p \in begun /\ lock[p] = "none"
               THEN [lock EXCEPT ![p] = "shared"] ELSE lock
    /\ Looked(p)
    /\ UNCHANGED <<db, work>>

\* Outside a transaction a statement is committed at once.
Write(p, new) ==
    /\ Looked(p)
    /\ IF p \in begun
       THEN /\ MayReserve(p)
            /\ lock' = IF Writing(p) THEN lock ELSE [lock EXCEPT ![p] = "reserved"]
            /\ work' = [work EXCEPT ![p] = new]
            /\ UNCHANGED db
       ELSE MayFinish(p) /\ db' = new /\ UNCHANGED <<lock, work>>

Unlocked(p) ==
    /\ lock' = [lock EXCEPT ![p] = "none"]
    /\ work' = [work EXCEPT ![p] = Blank("absent")]
    /\ begun' = begun \ {p}
    /\ looked' = looked \ {p}

\* COMMIT that is not busy.
Committed(p) ==
    /\ Writing(p) => MayFinish(p)
    /\ db' = View(p)
    /\ Unlocked(p)

\* A busy COMMIT is repeated, and lets nobody in meanwhile.
CommitBusy(p) ==
    /\ lock[p] = "reserved" /\ ~MayFinish(p)
    /\ lock' = [lock EXCEPT ![p] = "pending"]
    /\ UNCHANGED <<db, work, begun, looked>>

RolledBack(p) == Unlocked(p) /\ UNCHANGED db

-----------------------------------------------------------------------------
(* reg_attach *)

At(p, from, to) == pc[p] = from /\ pc' = [pc EXCEPT ![p] = to]

\* registry::open: stat says whether the file is there.
Stat(p) ==
    /\ pc[p] = "off" /\ calls[p] > 0
    /\ calls' = [calls EXCEPT ![p] = @ - 1]
    /\ pc' = [pc EXCEPT ![p] = IF db.schema = "absent" THEN "new" ELSE "old"]
    /\ UNCHANGED <<base, status>>

\* ATTACH makes the file where there is none.
Attach(p) ==
    /\ At(p, "new", "create") \/ At(p, "old", "update")
    /\ db' = IF db.schema = "absent" THEN Blank("empty") ELSE db
    /\ status' = [status EXCEPT ![p] = {"attached"}]
    /\ UNCHANGED <<work, lock, begun, looked, calls>>

\* create_tables: BEGIN; the tables, which must not exist; COMMIT.
CreateBegin(p) ==
    /\ pc[p] = "create" /\ p \notin begun
    /\ begun' = begun \cup {p}
    /\ UNCHANGED <<db, work, lock, looked, status, pc, calls>>

CreateTables(p) ==
    /\ p \in begun /\ View(p).schema = "empty"
    /\ At(p, "create", "created")
    /\ Write(p, [View(p) EXCEPT !.schema = "1.1"])
    /\ UNCHANGED <<begun, status, calls>>

\* Slip: the version is read before the transaction.
UpdateUnbegun(p) ==
    /\ At(p, "update", "version")
    /\ UNCHANGED <<base, status, calls>>

\* update_db: BEGIN and the version number.
UpdateBegin(p) ==
    /\ At(p, "update", "version")
    /\ begun' = begun \cup {p}
    /\ UNCHANGED <<db, work, lock, looked, status, calls>>

ReadVersion(p) ==
    /\ pc[p] = "version" /\ View(p).schema \in {"1.0", "1.1"}
    /\ Read(p)
    /\ pc' = [pc EXCEPT ![p] = IF View(p).schema = "1.0" THEN "alter" ELSE "altered"]
    /\ UNCHANGED <<begun, status, calls>>

AlterTables(p) ==
    /\ At(p, "alter", "altered")
    /\ Write(p, [View(p) EXCEPT !.schema = "1.1"])
    /\ UNCHANGED <<begun, status, calls>>

\* Slip: where nothing was updated the transaction is left open.
CommitForgotten(p) ==
    /\ pc[p] \in {"created", "altered"}
    /\ \/ Writing(p) /\ Committed(p) /\ pc' = [pc EXCEPT ![p] = "update"]
       \/ ~Writing(p) /\ pc' = [pc EXCEPT ![p] = "idle"] /\ UNCHANGED base
       \/ CommitBusy(p) /\ UNCHANGED pc
    /\ UNCHANGED <<status, calls>>

\* The COMMITs of create_tables and update_db.
OpenCommit(p) ==
    /\ pc[p] \in {"created", "altered"}
    /\ \/ /\ Committed(p)
          /\ pc' = [pc EXCEPT ![p] = IF @ = "created" THEN "update"
                                    ELSE IF Writing(p) THEN "again" ELSE "idle"]
       \/ CommitBusy(p) /\ UNCHANGED pc
    /\ UNCHANGED <<status, calls>>

\* After an update the loop is run again, but with query still the one for the
\* version: it is answered outside a transaction, and that ends the loop.
LookAgain(p) ==
    /\ At(p, "again", "idle")
    /\ MayRead(p)
    /\ UNCHANGED <<base, status, calls>>

\* The tables are there already, or are not there: the statement cannot be
\* prepared. Nor can it when the file stays locked for the busy timeout.
OpenFails(p) ==
    \/ pc[p] = "create" /\ p \in begun /\ (MayRead(p) => View(p).schema # "empty")
    \/ pc[p] = "version" /\ (MayRead(p) => View(p).schema = "empty")
    \/ pc[p] = "again" /\ ~MayRead(p)

-----------------------------------------------------------------------------
(* registry::read and registry::write *)

\* reg_start refuses when a transaction is open.
StartRead(p) ==
    /\ "transacting" \notin status[p]
    /\ At(p, "read", "script")
    /\ status' = [status EXCEPT ![p] = @ \cup {"transacting"}]
    /\ begun' = begun \cup {p}
    /\ UNCHANGED <<db, work, lock, looked>>

\* BEGIN IMMEDIATE
StartWrite(p) ==
    /\ "transacting" \notin status[p]
    /\ At(p, "write", "script")
    /\ MayRead(p) /\ MayReserve(p)
    /\ lock' = [lock EXCEPT ![p] = "reserved"]
    /\ work' = [work EXCEPT ![p] = db]
    /\ status' = [status EXCEPT ![p] = @ \cup {"transacting", "can_write"}]
    /\ begun' = begun \cup {p}
    /\ UNCHANGED <<db, looked>>

Refused(p) ==
    /\ pc[p] \in {"read", "write"} /\ "transacting" \in status[p]
    /\ pc' = [pc EXCEPT ![p] = "idle"]
    /\ UNCHANGED <<base, status>>

Ended(p) == status' = [status EXCEPT ![p] = @ \ {"transacting", "can_write"}]

Commit(p) ==
    /\ At(p, "commit", "idle")
    /\ p \in begun /\ Committed(p)
    /\ Ended(p)

Wait(p) ==
    /\ pc[p] = "commit" /\ p \in begun /\ CommitBusy(p)
    /\ UNCHANGED <<status, pc>>

Rollback(p) ==
    /\ At(p, "rollback", "idle")
    /\ p \in begun /\ RolledBack(p)
    /\ Ended(p)

\* SQLite has rolled back: there is nothing to end, and reg_end returns before
\* the flags are cleared.
EndFails(p) ==
    /\ pc[p] \in {"commit", "rollback"} /\ p \notin begun
    /\ pc' = [pc EXCEPT ![p] = "idle"]
    /\ UNCHANGED <<base, status>>
=============================================================================
