--------------------------- MODULE RegistryProofs ---------------------------
(***************************************************************************)
(* Proofs about the registry, for any processes, calls and entries: it     *)
(* implements AtomicRegistry, its rows stay together, and the names that   *)
(* scripts hold lead to their entries.                                     *)
(*                                                                         *)
(* The first two rest on the discipline of the locks: who has looked holds *)
(* a lock for as long as its transaction lasts, at most one process may    *)
(* write, and its COMMIT waits until no one else holds a lock. The last    *)
(* rests on what every operation keeps of a memory, and on an induction    *)
(* over the sets that a step folds such operations over.                   *)
(***************************************************************************)
EXTENDS Registry, FiniteSetTheorems, WellFoundedInduction, TLAPS

\* Scripts delete entries in a transaction only, as MacPorts' own do.
Scripted == "alone" \notin Habits

Places == Opening \cup InScript
              \cup {"off", "idle", "read", "write", "commit", "rollback"}

\* Where a transaction is open, unless SQLite has rolled back.
Within == {"created", "version", "alter", "altered", "script", "files", "deps"}

\* The transaction of a process, and the lock and the looks that belong to it.
TxnOf(p) ==
    /\ pc[p] \in Within => p \in begun
    /\ p \in begun => pc[p] \in Within \cup {"create", "commit", "rollback"}
    /\ lock[p] # "none" => p \in begun
    /\ p \in looked => lock[p] # "none"
    /\ pc[p] \in InScript => "transacting" \in status[p]
    /\ pc[p] \in {"files", "deps"} => Writing(p)
    /\ Writing(p) => work[p].schema # "absent"
    /\ pc[p] \notin {"off", "new", "old"} => db.schema # "absent"

OneWriter == \A p, q \in Procs : Writing(p) /\ Writing(q) => p = q

TxnInv == TxnTypeOK /\ OneWriter /\ \A p \in Procs : TxnOf(p)

-----------------------------------------------------------------------------
\* A step of another process leaves the transaction of q as it is.
Kept(q) ==
    /\ pc'[q] = pc[q] /\ lock'[q] = lock[q] /\ status'[q] = status[q]
    /\ work'[q] = work[q]
    /\ q \in begun' <=> q \in begun
    /\ q \in looked' <=> q \in looked

\* A step of one process that keeps its own part of the invariant keeps it.
LEMMA OthersTxn ==
    ASSUME TxnInv, TxnTypeOK', NEW p \in Procs, TxnOf(p)',
           \A q \in Procs \ {p} : Kept(q),
           db.schema # "absent" => db'.schema # "absent",
           Writing(p)' => Writing(p) \/ MayReserve(p)
    PROVE  TxnInv'
<1>1. ASSUME NEW q \in Procs \ {p} PROVE TxnOf(q)' /\ (Writing(q)' <=> Writing(q))
    BY <1>1 DEF TxnInv, TxnOf, Kept, Writing
<1>2. OneWriter'
    BY <1>1 DEF TxnInv, OneWriter, MayReserve
<1> QED BY <1>1, <1>2 DEF TxnInv

\* Views are databases, of a file that is there.
LEMMA ViewType ==
    ASSUME TxnInv, NEW p \in Procs
    PROVE  /\ View(p) \in Databases
           /\ pc[p] \notin {"off", "new", "old"} => View(p).schema # "absent"
BY DEF TxnInv, TxnTypeOK, TxnOf, View

\* Only its place changes.
LEMMA Moved ==
    ASSUME TxnInv, NEW p \in Procs, NEW to \in Places,
           pc' = [pc EXCEPT ![p] = to], UNCHANGED <<base, status>>,
           calls' \in [Procs -> Nat],
           to \in Within => p \in begun,
           p \in begun => to \in Within \cup {"create", "commit", "rollback"},
           to \in InScript => "transacting" \in status[p],
           to \notin {"files", "deps"},
           to \notin {"off", "new", "old"} => db.schema # "absent"
    PROVE  TxnInv'
<1>1. TxnTypeOK /\ TxnOf(p)
    BY DEF TxnInv
<1>2. TxnTypeOK' /\ pc'[p] = to
    BY <1>1 DEF TxnTypeOK, base, Places
<1>3. TxnOf(p)' /\ (Writing(p)' <=> Writing(p))
    BY <1>1, <1>2 DEF TxnOf, Writing, base
<1>4. \A q \in Procs \ {p} : Kept(q)
    BY <1>1 DEF TxnTypeOK, Kept, base
<1> QED BY <1>2, <1>3, <1>4, OthersTxn DEF base

\* A look at the registry that keeps the place, or reads the version.
LEMMA HasRead ==
    ASSUME TxnInv, NEW p \in Procs, Read(p), UNCHANGED <<begun, status>>,
           calls' \in [Procs -> Nat], pc[p] \in {"idle", "script", "version"},
           pc' = pc \/ (/\ pc[p] = "version"
                        /\ \E to \in {"alter", "altered"} : pc' = [pc EXCEPT ![p] = to])
    PROVE  TxnInv'
<1>1. TxnTypeOK /\ TxnOf(p)
    BY DEF TxnInv
<1>2. TxnTypeOK'
    BY <1>1 DEF TxnTypeOK, Read, Looked, Opening
<1>3. \A q \in Procs \ {p} : Kept(q)
    BY <1>1 DEF TxnTypeOK, Kept, Read, Looked
<1>4. /\ lock'[p] = IF p \in begun /\ lock[p] = "none" THEN "shared" ELSE lock[p]
      /\ db' = db /\ work' = work /\ begun' = begun /\ status' = status
    BY <1>1 DEF TxnTypeOK, Read
<1>5. p \in looked' => p \in looked \/ pc[p] \in Opening \cup InScript
    BY DEF Read, Looked
<1>6. pc'[p] = pc[p] \/ (pc[p] = "version" /\ pc'[p] \in {"alter", "altered"})
    BY <1>1 DEF TxnTypeOK
<1>7. Writing(p)' <=> Writing(p)
    BY <1>4 DEF Writing
<1>8. ASSUME p \in looked' PROVE lock'[p] # "none"
    <2>1. CASE p \in looked
        BY <1>1, <1>4, <2>1 DEF TxnOf
    <2>2. CASE p \notin looked
        <3>1. pc[p] \in {"script", "version"}
            BY <1>5, <1>8, <2>2 DEF Opening, InScript
        <3> QED BY <1>1, <1>4, <3>1 DEF TxnOf, Within
    <2> QED BY <2>1, <2>2
<1>9. TxnOf(p)'
    BY <1>1, <1>4, <1>6, <1>7, <1>8 DEF TxnOf, Within, InScript
<1> QED BY <1>2, <1>3, <1>4, <1>7, <1>9, OthersTxn

\* A change within a transaction, and the step it belongs to.
LEMMA HasWritten ==
    ASSUME TxnInv, NEW p \in Procs, p \in begun,
           NEW new \in Databases, new.schema # "absent",
           Write(p, new), UNCHANGED begun, calls' \in [Procs -> Nat],
           NEW to \in Within, pc' = [pc EXCEPT ![p] = to],
           to \in InScript => "transacting" \in status[p], UNCHANGED status
    PROVE  /\ TxnInv' /\ db' = db /\ Writing(p)'
           /\ work' = [work EXCEPT ![p] = new]
           /\ looked' \in {looked, looked \cup {p}}
           /\ \A q \in Procs \ {p} : Kept(q)
<1>1. TxnTypeOK /\ TxnOf(p)
    BY DEF TxnInv
<1>2. /\ lock' = IF Writing(p) THEN lock ELSE [lock EXCEPT ![p] = "reserved"]
      /\ MayReserve(p) /\ db' = db /\ work' = [work EXCEPT ![p] = new]
    BY DEF Write
<1>3. TxnTypeOK'
    BY <1>1, <1>2 DEF TxnTypeOK, Write, Looked, Within, Opening, InScript
<1>4. \A q \in Procs \ {p} : Kept(q)
    BY <1>1, <1>2 DEF TxnTypeOK, Kept, Write, Looked
<1>5. Writing(p)' /\ work'[p] = new /\ pc'[p] = to
    BY <1>1, <1>2 DEF TxnTypeOK, Writing
<1>6. db.schema # "absent"
    BY <1>1 DEF TxnOf, Within
<1>7. TxnOf(p)'
    BY <1>1, <1>2, <1>5, <1>6 DEF TxnOf, Writing, Within
<1>8. TxnInv'
    BY <1>2, <1>3, <1>4, <1>7, OthersTxn
<1> QED BY <1>2, <1>4, <1>5, <1>8 DEF Write, Looked

\* The end of a transaction, in the step it belongs to.
LEMMA HasUnlocked ==
    ASSUME TxnInv, NEW p \in Procs, Unlocked(p),
           db' \in Databases, db.schema # "absent" => db'.schema # "absent",
           NEW to \in Places \ Within, pc' = [pc EXCEPT ![p] = to],
           to \notin {"off", "new", "old"} => db.schema # "absent",
           NEW flags \in SUBSET {"attached", "transacting", "can_write"},
           status' = [status EXCEPT ![p] = flags], UNCHANGED calls
    PROVE  TxnInv' /\ \A q \in Procs \ {p} : Kept(q)
<1>1. TxnTypeOK /\ TxnOf(p)
    BY DEF TxnInv
<1>2. Blank("absent") \in Databases
    BY TxnAssumption DEF Blank, Databases, Schemas, Ids
<1>3. TxnTypeOK' /\ lock'[p] = "none" /\ pc'[p] = to
    BY <1>1, <1>2 DEF TxnTypeOK, Unlocked, Places
<1>4. \A q \in Procs \ {p} : Kept(q)
    BY <1>1 DEF TxnTypeOK, Kept, Unlocked
<1>5. ~Writing(p)' /\ p \notin begun' /\ p \notin looked'
    BY <1>3 DEF Writing, Unlocked
<1>6. TxnOf(p)'
    BY <1>3, <1>5 DEF TxnOf, Within, InScript
<1>7. TxnInv'
    BY <1>3, <1>4, <1>5, <1>6, OthersTxn
<1> QED BY <1>4, <1>7

\* COMMIT hands over what was written, or what is there.
LEMMA CommitsView ==
    ASSUME TxnInv, NEW p \in Procs, Committed(p)
    PROVE  /\ db' \in Databases /\ Unlocked(p)
           /\ db.schema # "absent" => db'.schema # "absent"
           /\ db' # db => Writing(p) /\ MayFinish(p)
BY ViewType DEF Committed, View, TxnInv, TxnOf

\* A COMMIT that is busy keeps all but the lock, which still is one to write.
LEMMA HasWaited ==
    ASSUME TxnInv, NEW p \in Procs, CommitBusy(p), UNCHANGED <<pc, status, calls>>
    PROVE  TxnInv'
<1>1. TxnTypeOK /\ TxnOf(p)
    BY DEF TxnInv
<1>2. TxnTypeOK' /\ lock[p] = "reserved" /\ lock'[p] = "pending"
    BY <1>1 DEF TxnTypeOK, CommitBusy
<1>3. TxnOf(p)' /\ Writing(p)
    BY <1>1, <1>2 DEF TxnOf, Writing, CommitBusy
<1>4. \A q \in Procs \ {p} : Kept(q)
    BY <1>1 DEF TxnTypeOK, Kept, CommitBusy
<1> QED BY <1>2, <1>3, <1>4, OthersTxn DEF CommitBusy

-----------------------------------------------------------------------------
\* To the others, a step of p changes what p has looked at, or the database
\* while none of them is looking.
Maps(p) ==
    \/ db' = db /\ looked' \in {looked, looked \cup {p}, looked \ {p}}
    \/ looked' = looked \ {p} /\ \A q \in Procs \ {p} : q \notin looked

\* Who has looked keeps a COMMIT of another process waiting.
LEMMA EndMaps ==
    ASSUME TxnInv, NEW p \in Procs, Committed(p) \/ RolledBack(p)
    PROVE  Maps(p)
<1>1. looked' = looked \ {p}
    BY DEF Committed, RolledBack, Unlocked
<1>2. CASE db' = db
    BY <1>1, <1>2 DEF Maps
<1>3. CASE db' # db
    <2>1. \A q \in Procs \ {p} : lock[q] = "none"
        BY <1>3, CommitsView DEF RolledBack, MayFinish
    <2>2. \A q \in Procs \ {p} : q \notin looked
        BY <2>1 DEF TxnInv, TxnOf
    <2> QED BY <1>1, <2>2 DEF Maps
<1> QED BY <1>2, <1>3

LEMMA OpenTxn ==
    ASSUME TxnInv, NEW p \in Procs, Open(p)
    PROVE  TxnInv' /\ Maps(p)
<1>1. TxnTypeOK /\ TxnOf(p)
    BY DEF TxnInv
<1>2. CASE Stat(p)
    <2>1. calls' \in [Procs -> Nat]
        BY <1>1, <1>2 DEF Stat, TxnTypeOK
    <2>2. PICK to \in {"new", "old"} : pc' = [pc EXCEPT ![p] = to]
        BY <1>2 DEF Stat
    <2>3. p \notin begun /\ UNCHANGED <<base, status>>
        BY <1>1, <1>2 DEF Stat, TxnOf, Within
    <2>4. to \in Places /\ to \notin Within /\ to \notin InScript
        BY <2>2 DEF Places, Opening, Within, InScript
    <2>5. TxnInv'
        BY <2>1, <2>2, <2>3, <2>4, Moved
    <2> QED BY <2>3, <2>5 DEF Maps, base
<1>3. CASE Attach(p)
    <2>1. Blank("empty") \in Databases /\ Blank("empty").schema = "empty"
        BY TxnAssumption DEF Blank, Databases, Schemas, Ids
    <2>2. PICK to \in {"create", "update"} : pc' = [pc EXCEPT ![p] = to]
        BY <1>3 DEF Attach, At
    <2>3. p \notin begun /\ pc[p] \in {"new", "old"}
        BY <1>1, <1>3 DEF Attach, At, TxnOf, Within
    <2>4. TxnTypeOK' /\ db'.schema # "absent" /\ pc'[p] = to
        BY <1>1, <1>3, <2>1, <2>2 DEF Attach, TxnTypeOK, Opening
    <2>5. \A q \in Procs \ {p} : Kept(q)
        BY <1>1, <1>3, <2>2 DEF Attach, TxnTypeOK, Kept
    <2>6. TxnOf(p)' /\ (Writing(p)' <=> Writing(p))
        BY <1>1, <1>3, <2>2, <2>3, <2>4 DEF Attach, TxnOf, Within, InScript, Writing
    <2>7. TxnInv'
        BY <2>4, <2>5, <2>6, OthersTxn
    <2>8. ASSUME db' # db PROVE \A q \in Procs : q \notin looked
        <3>1. db.schema = "absent"
            BY <1>3, <2>8 DEF Attach
        <3>2. \A q \in Procs : pc[q] \in {"off", "new", "old"}
            BY <3>1 DEF TxnInv, TxnOf
        <3> QED BY <3>2 DEF TxnInv, TxnOf, Within
    <2>9. looked' = looked
        BY <1>3 DEF Attach
    <2> QED BY <2>7, <2>8, <2>9 DEF Maps
<1>4. CASE CreateBegin(p)
    <2>1. TxnTypeOK' /\ \A q \in Procs \ {p} : Kept(q)
        BY <1>1, <1>4 DEF CreateBegin, TxnTypeOK, Kept
    <2>2. TxnOf(p)' /\ (Writing(p)' <=> Writing(p))
        BY <1>1, <1>4 DEF CreateBegin, TxnOf, Within, InScript, Writing
    <2>3. TxnInv'
        BY <1>4, <2>1, <2>2, OthersTxn DEF CreateBegin
    <2> QED BY <1>4, <2>3 DEF CreateBegin, Maps
<1>5. ASSUME CreateTables(p) \/ AlterTables(p) PROVE TxnInv' /\ Maps(p)
    <2>1. p \in begun /\ pc[p] \notin {"off", "new", "old"}
        BY <1>1, <1>5 DEF CreateTables, AlterTables, At, TxnOf, Within
    <2>2. PICK to \in {"created", "altered"} : pc' = [pc EXCEPT ![p] = to]
        BY <1>5 DEF CreateTables, AlterTables, At
    <2>3. /\ [View(p) EXCEPT !.schema = "1.1"] \in Databases
          /\ [View(p) EXCEPT !.schema = "1.1"].schema # "absent"
        BY ViewType DEF Databases, Schemas
    <2>4. to \in Within /\ to \notin InScript /\ calls' \in [Procs -> Nat]
        BY <1>1, <1>5, <2>2
        DEF Within, InScript, CreateTables, AlterTables, TxnTypeOK
    <2>5. TxnInv' /\ db' = db /\ looked' \in {looked, looked \cup {p}}
        BY <1>5, <2>1, <2>2, <2>3, <2>4, HasWritten DEF CreateTables, AlterTables
    <2> QED BY <2>5 DEF Maps
<1>6. CASE UpdateBegin(p)
    <2>1. TxnTypeOK' /\ pc'[p] = "version" /\ pc[p] = "update"
        BY <1>1, <1>6 DEF UpdateBegin, At, TxnTypeOK, Opening
    <2>2. \A q \in Procs \ {p} : Kept(q)
        BY <1>1, <1>6 DEF UpdateBegin, At, TxnTypeOK, Kept
    <2>3. p \in begun' /\ p \notin begun
        BY <1>1, <1>6, <2>1 DEF UpdateBegin, TxnOf, Within
    <2>4. TxnOf(p)' /\ (Writing(p)' <=> Writing(p))
        BY <1>1, <1>6, <2>1, <2>3 DEF UpdateBegin, TxnOf, Within, InScript, Writing
    <2>5. TxnInv'
        BY <1>6, <2>1, <2>2, <2>4, OthersTxn DEF UpdateBegin
    <2> QED BY <1>6, <2>5 DEF UpdateBegin, Maps
<1>7. CASE ReadVersion(p)
    <2>1. TxnInv'
        BY <1>1, <1>7, HasRead DEF ReadVersion, TxnTypeOK
    <2> QED BY <1>7, <2>1 DEF ReadVersion, Read, Looked, Maps
<1>8. CASE OpenCommit(p)
    <2>1. CASE CommitBusy(p) /\ UNCHANGED pc
        BY <1>8, <2>1, HasWaited DEF OpenCommit, CommitBusy, Maps
    <2>2. CASE ~(CommitBusy(p) /\ UNCHANGED pc)
        <3>1. Committed(p) /\ UNCHANGED <<status, calls>>
            BY <1>8, <2>2 DEF OpenCommit
        <3>2. PICK to \in {"update", "again", "idle"} : pc' = [pc EXCEPT ![p] = to]
            <4>1. pc' = [pc EXCEPT ![p] = IF pc[p] = "created" THEN "update"
                                          ELSE IF Writing(p) THEN "again" ELSE "idle"]
                BY <1>8, <2>2 DEF OpenCommit
            <4> QED BY <4>1
        <3>3. to \in Places \ Within /\ pc[p] \notin {"off", "new", "old"}
            BY <1>8, <3>2 DEF Places, Within, Opening, InScript, OpenCommit
        <3>4. db.schema # "absent"
            BY <1>1, <3>3 DEF TxnOf
        <3>5. /\ status' = [status EXCEPT ![p] = status[p]]
              /\ status[p] \in SUBSET {"attached", "transacting", "can_write"}
            BY <1>1, <3>1 DEF TxnTypeOK
        <3>6. TxnInv'
            BY <3>1, <3>2, <3>3, <3>4, <3>5, CommitsView, HasUnlocked
        <3> QED BY <3>1, <3>6, EndMaps
    <2> QED BY <2>1, <2>2
<1>9. CASE LookAgain(p)
    <2>1. /\ pc[p] = "again" /\ pc' = [pc EXCEPT ![p] = "idle"]
          /\ UNCHANGED <<base, status>> /\ calls' \in [Procs -> Nat]
        BY <1>1, <1>9 DEF LookAgain, At, TxnTypeOK
    <2>2. p \notin begun /\ db.schema # "absent"
        BY <1>1, <2>1 DEF TxnOf, Within
    <2>3. TxnInv'
        BY <2>1, <2>2, Moved DEF Places, Within, InScript
    <2> QED BY <2>1, <2>3 DEF Maps, base
<1> QED BY <1>2, <1>3, <1>4, <1>5, <1>6, <1>7, <1>8, <1>9 DEF Open

\* A process that ends leaves no transaction.
LEMMA GoneTxn ==
    ASSUME TxnInv, NEW p \in Procs, Gone(p)
    PROVE  TxnInv' /\ Maps(p)
<1>1. db' \in Databases /\ db' = db /\ Unlocked(p)
    BY DEF Gone, RolledBack, TxnInv, TxnTypeOK
<1>2. "off" \in Places \ Within
    BY DEF Places, Within, Opening, InScript
<1>3. TxnInv'
    BY <1>1, <1>2, HasUnlocked DEF Gone
<1> QED BY <1>3, EndMaps DEF Gone

\* A call that is answered from the heap alone.
LEMMA CalledTxn ==
    ASSUME TxnInv, NEW p \in Procs, UNCHANGED <<base, status, pc>>,
           calls' \in [Procs -> Nat]
    PROVE  TxnInv' /\ Maps(p)
<1>1. TxnInv'
    BY DEF TxnInv, TxnTypeOK, TxnOf, OneWriter, Writing, base
<1> QED BY <1>1 DEF Maps, base

\* Outside "alone", whoever deletes an entry has a transaction.
LEMMA ScriptTxn ==
    ASSUME TxnInv, Scripted, NEW p \in Procs,
           Create(p) \/ Find(p) \/ Close(p) \/ Delete(p) \/ DeleteFiles(p)
           \/ DeleteDeps(p) \/ ScriptEnds(p) \/ StatementFails(p)
    PROVE  TxnInv' /\ Maps(p)
<1>1. TxnTypeOK /\ TxnOf(p)
    BY DEF TxnInv
<1>2. CASE Create(p)
    <2>1. pc[p] = "script" /\ p \in begun
        BY <1>1, <1>2 DEF Create, TxnOf, Within
    <2>2. PICK new \in Databases : Write(p, new) /\ new.schema = View(p).schema
        <3>1. View(p).next \in Ids
            BY <1>2 DEF Create
        <3> DEFINE i == View(p).next
                   new == [View(p) EXCEPT !.ports = @ \cup {i}, !.next = i + 1,
                                          !.files = @ \cup {i}, !.deps = @ \cup {i}]
        <3>2. Write(p, new)
            BY <1>2 DEF Create
        <3>3. i + 1 \in 1..(MaxId + 1)
            BY <3>1, TxnAssumption DEF Ids
        <3>4. new \in Databases /\ new.schema = View(p).schema
            BY <3>1, <3>3, ViewType DEF Databases
        <3> QED BY <3>2, <3>4
    <2>3. new.schema # "absent"
        BY <2>1, <2>2, ViewType
    <2>4. pc' = [pc EXCEPT ![p] = "script"] /\ UNCHANGED <<begun, status>>
        BY <1>1, <1>2, <2>1 DEF Create, Quiet, TxnTypeOK
    <2>5. "script" \in Within /\ "transacting" \in status[p]
        BY <1>1, <2>1 DEF Within, TxnOf, InScript
    <2>6. calls' \in [Procs -> Nat]
        BY <1>1, <1>2 DEF Create, Call, TxnTypeOK
    <2>7. TxnInv' /\ db' = db /\ looked' \in {looked, looked \cup {p}}
        BY <2>1, <2>2, <2>3, <2>4, <2>5, <2>6, HasWritten
    <2> QED BY <2>7 DEF Maps
<1>3. CASE Find(p)
    <2>1. Read(p) /\ UNCHANGED <<begun, status, pc>> /\ pc[p] \in {"idle", "script"}
        BY <1>3 DEF Find, Quiet, Call
    <2>2. calls' \in [Procs -> Nat]
        <3>1. Call(p)
            BY <1>3 DEF Find
        <3> QED BY <1>1, <3>1 DEF Call, TxnTypeOK
    <2>3. TxnInv'
        BY <2>1, <2>2, HasRead
    <2> QED BY <2>1, <2>3 DEF Read, Looked, Maps
<1>4. CASE Close(p)
    <2>1. UNCHANGED <<db, work, lock, looked, begun, status, pc>>
        BY <1>4 DEF Close, Quiet
    <2>2. calls' \in [Procs -> Nat]
        BY <1>1, <1>4 DEF Close, Call, TxnTypeOK
    <2> QED BY <2>1, <2>2, CalledTxn DEF base
<1>5. CASE Delete(p)
    <2>1. pc[p] = "script" /\ p \in begun
        BY <1>1, <1>5 DEF Delete, Scripted, TxnOf, Within
    <2>2. PICK new \in Databases : Write(p, new) /\ new.schema = View(p).schema
        <3>1. PICK i : Write(p, [View(p) EXCEPT !.ports = @ \ {i}])
            BY <1>5 DEF Delete
        <3>2. /\ [View(p) EXCEPT !.ports = @ \ {i}] \in Databases
              /\ [View(p) EXCEPT !.ports = @ \ {i}].schema = View(p).schema
            BY ViewType DEF Databases
        <3> QED BY <3>1, <3>2
    <2>3. new.schema # "absent"
        BY <2>1, <2>2, ViewType
    <2>4. pc' = [pc EXCEPT ![p] = "files"] /\ UNCHANGED <<begun, status>>
        BY <1>5 DEF Delete
    <2>5. "files" \in Within /\ "transacting" \in status[p]
        BY <1>1, <2>1 DEF Within, TxnOf, InScript
    <2>6. calls' \in [Procs -> Nat]
        <3>1. Call(p)
            BY <1>5 DEF Delete
        <3> QED BY <1>1, <3>1 DEF Call, TxnTypeOK
    <2>7. TxnInv' /\ db' = db /\ looked' \in {looked, looked \cup {p}}
        BY <2>1, <2>2, <2>3, <2>4, <2>5, <2>6, HasWritten
    <2> QED BY <2>7 DEF Maps
<1>6. CASE DeleteFiles(p)
    <2>1. pc[p] = "files" /\ p \in begun /\ pc' = [pc EXCEPT ![p] = "deps"]
        BY <1>1, <1>6 DEF DeleteFiles, At, TxnOf, Within
    <2>2. PICK i : Write(p, [View(p) EXCEPT !.files = @ \ {i}])
        BY <1>6 DEF DeleteFiles
    <2>3. /\ [View(p) EXCEPT !.files = @ \ {i}] \in Databases
          /\ [View(p) EXCEPT !.files = @ \ {i}].schema = View(p).schema
        BY ViewType DEF Databases
    <2>4. View(p).schema # "absent" /\ UNCHANGED <<begun, status, calls>>
        BY <1>6, <2>1, ViewType DEF DeleteFiles
    <2>5. "deps" \in Within /\ "transacting" \in status[p] /\ calls \in [Procs -> Nat]
        BY <1>1, <2>1 DEF Within, TxnOf, InScript, TxnTypeOK
    <2>6. TxnInv' /\ db' = db /\ looked' \in {looked, looked \cup {p}}
        BY <2>1, <2>2, <2>3, <2>4, <2>5, HasWritten
    <2> QED BY <2>6 DEF Maps
<1>7. CASE DeleteDeps(p)
    <2>1. pc[p] = "deps" /\ p \in begun /\ "transacting" \in status[p]
        BY <1>1, <1>7 DEF DeleteDeps, TxnOf, Within, InScript
    <2>2. pc' = [pc EXCEPT ![p] = "script"]
        BY <1>7, <2>1 DEF DeleteDeps, Removed
    <2>3. PICK i : Write(p, [View(p) EXCEPT !.deps = @ \ {i}])
        BY <1>7 DEF DeleteDeps
    <2>4. /\ [View(p) EXCEPT !.deps = @ \ {i}] \in Databases
          /\ [View(p) EXCEPT !.deps = @ \ {i}].schema = View(p).schema
        BY ViewType DEF Databases
    <2>5. View(p).schema # "absent" /\ UNCHANGED <<begun, status, calls>>
        BY <1>7, <2>1, ViewType DEF DeleteDeps
    <2>6. "script" \in Within /\ calls \in [Procs -> Nat]
        BY <1>1 DEF Within, TxnTypeOK
    <2>7. TxnInv' /\ db' = db /\ looked' \in {looked, looked \cup {p}}
        BY <2>1, <2>2, <2>3, <2>4, <2>5, <2>6, HasWritten
    <2> QED BY <2>7 DEF Maps
<1>8. CASE ScriptEnds(p)
    <2>1. /\ pc[p] = "script" /\ UNCHANGED <<base, status>>
          /\ calls' \in [Procs -> Nat]
        BY <1>1, <1>8 DEF ScriptEnds, TxnTypeOK
    <2>2. PICK to \in {"commit", "rollback"} : pc' = [pc EXCEPT ![p] = to]
        BY <1>8 DEF ScriptEnds
    <2>3. p \in begun /\ db.schema # "absent" /\ to \in Places
        BY <1>1, <2>1 DEF TxnOf, Within, Places
    <2>4. to \notin Within /\ to \notin InScript
        BY DEF Within, InScript
    <2>5. TxnInv'
        BY <2>1, <2>2, <2>3, <2>4, Moved DEF InScript
    <2> QED BY <2>1, <2>5 DEF Maps, base
<1>9. CASE StatementFails(p)
    <2>1. RolledBack(p) /\ UNCHANGED <<status, calls>>
        BY <1>9 DEF StatementFails
    <2>2. PICK to \in {"commit", "rollback"} : pc' = [pc EXCEPT ![p] = to]
        <3>1. pc' = [pc EXCEPT ![p] = IF pc[p] = "commit" THEN "commit" ELSE "rollback"]
            BY <1>9 DEF StatementFails
        <3> QED BY <3>1
    <2>3. pc[p] \notin {"off", "new", "old"} /\ to \in Places \ Within
        BY <1>9 DEF StatementFails, InScript, Places, Within
    <2>4. db.schema # "absent"
        BY <1>1, <2>3 DEF TxnOf
    <2>5. /\ status' = [status EXCEPT ![p] = status[p]]
          /\ status[p] \in SUBSET {"attached", "transacting", "can_write"}
          /\ db' \in Databases /\ db' = db /\ Unlocked(p)
        BY <1>1, <2>1 DEF TxnTypeOK, RolledBack
    <2>6. TxnInv'
        BY <2>1, <2>2, <2>3, <2>4, <2>5, HasUnlocked
    <2> QED BY <2>1, <2>6, EndMaps
<1> QED BY <1>2, <1>3, <1>4, <1>5, <1>6, <1>7, <1>8, <1>9

LEMMA EndTxn ==
    ASSUME TxnInv, NEW p \in Procs,
           Begin(p) \/ Started(p) \/ Committing(p) \/ Waiting(p)
           \/ RollingBack(p) \/ EndFailed(p) \/ Detach(p)
    PROVE  TxnInv' /\ Maps(p)
<1>1. TxnTypeOK /\ TxnOf(p)
    BY DEF TxnInv
<1>2. CASE Begin(p)
    <2>1. /\ pc[p] = "idle" /\ UNCHANGED <<base, status>>
          /\ calls' \in [Procs -> Nat]
        BY <1>1, <1>2 DEF Begin, TxnTypeOK
    <2>2. PICK to \in {"read", "write"} : pc' = [pc EXCEPT ![p] = to]
        BY <1>2 DEF Begin
    <2>3. p \notin begun /\ db.schema # "absent"
        BY <1>1, <2>1 DEF TxnOf, Within
    <2>4. to \notin Within /\ to \notin InScript /\ to \in Places
        BY DEF Within, InScript, Places
    <2>5. TxnInv'
        BY <2>1, <2>2, <2>3, <2>4, Moved DEF InScript
    <2> QED BY <2>1, <2>5 DEF Maps, base
<1>3. CASE StartRead(p) /\ UNCHANGED calls
    <2>1. TxnTypeOK'
        BY <1>1, <1>3 DEF StartRead, At, TxnTypeOK, InScript
    <2>2. \A q \in Procs \ {p} : Kept(q)
        BY <1>1, <1>3 DEF StartRead, At, TxnTypeOK, Kept
    <2>3. /\ pc[p] = "read" /\ pc'[p] = "script" /\ "transacting" \in status'[p]
          /\ p \in begun' /\ UNCHANGED <<db, work, lock, looked>>
        BY <1>1, <1>3 DEF StartRead, At, TxnTypeOK
    <2>4. TxnOf(p)' /\ (Writing(p)' <=> Writing(p))
        BY <1>1, <2>3 DEF TxnOf, Within, InScript, Writing
    <2>5. TxnInv'
        BY <2>1, <2>2, <2>3, <2>4, OthersTxn
    <2> QED BY <2>3, <2>5 DEF Maps
<1>4. CASE StartWrite(p) /\ UNCHANGED calls
    <2>1. TxnTypeOK'
        BY <1>1, <1>4 DEF StartWrite, At, TxnTypeOK, InScript
    <2>2. \A q \in Procs \ {p} : Kept(q)
        BY <1>1, <1>4 DEF StartWrite, At, TxnTypeOK, Kept
    <2>3. /\ pc[p] = "write" /\ pc'[p] = "script" /\ "transacting" \in status'[p]
          /\ p \in begun' /\ UNCHANGED <<db, looked>> /\ work'[p] = db
          /\ lock'[p] = "reserved" /\ MayReserve(p)
        BY <1>1, <1>4 DEF StartWrite, At, TxnTypeOK
    <2>4. TxnOf(p)'
        BY <1>1, <2>3 DEF TxnOf, Within, InScript, Writing
    <2>5. TxnInv'
        BY <2>1, <2>2, <2>3, <2>4, OthersTxn
    <2> QED BY <2>3, <2>5 DEF Maps
<1>5. CASE Refused(p) /\ UNCHANGED calls
    <2>1. /\ pc[p] \in {"read", "write"} /\ pc' = [pc EXCEPT ![p] = "idle"]
          /\ UNCHANGED <<base, status>> /\ calls' \in [Procs -> Nat]
        BY <1>1, <1>5 DEF Refused, TxnTypeOK
    <2>2. p \notin begun /\ db.schema # "absent"
        BY <1>1, <2>1 DEF TxnOf, Within
    <2>3. TxnInv'
        BY <2>1, <2>2, Moved DEF Within, InScript, Places
    <2> QED BY <2>1, <2>3 DEF Maps, base
<1>6. ASSUME Committing(p) \/ RollingBack(p) PROVE TxnInv' /\ Maps(p)
    <2>1. Committed(p) \/ RolledBack(p)
        BY <1>6 DEF Committing, Commit, RollingBack, Rollback
    <2>2. /\ db' \in Databases /\ Unlocked(p)
          /\ db.schema # "absent" => db'.schema # "absent"
        BY <1>1, <2>1, CommitsView DEF RolledBack, TxnTypeOK
    <2>3. /\ pc[p] \in {"commit", "rollback"} /\ pc' = [pc EXCEPT ![p] = "idle"]
          /\ UNCHANGED calls
          /\ status' = [status EXCEPT ![p] = status[p] \ {"transacting", "can_write"}]
        BY <1>6 DEF Committing, Commit, RollingBack, Rollback, At, Ended
    <2>4. /\ status[p] \ {"transacting", "can_write"}
                \in SUBSET {"attached", "transacting", "can_write"}
          /\ db.schema # "absent" /\ "idle" \in Places \ Within
        BY <1>1, <2>3 DEF TxnTypeOK, TxnOf, Places, Within, Opening, InScript
    <2>5. TxnInv'
        BY <2>2, <2>3, <2>4, HasUnlocked
    <2> QED BY <2>1, <2>5, EndMaps
<1>7. CASE Waiting(p)
    <2>1. CommitBusy(p) /\ UNCHANGED <<pc, status, calls>>
        BY <1>7 DEF Waiting, Wait
    <2> QED BY <2>1, HasWaited DEF CommitBusy, Maps
<1>8. CASE EndFailed(p)
    <2>1. /\ pc[p] \in {"commit", "rollback"} /\ pc' = [pc EXCEPT ![p] = "idle"]
          /\ UNCHANGED <<base, status>> /\ calls' \in [Procs -> Nat]
          /\ p \notin begun
        BY <1>1, <1>8 DEF EndFailed, EndFails, TxnTypeOK
    <2>2. db.schema # "absent"
        BY <1>1, <2>1 DEF TxnOf
    <2>3. TxnInv'
        BY <2>1, <2>2, Moved DEF Within, InScript, Places
    <2> QED BY <2>1, <2>3 DEF Maps, base
<1>9. CASE Detach(p)
    <2>1. /\ pc[p] = "idle" /\ pc' = [pc EXCEPT ![p] = "off"]
          /\ UNCHANGED <<base, calls>> /\ status' = [status EXCEPT ![p] = {}]
        BY <1>9 DEF Detach
    <2>2. p \notin begun
        BY <1>1, <2>1 DEF TxnOf, Within
    <2>3. TxnTypeOK' /\ \A q \in Procs \ {p} : Kept(q)
        BY <1>1, <2>1 DEF TxnTypeOK, Kept, base
    <2>4. TxnOf(p)' /\ (Writing(p)' <=> Writing(p))
        BY <1>1, <2>1, <2>2 DEF TxnTypeOK, TxnOf, Within, InScript, Writing, base
    <2>5. TxnInv'
        BY <2>1, <2>3, <2>4, OthersTxn DEF base
    <2> QED BY <2>1, <2>5 DEF Maps, base
<1> QED BY <1>2, <1>3, <1>4, <1>5, <1>6, <1>7, <1>8, <1>9 DEF Started

LEMMA InitTxn == ASSUME Init PROVE TxnInv
<1>1. Blank("absent") \in Databases /\ \A s \in Found : Blank(s) \in Databases
    BY TxnAssumption DEF Blank, Databases, Schemas, Ids
<1>2. TxnTypeOK
    BY <1>1, TxnAssumption DEF Init, TxnTypeOK
<1>3. \A p \in Procs : TxnOf(p) /\ ~Writing(p)
    BY DEF Init, TxnOf, Writing, Within, InScript
<1> QED BY <1>2, <1>3 DEF TxnInv, OneWriter

LEMMA NextTxn ==
    ASSUME TxnInv, Scripted, [Next]_vars
    PROVE  TxnInv' /\ (UNCHANGED <<db, looked>> \/ \E p \in Procs : Maps(p))
<1>1. CASE UNCHANGED vars
    <2>1. UNCHANGED txnVars
        BY <1>1 DEF vars
    <2>2. TxnInv'
        BY <2>1 DEF TxnInv, TxnTypeOK, TxnOf, OneWriter, Writing, txnVars, base
    <2> QED BY <2>1, <2>2 DEF txnVars, base
<1>2. ASSUME NEW p \in Procs, Step(p) PROVE TxnInv' /\ Maps(p)
    BY <1>2, OpenTxn, GoneTxn, ScriptTxn, EndTxn
    DEF Step, CannotOpen, Kill, Crash, Proceed
<1> QED BY <1>1, <1>2 DEF Next

\* Every transaction, whatever is interrupted in it, looks to the others like
\* one that replaces the registry as a whole, if scripts delete in one.
THEOREM RefinementCorrect == ASSUME Scripted PROVE Spec => ImplementsAtomicRegistry
<1> DEFINE seen == [p \in Procs |-> IF p \in looked THEN db ELSE Blank("absent")]
<1>1. Init => Atomic!Init
    BY DEF Init, Atomic!Init
<1>2. TxnInv /\ [Next]_vars => [Atomic!Next]_<<db, seen>>
    <2> SUFFICES ASSUME TxnInv, [Next]_vars PROVE [Atomic!Next]_<<db, seen>>
        OBVIOUS
    <2>1. CASE UNCHANGED <<db, looked>>
        BY <2>1
    <2>2. ASSUME NEW p \in Procs, Maps(p) PROVE [Atomic!Next]_<<db, seen>>
        <3>1. CASE db' = db /\ looked' = looked
            BY <3>1
        <3>2. CASE db' = db /\ looked' = looked \cup {p} /\ p \notin looked
            <4>1. seen[p] = Blank("absent") /\ seen' = [seen EXCEPT ![p] = db]
                BY <3>2
            <4> QED BY <3>2, <4>1 DEF Atomic!Next, Atomic!Look
        <3>3. CASE db' = db /\ looked' = looked \ {p}
            <4>1. seen' = [seen EXCEPT ![p] = Blank("absent")]
                BY <3>3
            <4> QED BY <3>3, <4>1 DEF Atomic!Next, Atomic!Forget
        <3>4. CASE db' # db /\ looked' = looked \ {p} /\ \A q \in Procs \ {p} : q \notin looked
            <4>1. seen' = [seen EXCEPT ![p] = Blank("absent")]
                BY <3>4
            <4>2. seen[p] \in {Blank("absent"), db}
                OBVIOUS
            <4> QED BY <3>4, <4>1, <4>2 DEF Atomic!Next, Atomic!Publish
        <3> QED BY <2>2, <3>1, <3>2, <3>3, <3>4 DEF Maps
    <2> QED BY <2>1, <2>2, NextTxn
<1>3. Init => TxnInv
    BY InitTxn
<1>4. TxnInv /\ [Next]_vars => TxnInv'
    BY NextTxn
<1> QED BY <1>1, <1>2, <1>3, <1>4, PTL DEF Spec, ImplementsAtomicRegistry, Atomic!Spec

-----------------------------------------------------------------------------
(* The rows of files and dependencies.                                     *)

LEMMA StepKept ==
    ASSUME TxnInv, NEW p \in Procs, Step(p)
    PROVE  \A q \in Procs \ {p} : Kept(q)
<1>1. TxnTypeOK
    BY DEF TxnInv
<1>2. ASSUME Stat(p) PROVE \A q \in Procs \ {p} : Kept(q)
    BY <1>1, <1>2 DEF Stat, base, Kept, TxnTypeOK
<1>3. ASSUME Attach(p) PROVE \A q \in Procs \ {p} : Kept(q)
    BY <1>1, <1>3 DEF Attach, At, Kept, TxnTypeOK
<1>4. ASSUME CreateBegin(p) PROVE \A q \in Procs \ {p} : Kept(q)
    BY <1>1, <1>4 DEF CreateBegin, Kept, TxnTypeOK
<1>5. ASSUME CreateTables(p) PROVE \A q \in Procs \ {p} : Kept(q)
    BY <1>1, <1>5 DEF CreateTables, At, Write, Looked, Kept, TxnTypeOK
<1>6. ASSUME UpdateBegin(p) PROVE \A q \in Procs \ {p} : Kept(q)
    BY <1>1, <1>6 DEF UpdateBegin, At, Kept, TxnTypeOK
<1>7. ASSUME ReadVersion(p) PROVE \A q \in Procs \ {p} : Kept(q)
    BY <1>1, <1>7 DEF ReadVersion, Read, Looked, Kept, TxnTypeOK
<1>8. ASSUME AlterTables(p) PROVE \A q \in Procs \ {p} : Kept(q)
    BY <1>1, <1>8 DEF AlterTables, At, Write, Looked, Kept, TxnTypeOK
<1>9. ASSUME OpenCommit(p) PROVE \A q \in Procs \ {p} : Kept(q)
    BY <1>1, <1>9 DEF OpenCommit, Committed, CommitBusy, Unlocked, Kept, TxnTypeOK
<1>10. ASSUME LookAgain(p) PROVE \A q \in Procs \ {p} : Kept(q)
    BY <1>1, <1>10 DEF LookAgain, At, base, Kept, TxnTypeOK
<1>11. ASSUME Begin(p) PROVE \A q \in Procs \ {p} : Kept(q)
    BY <1>1, <1>11 DEF Begin, base, Kept, TxnTypeOK
<1>12. ASSUME StartRead(p) PROVE \A q \in Procs \ {p} : Kept(q)
    BY <1>1, <1>12 DEF StartRead, At, Kept, TxnTypeOK
<1>13. ASSUME StartWrite(p) PROVE \A q \in Procs \ {p} : Kept(q)
    BY <1>1, <1>13 DEF StartWrite, At, Kept, TxnTypeOK
<1>14. ASSUME Refused(p) PROVE \A q \in Procs \ {p} : Kept(q)
    BY <1>1, <1>14 DEF Refused, base, Kept, TxnTypeOK
<1>15. ASSUME Create(p) PROVE \A q \in Procs \ {p} : Kept(q)
    BY <1>1, <1>15 DEF Create, Write, Looked, Quiet, Call, Kept, TxnTypeOK
<1>16. ASSUME Find(p) PROVE \A q \in Procs \ {p} : Kept(q)
    BY <1>1, <1>16 DEF Find, Read, Looked, Quiet, Call, Kept, TxnTypeOK
<1>17. ASSUME Close(p) PROVE \A q \in Procs \ {p} : Kept(q)
    BY <1>1, <1>17 DEF Close, Quiet, Call, Kept, TxnTypeOK
<1>18. ASSUME Delete(p) PROVE \A q \in Procs \ {p} : Kept(q)
    BY <1>1, <1>18 DEF Delete, Write, Looked, Kept, TxnTypeOK
<1>19. ASSUME DeleteFiles(p) PROVE \A q \in Procs \ {p} : Kept(q)
    BY <1>1, <1>19 DEF DeleteFiles, At, Write, Looked, Kept, TxnTypeOK
<1>20. ASSUME DeleteDeps(p) PROVE \A q \in Procs \ {p} : Kept(q)
    BY <1>1, <1>20 DEF DeleteDeps, Removed, Write, Looked, Kept, TxnTypeOK
<1>21. ASSUME ScriptEnds(p) PROVE \A q \in Procs \ {p} : Kept(q)
    BY <1>1, <1>21 DEF ScriptEnds, base, Kept, TxnTypeOK
<1>22. ASSUME StatementFails(p) PROVE \A q \in Procs \ {p} : Kept(q)
    BY <1>1, <1>22 DEF StatementFails, RolledBack, Unlocked, Kept, TxnTypeOK
<1>23. ASSUME Committing(p) PROVE \A q \in Procs \ {p} : Kept(q)
    BY <1>1, <1>23 DEF Committing, Commit, At, Committed, Unlocked, Ended, Kept, TxnTypeOK
<1>24. ASSUME Waiting(p) PROVE \A q \in Procs \ {p} : Kept(q)
    BY <1>1, <1>24 DEF Waiting, Wait, CommitBusy, Kept, TxnTypeOK
<1>25. ASSUME RollingBack(p) PROVE \A q \in Procs \ {p} : Kept(q)
    BY <1>1, <1>25 DEF RollingBack, Rollback, At, RolledBack, Unlocked, Ended, Kept, TxnTypeOK
<1>26. ASSUME EndFailed(p) PROVE \A q \in Procs \ {p} : Kept(q)
    BY <1>1, <1>26 DEF EndFailed, EndFails, base, Kept, TxnTypeOK
<1>27. ASSUME Detach(p) PROVE \A q \in Procs \ {p} : Kept(q)
    BY <1>1, <1>27 DEF Detach, base, Kept, TxnTypeOK
<1>28. ASSUME Gone(p) PROVE \A q \in Procs \ {p} : Kept(q)
    BY <1>1, <1>28 DEF Gone, RolledBack, Unlocked, Kept, TxnTypeOK
<1> QED
    BY <1>2, <1>3, <1>4, <1>5, <1>6, <1>7, <1>8, <1>9, <1>10, <1>11, <1>12, <1>13, <1>14, <1>15, <1>16, <1>17, <1>18, <1>19, <1>20, <1>21, <1>22, <1>23, <1>24, <1>25, <1>26, <1>27, <1>28
    DEF Step, Open, CannotOpen, Kill, Crash, Proceed, Started

LEMMA StepObjects ==
    ASSUME NEW p \in Procs, Step(p)
    PROVE  /\ heap' = heap \/ \E a : heap' = [heap EXCEPT ![p] = a]
           /\ victim' = victim \/ \E b : victim' = [victim EXCEPT ![p] = b]
<1>1. CASE Open(p) \/ Begin(p) \/ ScriptEnds(p) \/ Started(p) \/ DeleteFiles(p) \/ Waiting(p)
    BY <1>1 DEF Open, Begin, ScriptEnds, Started, DeleteFiles, Waiting, objVars
<1>2. CASE CannotOpen(p) \/ Kill(p) \/ Crash(p)
    BY <1>2 DEF CannotOpen, Kill, Crash, Gone
<1>3. CASE Create(p)
    BY <1>3 DEF Create, Remember
<1>4. CASE Find(p)
    BY <1>4 DEF Find, Remember
<1>5. CASE Close(p) \/ Delete(p)
    BY <1>5 DEF Close, Delete, Remember
<1>6. CASE DeleteDeps(p)
    BY <1>6 DEF DeleteDeps, Removed, Remember
<1>7. CASE StatementFails(p)
    BY <1>7 DEF StatementFails
<1>8. CASE Committing(p) \/ RollingBack(p) \/ EndFailed(p)
    BY <1>8 DEF Committing, RollingBack, EndFailed, GiveBack, Remember
<1>9. CASE Detach(p)
    BY <1>9 DEF Detach, Remember
<1> QED
    BY <1>1, <1>2, <1>3, <1>4, <1>5, <1>6, <1>7, <1>8, <1>9 DEF Step, Proceed

Whole(d) == d.files = d.ports /\ d.deps = d.ports

\* The entry whose rows a process is deleting.
Victim(p) == heap[p][victim[p]].id

\* In what a process is writing, only the rows of the entry it is deleting
\* may be ahead of those of ports.
RowsOf(p) == Writing(p) =>
    /\ pc[p] \notin {"files", "deps"} => Whole(work[p])
    /\ pc[p] = "files" => /\ work[p].files = work[p].deps
                          /\ work[p].files \ {Victim(p)} = work[p].ports
    /\ pc[p] = "deps" => /\ work[p].files = work[p].ports
                         /\ work[p].deps \ {Victim(p)} = work[p].ports

RowsInv ==
    /\ DOMAIN heap = Procs /\ DOMAIN victim = Procs
    /\ Whole(db) /\ \A p \in Procs : RowsOf(p)

LEMMA OthersRows ==
    ASSUME TxnInv, RowsInv, NEW p \in Procs, Step(p), Whole(db'), RowsOf(p)'
    PROVE  RowsInv'
<1>1. DOMAIN heap' = Procs /\ DOMAIN victim' = Procs
    BY StepObjects DEF RowsInv
<1>2. ASSUME NEW q \in Procs \ {p} PROVE RowsOf(q)'
    <2>1. Kept(q) /\ RowsOf(q)
        BY <1>2, StepKept DEF RowsInv
    <2>2. heap'[q] = heap[q] /\ victim'[q] = victim[q]
        BY <1>2, StepObjects DEF RowsInv
    <2> QED BY <2>1, <2>2 DEF Kept, RowsOf, Writing, Victim
<1> QED BY <1>1, <1>2 DEF RowsInv

\* Before and after a step that writes nothing, what it may write is whole.
LEMMA IdleRows ==
    ASSUME TxnInv, RowsInv, NEW p \in Procs, Step(p), UNCHANGED <<db, work>>,
           Writing(p)' => Writing(p), pc[p] \notin {"files", "deps"},
           pc'[p] \notin {"files", "deps"}
    PROVE  RowsInv'
<1>1. RowsOf(p)'
    BY DEF RowsInv, RowsOf
<1> QED BY <1>1, OthersRows DEF RowsInv

LEMMA ViewRows ==
    ASSUME RowsInv, NEW p \in Procs, pc[p] \notin {"files", "deps"}
    PROVE  Whole(View(p))
BY DEF RowsInv, RowsOf, View

LEMMA EndRows ==
    ASSUME TxnInv, RowsInv, NEW p \in Procs, Step(p),
           RolledBack(p) \/ (Committed(p) /\ pc[p] \notin {"files", "deps"})
    PROVE  RowsInv'
<1>1. lock'[p] = "none"
    BY DEF RolledBack, Committed, Unlocked, TxnInv, TxnTypeOK
<1>2. Whole(db')
    BY ViewRows DEF RolledBack, Committed, RowsInv
<1> QED BY <1>1, <1>2, OthersRows DEF RowsOf, Writing

\* What Write leaves, in a transaction.
LEMMA WriteRows ==
    ASSUME TxnInv, NEW p \in Procs, p \in begun, NEW new, Write(p, new)
    PROVE  work'[p] = new /\ db' = db
BY DEF Write, TxnInv, TxnTypeOK

LEMMA OpenRows ==
    ASSUME TxnInv, RowsInv, NEW p \in Procs, Open(p)
    PROVE  RowsInv'
<1>1. TxnTypeOK /\ TxnOf(p) /\ Step(p)
    BY DEF TxnInv, Step
<1>2. CASE Stat(p) \/ CreateBegin(p) \/ UpdateBegin(p) \/ ReadVersion(p) \/ LookAgain(p)
    <2>1. UNCHANGED <<db, work>> /\ pc[p] \notin {"files", "deps"}
        BY <1>2 DEF Stat, CreateBegin, UpdateBegin, ReadVersion, LookAgain, Read, At, base
    <2>2. pc'[p] \notin {"files", "deps"}
        BY <1>1, <1>2, <2>1 DEF Stat, CreateBegin, UpdateBegin, ReadVersion, LookAgain, At, TxnTypeOK
    <2>3. Writing(p)' => Writing(p)
        BY <1>1, <1>2
        DEF Stat, CreateBegin, UpdateBegin, ReadVersion, LookAgain, Read, Writing, TxnTypeOK, base
    <2> QED BY <1>1, <2>1, <2>2, <2>3, IdleRows
<1>3. CASE Attach(p)
    <2>1. Whole(db') /\ UNCHANGED <<work, lock>>
        BY <1>3 DEF Attach, Whole, Blank, RowsInv
    <2>2. pc[p] \notin {"files", "deps"} /\ pc'[p] \notin {"files", "deps"}
        BY <1>1, <1>3 DEF Attach, At, TxnTypeOK
    <2>3. RowsOf(p)'
        BY <2>1, <2>2 DEF RowsInv, RowsOf, Writing
    <2> QED BY <1>1, <2>1, <2>3, OthersRows
<1>4. ASSUME CreateTables(p) \/ AlterTables(p) PROVE RowsInv'
    <2>1. p \in begun /\ pc[p] \notin {"files", "deps"}
        BY <1>1, <1>4 DEF CreateTables, AlterTables, At, TxnOf, Within
    <2>2. Write(p, [View(p) EXCEPT !.schema = "1.1"])
        BY <1>4 DEF CreateTables, AlterTables
    <2>3. work'[p] = [View(p) EXCEPT !.schema = "1.1"] /\ db' = db
        BY <2>1, <2>2, WriteRows
    <2>4. Whole(work'[p])
        BY <2>1, <2>3, ViewRows, ViewType DEF Whole, Databases
    <2>5. pc'[p] \notin {"files", "deps"}
        BY <1>1, <1>4 DEF CreateTables, AlterTables, At, TxnTypeOK
    <2> QED BY <1>1, <2>3, <2>4, <2>5, OthersRows DEF RowsOf, RowsInv
<1>5. CASE OpenCommit(p)
    <2>1. pc[p] \notin {"files", "deps"}
        BY <1>5 DEF OpenCommit
    <2>2. CASE CommitBusy(p) /\ UNCHANGED pc
        <3>1. Writing(p)
            BY <2>2 DEF CommitBusy, Writing
        <3> QED BY <1>1, <2>1, <2>2, <3>1, IdleRows DEF CommitBusy
    <2>3. CASE Committed(p)
        BY <1>1, <2>1, <2>3, EndRows
    <2> QED BY <1>5, <2>2, <2>3 DEF OpenCommit
<1> QED BY <1>2, <1>3, <1>4, <1>5 DEF Open

LEMMA ScriptRows ==
    ASSUME TxnInv, RowsInv, Scripted, NEW p \in Procs,
           Create(p) \/ Delete(p) \/ DeleteFiles(p) \/ DeleteDeps(p)
    PROVE  RowsInv'
<1>1. TxnTypeOK /\ TxnOf(p) /\ Step(p) /\ RowsOf(p)
    BY DEF TxnInv, RowsInv, Step, Proceed
<1>2. View(p) \in Databases
    BY ViewType
<1>3. CASE Create(p)
    <2>1. pc[p] = "script" /\ p \in begun /\ pc' = pc
        BY <1>1, <1>3 DEF Create, TxnOf, Within, Quiet
    <2>2. PICK i : Write(p, [View(p) EXCEPT !.ports = @ \cup {i}, !.next = i + 1,
                                            !.files = @ \cup {i}, !.deps = @ \cup {i}])
        BY <1>3 DEF Create
    <2>3. /\ work'[p] = [View(p) EXCEPT !.ports = @ \cup {i}, !.next = i + 1,
                                        !.files = @ \cup {i}, !.deps = @ \cup {i}]
          /\ db' = db
        BY <2>1, <2>2, WriteRows
    <2>4. Whole(work'[p])
        BY <1>2, <2>1, <2>3, ViewRows DEF Whole, Databases
    <2> QED BY <1>1, <2>1, <2>3, <2>4, OthersRows DEF RowsOf, RowsInv
<1>4. CASE Delete(p)
    <2>1. pc[p] = "script" /\ p \in begun /\ pc'[p] = "files"
        BY <1>1, <1>4 DEF Delete, Scripted, TxnOf, Within, TxnTypeOK
    <2>2. PICK o : /\ Write(p, [View(p) EXCEPT !.ports = @ \ {heap[p][o].id}])
                   /\ victim' = [victim EXCEPT ![p] = o]
        BY <1>4 DEF Delete
    <2>3. Victim(p)' = heap[p][o].id
        BY <1>4, <2>2 DEF Delete, Victim, RowsInv
    <2>4. work'[p] = [View(p) EXCEPT !.ports = @ \ {heap[p][o].id}] /\ db' = db
        BY <2>1, <2>2, WriteRows
    <2>5. work'[p].files = work'[p].deps /\ work'[p].files \ {Victim(p)'} = work'[p].ports
        BY <1>2, <2>1, <2>3, <2>4, ViewRows DEF Whole, Databases
    <2>6. RowsOf(p)'
        BY <2>1, <2>5 DEF RowsOf
    <2> QED BY <1>1, <2>4, <2>6, OthersRows DEF RowsInv
<1>5. CASE DeleteFiles(p)
    <2>1. /\ pc[p] = "files" /\ p \in begun /\ pc'[p] = "deps" /\ Writing(p)
          /\ Victim(p)' = Victim(p)
        BY <1>1, <1>5
        DEF DeleteFiles, At, TxnOf, Within, TxnTypeOK, Victim, objVars
    <2>2. Write(p, [View(p) EXCEPT !.files = @ \ {Victim(p)}])
        BY <1>5 DEF DeleteFiles, Victim
    <2>3. work'[p] = [work[p] EXCEPT !.files = @ \ {Victim(p)}] /\ db' = db
        BY <2>1, <2>2, WriteRows DEF View
    <2>4. work[p].files = work[p].deps /\ work[p].files \ {Victim(p)} = work[p].ports
        BY <1>1, <2>1 DEF RowsOf
    <2>5. /\ work'[p].files = work'[p].ports
          /\ work'[p].deps \ {Victim(p)'} = work'[p].ports
        BY <1>2, <2>1, <2>3, <2>4 DEF View, Databases
    <2>6. RowsOf(p)'
        BY <2>1, <2>5 DEF RowsOf
    <2> QED BY <1>1, <2>3, <2>6, OthersRows DEF RowsInv
<1>6. CASE DeleteDeps(p)
    <2>1. /\ pc[p] = "deps" /\ p \in begun /\ Writing(p)
          /\ pc'[p] \notin {"files", "deps"}
        BY <1>1, <1>6 DEF DeleteDeps, Removed, TxnOf, Within, TxnTypeOK
    <2>2. Write(p, [View(p) EXCEPT !.deps = @ \ {Victim(p)}])
        BY <1>6 DEF DeleteDeps, Victim
    <2>3. work'[p] = [work[p] EXCEPT !.deps = @ \ {Victim(p)}] /\ db' = db
        BY <2>1, <2>2, WriteRows DEF View
    <2>4. work[p].files = work[p].ports /\ work[p].deps \ {Victim(p)} = work[p].ports
        BY <1>1, <2>1 DEF RowsOf
    <2>5. Whole(work'[p])
        BY <1>2, <2>1, <2>3, <2>4 DEF View, Databases, Whole
    <2>6. RowsOf(p)'
        BY <2>1, <2>5 DEF RowsOf
    <2> QED BY <1>1, <2>3, <2>6, OthersRows DEF RowsInv
<1> QED BY <1>3, <1>4, <1>5, <1>6

LEMMA NextRows ==
    ASSUME TxnInv, RowsInv, Scripted, [Next]_vars
    PROVE  RowsInv'
<1>1. CASE UNCHANGED vars
    BY <1>1 DEF vars, txnVars, objVars, base, RowsInv, RowsOf, Whole, Victim, Writing
<1>2. ASSUME NEW p \in Procs, Step(p) PROVE RowsInv'
    <2>1. TxnTypeOK /\ TxnOf(p)
        BY DEF TxnInv
    <2>2. CASE Open(p)
        BY <2>2, OpenRows
    <2>3. CASE Create(p) \/ Delete(p) \/ DeleteFiles(p) \/ DeleteDeps(p)
        BY <2>3, ScriptRows
    <2>4. CASE CannotOpen(p) \/ Kill(p) \/ Crash(p) \/ StatementFails(p) \/ RollingBack(p)
        BY <1>2, <2>4, EndRows
        DEF CannotOpen, Kill, Crash, Gone, StatementFails, RollingBack, Rollback
    <2>5. CASE Committing(p)
        BY <1>2, <2>5, EndRows DEF Committing, Commit, At
    <2>6. CASE Begin(p) \/ ScriptEnds(p) \/ Refused(p) \/ EndFailed(p) \/ Detach(p)
        <3>1. UNCHANGED <<db, work, lock>> /\ pc[p] \notin {"files", "deps"}
            BY <2>6 DEF Begin, ScriptEnds, Refused, EndFailed, EndFails, Detach, base
        <3>2. pc'[p] \notin {"files", "deps"}
            BY <2>1, <2>6
            DEF Begin, ScriptEnds, Refused, EndFailed, EndFails, Detach, TxnTypeOK
        <3> QED BY <1>2, <3>1, <3>2, IdleRows DEF Writing
    <2>7. CASE Close(p) \/ Find(p)
        <3>1. UNCHANGED <<db, work, pc>> /\ pc[p] \notin {"files", "deps"}
            BY <2>7 DEF Close, Find, Call, Quiet, Read
        <3>2. Writing(p)' => Writing(p)
            BY <2>1, <2>7 DEF Close, Find, Read, Writing, TxnTypeOK
        <3> QED BY <1>2, <3>1, <3>2, IdleRows
    <2>8. CASE Waiting(p)
        <3>1. UNCHANGED <<db, work, pc>> /\ pc[p] = "commit" /\ Writing(p)
            BY <2>8 DEF Waiting, Wait, CommitBusy, Writing
        <3> QED BY <1>2, <3>1, IdleRows
    <2>9. CASE StartRead(p) /\ UNCHANGED <<calls, objVars>>
        <3>1. UNCHANGED <<db, work, lock>> /\ pc[p] = "read" /\ pc'[p] = "script"
            BY <2>1, <2>9 DEF StartRead, At, TxnTypeOK
        <3> QED BY <1>2, <3>1, IdleRows DEF Writing
    <2>10. CASE StartWrite(p) /\ UNCHANGED <<calls, objVars>>
        <3>1. db' = db /\ work'[p] = db /\ pc'[p] = "script"
            BY <2>1, <2>10 DEF StartWrite, At, TxnTypeOK
        <3> QED BY <1>2, <3>1, OthersRows DEF RowsInv, RowsOf
    <2> QED
        BY <1>2, <2>2, <2>3, <2>4, <2>5, <2>6, <2>7, <2>8, <2>9, <2>10
        DEF Step, Proceed, Started
<1> QED BY <1>1, <1>2 DEF Next

\* No row of files or dependencies is committed without its row of ports, or
\* that row without them, if scripts delete in a transaction.
THEOREM RowsTogetherCorrect == ASSUME Scripted PROVE Spec => []RowsTogether
<1>1. Init => TxnInv /\ RowsInv
    <2> SUFFICES ASSUME Init PROVE RowsInv
        BY InitTxn
    <2>1. Whole(db)
        <3>1. PICK s \in Found : db = Blank(s)
            BY DEF Init
        <3> QED BY <3>1 DEF Whole, Blank
    <2>2. \A p \in Procs : ~Writing(p)
        BY DEF Init, Writing
    <2> QED BY <2>1, <2>2 DEF Init, RowsInv, RowsOf
<1>2. TxnInv /\ RowsInv /\ [Next]_vars => (TxnInv /\ RowsInv)'
    BY NextTxn, NextRows
<1>3. RowsInv => RowsTogether
    BY DEF RowsInv, Whole, RowsTogether
<1> QED BY <1>1, <1>2, <1>3, PTL DEF Spec

-----------------------------------------------------------------------------
(* Induction over finite sets, which the folds of the model go through.      *)

\* What holds of 0, and of n + 1 if of n, holds of every number.
LEMMA Inductive ==
    ASSUME NEW S, S \subseteq Nat, 0 \in S, \A n \in S : n + 1 \in S
    PROVE  S = Nat
<1> DEFINE R == OpToRel(<, Nat)
<1>1. IsWellFoundedOn(R, Nat)
    BY NatLessThanWellFounded
<1>2. \A x, y \in Nat : <<y, x>> \in R <=> y < x
    BY DEF OpToRel
<1> HIDE DEF R
<1> SUFFICES ASSUME Nat \ S # {} PROVE FALSE
    OBVIOUS
<1>3. \E x \in Nat \ S : \A y \in Nat \ S : ~(<<y, x>> \in R)
    BY <1>1, WFMin
<1>4. PICK x \in Nat \ S : \A y \in Nat \ S : ~(<<y, x>> \in R)
    BY <1>3
<1>5. x # 0 /\ x - 1 \in Nat /\ x - 1 < x
    OBVIOUS
<1>6. x - 1 \in S
    BY <1>2, <1>4, <1>5
<1>7. (x - 1) + 1 \in S
    BY <1>6
<1> QED BY <1>5, <1>7

\* Without one of its elements a finite set has one less.
LEMMA Fewer ==
    ASSUME NEW S, IsFiniteSet(S), NEW s \in SUBSET S
    PROVE  /\ IsFiniteSet(s) /\ Cardinality(s) \in Nat /\ (Cardinality(s) = 0 <=> s = {})
           /\ \A x \in s : Cardinality(s \ {x}) = Cardinality(s) - 1
<1>1. IsFiniteSet(s)
    BY FS_Subset
<1> QED BY <1>1, FS_CardinalityType, FS_EmptySet, FS_RemoveElement

\* What holds of the empty set, and of a set if of the set without any one element,
\* holds of a finite set.
LEMMA SetInduction ==
    ASSUME NEW S, IsFiniteSet(S), NEW F, {} \in F,
           \A s \in SUBSET S : s # {} /\ (\A x \in s : s \ {x} \in F) => s \in F
    PROVE  S \in F
<1> DEFINE Ok == {n \in Nat : \A s \in SUBSET S : Cardinality(s) = n => s \in F}
<1>1. 0 \in Ok
    BY Fewer
<1>2. \A n \in Ok : n + 1 \in Ok
    <2> SUFFICES ASSUME NEW n \in Ok, NEW s \in SUBSET S, Cardinality(s) = n + 1
                 PROVE  s \in F
        OBVIOUS
    <2>1. s # {} /\ \A x \in s : Cardinality(s \ {x}) = n
        BY Fewer
    <2> QED BY <2>1
<1>3. Ok = Nat
    <2> HIDE DEF Ok
    <2>1. Ok \subseteq Nat
        BY DEF Ok
    <2> QED BY <1>1, <1>2, <2>1, Inductive
<1> QED BY <1>3, Fewer

\* The folds of the model change a memory element by element.
Turn(kind, x, m) ==
    CASE kind = "meet"    -> StmtToEntry(m, x)
      [] kind = "name"    -> EntryToObj(m, m.table[x])
      [] kind = "free"    -> FreeEntry(m, x)
      [] kind = "restore" -> RestoreEntry(m, x)
      [] OTHER            -> IF m.heap[x].name = NoName THEN m
                             ELSE DeleteCommand(m, m.heap[x].name)

Turned(h, kind, start, S) ==
    [s \in SUBSET S |-> IF s = {} THEN start
                        ELSE Turn(kind, CHOOSE x \in s : TRUE, h[s \ {CHOOSE x \in s : TRUE}])]

\* There is such a function of the subsets, built up by their size.
LEMMA TurnedExists ==
    ASSUME NEW kind, NEW start, NEW S, IsFiniteSet(S)
    PROVE  \E h : h = Turned(h, kind, start, S)
<1> DEFINE D == SUBSET S
           T(h) == Turned(h, kind, start, S)
           Ok == {n \in Nat : \E h : h = [s \in D |-> h[s]]
                               /\ \A s \in D : Cardinality(s) <= n => h[s] = T(h)[s]}
<1>1. ASSUME NEW h, NEW s \in D
      PROVE  T(h)[s] = IF s = {} THEN start
                       ELSE Turn(kind, CHOOSE x \in s : TRUE, h[s \ {CHOOSE x \in s : TRUE}])
    BY DEF Turned
<1>2. ASSUME NEW h PROVE T(h) = [s \in D |-> T(h)[s]]
    BY DEF Turned
<1>3. \A s \in D : s # {} => (CHOOSE x \in s : TRUE) \in s
    OBVIOUS
<1> HIDE DEF T
<1>4. 0 \in Ok
    <2> DEFINE h == [s \in D |-> start]
    <2>1. ASSUME NEW s \in D, Cardinality(s) <= 0 PROVE h[s] = T(h)[s]
        <3>1. s = {} /\ h[s] = start
            BY <2>1, Fewer
        <3> HIDE DEF h
        <3> QED BY <1>1, <3>1
    <2>2. h = [s \in D |-> h[s]]
        OBVIOUS
    <2> HIDE DEF h
    <2>3. \A s \in D : Cardinality(s) <= 0 => h[s] = T(h)[s]
        BY <2>1
    <2> QED BY <2>2, <2>3
<1>5. \A n \in Ok : n + 1 \in Ok
    <2> SUFFICES ASSUME NEW n \in Ok PROVE n + 1 \in Ok
        OBVIOUS
    <2>1. PICK h : h = [s \in D |-> h[s]] /\ \A s \in D : Cardinality(s) <= n => h[s] = T(h)[s]
        OBVIOUS
    <2> DEFINE g == T(h)
    <2>2. g = [s \in D |-> g[s]]
        BY <1>2
    <2>3. ASSUME NEW s \in D, Cardinality(s) <= n + 1 PROVE g[s] = T(g)[s]
        <3>1. CASE s = {}
            BY <1>1, <3>1
        <3>2. CASE s # {}
            <4> DEFINE x == CHOOSE x \in s : TRUE
            <4>1. x \in s
                BY <1>3, <3>2
            <4>2. g[s] = Turn(kind, x, h[s \ {x}]) /\ T(g)[s] = Turn(kind, x, g[s \ {x}])
                BY <1>1, <3>2
            <4> HIDE DEF x, g
            <4>3. s \ {x} \in D /\ Cardinality(s \ {x}) <= n
                BY <2>3, <4>1, Fewer
            <4>4. h[s \ {x}] = g[s \ {x}]
                BY <2>1, <4>3 DEF g
            <4> QED BY <4>2, <4>4
        <3> QED BY <3>1, <3>2
    <2> HIDE DEF g
    <2>4. \A s \in D : Cardinality(s) <= n + 1 => g[s] = T(g)[s]
        BY <2>3
    <2>5. n + 1 \in Nat
        OBVIOUS
    <2> QED BY <2>2, <2>4, <2>5
<1>6. Ok = Nat
    <2> HIDE DEF Ok
    <2>1. Ok \subseteq Nat
        BY DEF Ok
    <2> QED BY <1>4, <1>5, <2>1, Inductive
<1>7. Cardinality(S) \in Nat /\ \A s \in D : Cardinality(s) <= Cardinality(S)
    BY FS_CardinalityType, FS_Subset
<1>8. PICK h : h = [s \in D |-> h[s]] /\ \A s \in D : h[s] = T(h)[s]
    BY <1>6, <1>7
<1>9. T(h) = [s \in D |-> h[s]]
    BY <1>2, <1>8
<1>10. h = T(h)
    BY <1>8, <1>9
<1> QED BY <1>10 DEF T

\* What the memory is on the way, subset by subset.
OnTheWay(h, kind, start, S) ==
    /\ h[{}] = start
    /\ \A s \in SUBSET S : s # {} => \E x \in s : h[s] = Turn(kind, x, h[s \ {x}])

\* It says what the memory is on the way.
LEMMA TurnedWay ==
    ASSUME NEW kind, NEW start, NEW S, NEW h, h = Turned(h, kind, start, S)
    PROVE  OnTheWay(h, kind, start, S)
<1>1. \A s \in SUBSET S : h[s] = Turned(h, kind, start, S)[s]
    OBVIOUS
<1>2. h[{}] = start
    BY <1>1 DEF Turned
<1>3. ASSUME NEW s \in SUBSET S, s # {} PROVE \E x \in s : h[s] = Turn(kind, x, h[s \ {x}])
    <2> DEFINE x == CHOOSE x \in s : TRUE
    <2>1. x \in s
        BY <1>3
    <2>2. h[s] = Turn(kind, x, h[s \ {x}])
        BY <1>1, <1>3 DEF Turned
    <2> HIDE DEF x
    <2> QED BY <2>1, <2>2
<1> QED BY <1>2, <1>3 DEF OnTheWay

\* A fold is where its way ends; so for each of them.
Met(h, start, S) ==
    [s \in SUBSET S |-> IF s = {} THEN start
                        ELSE LET x == CHOOSE x \in s : TRUE
                                 m == h[s \ {x}]
                             IN  StmtToEntry(m, x)]

LEMMA MetWay ==
    ASSUME NEW start, NEW S, IsFiniteSet(S)
    PROVE  \E h : /\ OnTheWay(h, "meet", start, S)
                  /\ FoldSet(LAMBDA x, m : StmtToEntry(m, x), start, S) = h[S]
<1> DEFINE h == CHOOSE h : h = Met(h, start, S)
<1>1. FoldSet(LAMBDA x, m : StmtToEntry(m, x), start, S) = h[S]
    BY DEF FoldSet, MapThenFoldSet, Met
<1>2. \A f : Met(f, start, S) = Turned(f, "meet", start, S)
    BY DEF Met, Turned, Turn
<1>3. h = Met(h, start, S)
    BY <1>2, TurnedExists
<1> HIDE DEF h
<1> QED BY <1>1, <1>2, <1>3, TurnedWay

Named(h, start, S) ==
    [s \in SUBSET S |-> IF s = {} THEN start
                        ELSE LET x == CHOOSE x \in s : TRUE
                                 m == h[s \ {x}]
                             IN  EntryToObj(m, m.table[x])]

LEMMA NamedWay ==
    ASSUME NEW start, NEW S, IsFiniteSet(S)
    PROVE  \E h : /\ OnTheWay(h, "name", start, S)
                  /\ FoldSet(LAMBDA x, m : EntryToObj(m, m.table[x]), start, S) = h[S]
<1> DEFINE h == CHOOSE h : h = Named(h, start, S)
<1>1. FoldSet(LAMBDA x, m : EntryToObj(m, m.table[x]), start, S) = h[S]
    BY DEF FoldSet, MapThenFoldSet, Named
<1>2. \A f : Named(f, start, S) = Turned(f, "name", start, S)
    BY DEF Named, Turned, Turn
<1>3. h = Named(h, start, S)
    BY <1>2, TurnedExists
<1> HIDE DEF h
<1> QED BY <1>1, <1>2, <1>3, TurnedWay

Freed(h, start, S) ==
    [s \in SUBSET S |-> IF s = {} THEN start
                        ELSE LET x == CHOOSE x \in s : TRUE
                                 m == h[s \ {x}]
                             IN  FreeEntry(m, x)]

LEMMA FreedWay ==
    ASSUME NEW start, NEW S, IsFiniteSet(S)
    PROVE  \E h : /\ OnTheWay(h, "free", start, S)
                  /\ FoldSet(LAMBDA x, m : FreeEntry(m, x), start, S) = h[S]
<1> DEFINE h == CHOOSE h : h = Freed(h, start, S)
<1>1. FoldSet(LAMBDA x, m : FreeEntry(m, x), start, S) = h[S]
    BY DEF FoldSet, MapThenFoldSet, Freed
<1>2. \A f : Freed(f, start, S) = Turned(f, "free", start, S)
    BY DEF Freed, Turned, Turn
<1>3. h = Freed(h, start, S)
    BY <1>2, TurnedExists
<1> HIDE DEF h
<1> QED BY <1>1, <1>2, <1>3, TurnedWay

Restored(h, start, S) ==
    [s \in SUBSET S |-> IF s = {} THEN start
                        ELSE LET x == CHOOSE x \in s : TRUE
                                 m == h[s \ {x}]
                             IN  RestoreEntry(m, x)]

LEMMA RestoredWay ==
    ASSUME NEW start, NEW S, IsFiniteSet(S)
    PROVE  \E h : /\ OnTheWay(h, "restore", start, S)
                  /\ FoldSet(LAMBDA x, m : RestoreEntry(m, x), start, S) = h[S]
<1> DEFINE h == CHOOSE h : h = Restored(h, start, S)
<1>1. FoldSet(LAMBDA x, m : RestoreEntry(m, x), start, S) = h[S]
    BY DEF FoldSet, MapThenFoldSet, Restored
<1>2. \A f : Restored(f, start, S) = Turned(f, "restore", start, S)
    BY DEF Restored, Turned, Turn
<1>3. h = Restored(h, start, S)
    BY <1>2, TurnedExists
<1> HIDE DEF h
<1> QED BY <1>1, <1>2, <1>3, TurnedWay

Detached(h, start, S) ==
    [s \in SUBSET S |-> IF s = {} THEN start
                        ELSE LET x == CHOOSE x \in s : TRUE
                                 m == h[s \ {x}]
                             IN  IF m.heap[x].name = NoName THEN m
                                 ELSE DeleteCommand(m, m.heap[x].name)]

LEMMA DetachedWay ==
    ASSUME NEW start, NEW S, IsFiniteSet(S)
    PROVE  \E h : /\ OnTheWay(h, "detach", start, S)
                  /\ FoldSet(LAMBDA x, m : IF m.heap[x].name = NoName THEN m
                                           ELSE DeleteCommand(m, m.heap[x].name),
                             start, S) = h[S]
<1> DEFINE h == CHOOSE h : h = Detached(h, start, S)
<1>1. FoldSet(LAMBDA x, m : IF m.heap[x].name = NoName THEN m
                            ELSE DeleteCommand(m, m.heap[x].name), start, S) = h[S]
    BY DEF FoldSet, MapThenFoldSet, Detached
<1>2. \A f : Detached(f, start, S) = Turned(f, "detach", start, S)
    BY DEF Detached, Turned, Turn
<1>3. h = Detached(h, start, S)
    BY <1>2, TurnedExists
<1> HIDE DEF h
<1> QED BY <1>1, <1>2, <1>3, TurnedWay

-----------------------------------------------------------------------------
(* Memories, and what the operations on one of them keep.                    *)

Objects == [id : Ids, name : Names \cup {NoName}, live : BOOLEAN]
Memories == [heap : Seq(Objects), table : [Ids -> Nat],
             cmds : [Names -> [to : Nat, frees : BOOLEAN]]]

\* The table and the commands lead to objects that are not freed, the table to one of
\* the id and a command to the one that has its name.
MemoryOK(m) ==
    /\ m \in Memories /\ Len(m.heap) <= MaxObjects
    /\ \A k \in Names : m.cmds[k].to # 0 =>
          /\ m.cmds[k].to \in 1..Len(m.heap)
          /\ m.heap[m.cmds[k].to].name = k /\ m.heap[m.cmds[k].to].live
    /\ \A i \in Ids : m.table[i] # 0 =>
          /\ m.table[i] \in 1..Len(m.heap)
          /\ m.heap[m.table[i]].id = i /\ m.heap[m.table[i]].live

\* Objects of the list are not freed, have names of their own or none, and no command.
Listed(m, D) == \A o \in D :
    /\ o \in 1..Len(m.heap) /\ m.heap[o].live
    /\ \A k \in Names : m.cmds[k].to # o
    /\ m.heap[o].name # NoName => m.cmds[m.heap[o].name].to = 0
    /\ \A q \in D : m.heap[q].name = m.heap[o].name /\ m.heap[o].name # NoName => q = o

\* Names lead where they are to.
Leads(m, H) == \A h \in H :
    /\ h \in Names \X Ids /\ m.cmds[h[1]].to # 0
    /\ m.heap[m.cmds[h[1]].to].live /\ m.heap[m.cmds[h[1]].to].id = h[2]

\* What the members of a memory are.
LEMMA MemoryIs ==
    ASSUME NEW m \in Memories
    PROVE  /\ Len(m.heap) \in Nat /\ DOMAIN m.heap = 1..Len(m.heap)
           /\ \A o \in 1..Len(m.heap) :
                 /\ m.heap[o] \in Objects /\ m.heap[o].id \in Ids /\ m.heap[o].live \in BOOLEAN
                 /\ m.heap[o].name \in Names \cup {NoName}
           /\ \A k \in Names : m.cmds[k].to \in Nat
           /\ 0 \notin Names /\ NoName = 0
<1>1. m.heap \in Seq(Objects) /\ m.cmds \in [Names -> [to : Nat, frees : BOOLEAN]]
    BY DEF Memories
<1>2. PICK s \in Seq(Objects) : s = m.heap
    BY <1>1
<1>3. Len(s) \in Nat /\ DOMAIN s = 1..Len(s) /\ \A o \in 1..Len(s) : s[o] \in Objects
    BY <1>2
<1>4. \A o \in 1..Len(s) :
        s[o].id \in Ids /\ s[o].live \in BOOLEAN /\ s[o].name \in Names \cup {NoName}
    BY <1>3 DEF Objects
<1>5. \A k \in Names : m.cmds[k].to \in Nat
    BY <1>1
<1>6. 0 \notin Names /\ NoName = 0
    BY DEF Names, NoName
<1> QED BY <1>2, <1>3, <1>4, <1>5, <1>6

\* An object that is changed in a heap.
LEMMA HeapExcept ==
    ASSUME NEW s \in Seq(Objects), NEW o \in Nat, NEW v, o \in 1..Len(s) => v \in Objects,
           NEW t, t = [s EXCEPT ![o] = v]
    PROVE  /\ t \in Seq(Objects) /\ Len(t) = Len(s)
           /\ o \in 1..Len(s) => t[o] = v
           /\ \A q \in 1..Len(s) : q # o => t[q] = s[q]
<1>1. PICK n \in Nat : n = Len(s) /\ s \in [1..n -> Objects]
    OBVIOUS
<1>2. t \in [1..n -> Objects]
    BY <1>1
<1>3. t \in Seq(Objects) /\ Len(t) = n
    BY <1>2
<1>4. o \in 1..n => t[o] = v
    BY <1>1
<1>5. \A q \in 1..n : q # o => t[q] = s[q]
    BY <1>1
<1> QED BY <1>1, <1>3, <1>4, <1>5

\* m becomes d: only what k says changes.
Same(m, d) ==
    /\ Len(d.heap) = Len(m.heap)
    /\ \A o \in 1..Len(m.heap) : d.heap[o].id = m.heap[o].id /\ d.heap[o].live = m.heap[o].live

\* A command that is deleted is gone, and its object may have lost the name.
LEMMA DeletedCommand ==
    ASSUME NEW m, MemoryOK(m), NEW k \in Names, NEW d, d = DeleteCommand(m, k)
    PROVE  /\ d \in Memories /\ d.table = m.table /\ Same(m, d)
           /\ d.cmds[k].to = 0 /\ \A j \in Names \ {k} : d.cmds[j] = m.cmds[j]
           /\ \A o \in 1..Len(m.heap) :
                 /\ d.heap[o].name \in {m.heap[o].name, NoName}
                 /\ o # m.cmds[k].to => d.heap[o].name = m.heap[o].name
<1>1. m \in Memories
    BY DEF MemoryOK
<1>2. /\ d.table = m.table /\ d.cmds = [m.cmds EXCEPT ![k] = NoCommand]
      /\ d.heap = IF m.cmds[k].frees
                  THEN [m.heap EXCEPT ![m.cmds[k].to].name = NoName] ELSE m.heap
      /\ d = [heap |-> d.heap, table |-> d.table, cmds |-> d.cmds]
    BY <1>1 DEF DeleteCommand, Memories
<1>3. d.cmds \in [Names -> [to : Nat, frees : BOOLEAN]] /\ d.table \in [Ids -> Nat]
    BY <1>1, <1>2 DEF Memories, NoCommand
<1>4. d.heap \in Seq(Objects) /\ Len(d.heap) = Len(m.heap)
    <2>1. PICK s \in Seq(Objects) : s = m.heap
        BY <1>1 DEF Memories
    <2>2. m.cmds[k].to \in Nat
        BY <1>1, MemoryIs
    <2>3. PICK o \in Nat : o = m.cmds[k].to
        BY <2>2
    <2>4. \A q \in 1..Len(s) : [s[q] EXCEPT !.name = NoName] \in Objects
        <3>1. \A x \in Objects : [x EXCEPT !.name = NoName] \in Objects
            BY DEF Objects
        <3> QED BY <3>1
    <2>5. d.heap = s \/ d.heap = [s EXCEPT ![o] = [s[o] EXCEPT !.name = NoName]]
        <3>1. [m.heap EXCEPT ![m.cmds[k].to].name = NoName] = [s EXCEPT ![o].name = NoName]
            BY <2>1, <2>3
        <3>2. [s EXCEPT ![o].name = NoName] = [s EXCEPT ![o] = [s[o] EXCEPT !.name = NoName]]
            OBVIOUS
        <3> QED BY <1>2, <2>1, <3>1, <3>2
    <2>6. PICK v : v = [s[o] EXCEPT !.name = NoName]
        OBVIOUS
    <2>7. o \in 1..Len(s) => v \in Objects
        BY <2>4, <2>6
    <2>8. d.heap = s \/ d.heap = [s EXCEPT ![o] = v]
        BY <2>5, <2>6
    <2>9. PICK t : t = [s EXCEPT ![o] = v]
        OBVIOUS
    <2>10. t \in Seq(Objects) /\ Len(t) = Len(s)
        BY <2>7, <2>9, HeapExcept
    <2> QED BY <2>1, <2>8, <2>9, <2>10
<1>5. d \in Memories
    BY <1>2, <1>3, <1>4 DEF Memories
<1>6. d.cmds[k].to = 0 /\ \A j \in Names \ {k} : d.cmds[j] = m.cmds[j]
    BY <1>1, <1>2 DEF Memories, NoCommand
<1>7. ASSUME NEW o \in 1..Len(m.heap)
      PROVE  /\ d.heap[o].id = m.heap[o].id /\ d.heap[o].live = m.heap[o].live
             /\ d.heap[o].name \in {m.heap[o].name, NoName}
             /\ o # m.cmds[k].to => d.heap[o].name = m.heap[o].name
    BY <1>1, <1>2, MemoryIs DEF Objects
<1> QED BY <1>2, <1>4, <1>5, <1>6, <1>7 DEF Same

\* That keeps a memory, the list, and the other names.
LEMMA DeleteKeeps ==
    ASSUME NEW m, MemoryOK(m), NEW k \in Names, NEW d, d = DeleteCommand(m, k)
    PROVE  /\ MemoryOK(d)
           /\ \A D : Listed(m, D) => Listed(d, D)
           /\ \A H : Leads(m, H) => Leads(d, {h \in H : h[1] # k})
<1>1. /\ d \in Memories /\ d.table = m.table /\ Same(m, d)
      /\ d.cmds[k].to = 0 /\ \A j \in Names \ {k} : d.cmds[j] = m.cmds[j]
      /\ \A o \in 1..Len(m.heap) :
            /\ d.heap[o].name \in {m.heap[o].name, NoName}
            /\ o # m.cmds[k].to => d.heap[o].name = m.heap[o].name
    BY DeletedCommand
<1>2. MemoryOK(d)
    <2>1. m \in Memories
        BY DEF MemoryOK
    <2>2. ASSUME NEW j \in Names, d.cmds[j].to # 0
          PROVE  /\ d.cmds[j].to \in 1..Len(d.heap)
                 /\ d.heap[d.cmds[j].to].name = j /\ d.heap[d.cmds[j].to].live
        <3>1. PICK o : o = m.cmds[j].to /\ o = d.cmds[j].to /\ j # k /\ o # 0
            BY <1>1, <2>2
        <3>2. o \in 1..Len(m.heap) /\ m.heap[o].name = j /\ m.heap[o].live
            BY <3>1 DEF MemoryOK
        <3>3. o # m.cmds[k].to
            BY <3>1, <3>2 DEF MemoryOK
        <3> QED BY <1>1, <3>1, <3>2, <3>3 DEF Same
    <2>3. \A i \in Ids : d.table[i] # 0 =>
            /\ d.table[i] \in 1..Len(d.heap)
            /\ d.heap[d.table[i]].id = i /\ d.heap[d.table[i]].live
        BY <1>1 DEF MemoryOK, Same
    <2> QED BY <1>1, <2>2, <2>3 DEF MemoryOK, Same
<1>3. ASSUME NEW D, Listed(m, D) PROVE Listed(d, D)
    <2>1. m \in Memories
        BY DEF MemoryOK
    <2>2. \A o \in 1..Len(m.heap) : m.heap[o].name \in Names \cup {NoName}
        BY <2>1, MemoryIs
    <2>3. \A o \in D : o \in 1..Len(m.heap) /\ d.heap[o].name = m.heap[o].name
        BY <1>1, <1>3 DEF Listed
    <2>4. \A j \in Names : d.cmds[j].to \in {m.cmds[j].to, 0}
        BY <1>1
    <2>5. \A o \in D : \A j \in Names : d.cmds[j].to # o
        BY <1>3, <2>3, <2>4 DEF Listed
    <2>6. \A o \in D : m.heap[o].name # NoName => d.cmds[m.heap[o].name].to = 0
        BY <1>3, <2>2, <2>3, <2>4 DEF Listed
    <2> QED BY <1>1, <1>3, <2>3, <2>5, <2>6 DEF Listed, Same
<1>4. ASSUME NEW H, Leads(m, H) PROVE Leads(d, {h \in H : h[1] # k})
    <2> SUFFICES ASSUME NEW h \in H, h[1] # k
                 PROVE  /\ h \in Names \X Ids /\ d.cmds[h[1]].to # 0
                        /\ d.heap[d.cmds[h[1]].to].live /\ d.heap[d.cmds[h[1]].to].id = h[2]
        BY DEF Leads
    <2>1. /\ h \in Names \X Ids /\ m.cmds[h[1]].to # 0
          /\ m.heap[m.cmds[h[1]].to].live /\ m.heap[m.cmds[h[1]].to].id = h[2]
        BY <1>4 DEF Leads
    <2>2. h[1] \in Names /\ d.cmds[h[1]] = m.cmds[h[1]]
        BY <1>1, <2>1
    <2>3. m.cmds[h[1]].to \in 1..Len(m.heap)
        BY <2>1, <2>2 DEF MemoryOK
    <2> QED BY <1>1, <2>1, <2>2, <2>3 DEF Same
<1> QED BY <1>2, <1>3, <1>4

\* An object no command leads to may be freed.
LEMMA FreeKeeps ==
    ASSUME NEW m, MemoryOK(m), NEW o \in 1..Len(m.heap), \A k \in Names : m.cmds[k].to # o,
           NEW d, d = FreeEntry(m, o)
    PROVE  /\ MemoryOK(d) /\ d.cmds = m.cmds /\ Len(d.heap) = Len(m.heap)
           /\ \A D : Listed(m, D) => Listed(d, D \ {o})
           /\ \A H : Leads(m, H) => Leads(d, H)
<1>1. m \in Memories
    BY DEF MemoryOK
<1>2. PICK v : v = [m.heap[o] EXCEPT !.live = FALSE]
    OBVIOUS
<1>3. m.heap[o] \in Objects
    BY <1>1, MemoryIs
<1>4. v \in Objects /\ v.id = m.heap[o].id /\ v.name = m.heap[o].name
    BY <1>2, <1>3 DEF Objects
<1>5. /\ d.cmds = m.cmds /\ d.table = [m.table EXCEPT ![m.heap[o].id] = 0]
      /\ d.heap = [m.heap EXCEPT ![o] = v]
      /\ d = [heap |-> d.heap, table |-> d.table, cmds |-> d.cmds]
    BY <1>1, <1>2 DEF FreeEntry, Memories
<1>6. m.heap \in Seq(Objects) /\ o \in Nat
    BY <1>1 DEF Memories
<1>7. /\ d.heap \in Seq(Objects) /\ Len(d.heap) = Len(m.heap) /\ d.heap[o] = v
      /\ \A q \in 1..Len(m.heap) : q # o => d.heap[q] = m.heap[q]
    BY <1>4, <1>5, <1>6, HeapExcept
<1>8. /\ d.table \in [Ids -> Nat]
      /\ \A i \in Ids : d.table[i] = IF i = m.heap[o].id THEN 0 ELSE m.table[i]
    <2>1. m.heap[o].id \in Ids /\ m.table \in [Ids -> Nat]
        BY <1>1, MemoryIs DEF Memories
    <2> QED BY <1>5, <2>1
<1>9. d \in Memories
    BY <1>1, <1>5, <1>7, <1>8 DEF Memories
<1>10. \A q \in 1..Len(m.heap) : /\ d.heap[q].id = m.heap[q].id /\ d.heap[q].name = m.heap[q].name
                                 /\ q # o => d.heap[q].live = m.heap[q].live
    BY <1>4, <1>7
<1>11. MemoryOK(d)
    <2>1. ASSUME NEW k \in Names, d.cmds[k].to # 0
          PROVE  /\ d.cmds[k].to \in 1..Len(d.heap)
                 /\ d.heap[d.cmds[k].to].name = k /\ d.heap[d.cmds[k].to].live
        BY <1>5, <1>7, <1>10, <2>1 DEF MemoryOK
    <2>2. ASSUME NEW i \in Ids, d.table[i] # 0
          PROVE  /\ d.table[i] \in 1..Len(d.heap)
                 /\ d.heap[d.table[i]].id = i /\ d.heap[d.table[i]].live
        BY <1>7, <1>8, <1>10, <2>2 DEF MemoryOK
    <2> QED BY <1>7, <1>9, <2>1, <2>2 DEF MemoryOK
<1>12. ASSUME NEW D, Listed(m, D) PROVE Listed(d, D \ {o})
    BY <1>5, <1>7, <1>10, <1>12 DEF Listed
<1>13. ASSUME NEW H, Leads(m, H) PROVE Leads(d, H)
    <2> SUFFICES ASSUME NEW h \in H
                 PROVE  /\ h \in Names \X Ids /\ d.cmds[h[1]].to # 0
                        /\ d.heap[d.cmds[h[1]].to].live /\ d.heap[d.cmds[h[1]].to].id = h[2]
        BY DEF Leads
    <2>1. /\ h \in Names \X Ids /\ m.cmds[h[1]].to # 0
          /\ m.heap[m.cmds[h[1]].to].live /\ m.heap[m.cmds[h[1]].to].id = h[2]
        BY <1>13 DEF Leads
    <2>2. h[1] \in Names
        BY <2>1
    <2>3. m.cmds[h[1]].to \in 1..Len(m.heap) /\ m.cmds[h[1]].to # o
        BY <2>1, <2>2 DEF MemoryOK
    <2> QED BY <1>5, <1>10, <2>1, <2>3
<1> QED BY <1>5, <1>7, <1>11, <1>12, <1>13

\* A command for a name that has none, for the object that has the name.
LEMMA CommandMade ==
    ASSUME NEW m, MemoryOK(m), NEW k \in Names, m.cmds[k].to = 0,
           NEW o \in 1..Len(m.heap), m.heap[o].live, m.heap[o].name = k,
           NEW frees \in BOOLEAN, NEW d, d = CreateCommand(m, k, o, frees)
    PROVE  /\ MemoryOK(d) /\ d.heap = m.heap /\ d.table = m.table
           /\ d.cmds[k].to = o /\ \A j \in Names \ {k} : d.cmds[j] = m.cmds[j]
           /\ \A D : Listed(m, D) => Listed(d, {q \in D \ {o} : m.heap[q].name # k})
           /\ \A H : Leads(m, H) => Leads(d, H \cup {<<k, m.heap[o].id>>})
<1>1. m \in Memories /\ 0 \notin Names
    BY DEF MemoryOK, Names
<1>2. /\ d.heap = m.heap /\ d.table = m.table
      /\ d.cmds = [m.cmds EXCEPT ![k] = [to |-> o, frees |-> frees]]
      /\ d = [heap |-> d.heap, table |-> d.table, cmds |-> d.cmds]
    BY <1>1 DEF CreateCommand, Memories
<1>3. [to |-> o, frees |-> frees] \in [to : Nat, frees : BOOLEAN]
    OBVIOUS
<1>4. /\ d.cmds \in [Names -> [to : Nat, frees : BOOLEAN]]
      /\ d.cmds[k].to = o /\ \A j \in Names \ {k} : d.cmds[j] = m.cmds[j]
    BY <1>1, <1>2, <1>3 DEF Memories
<1>5. d \in Memories
    BY <1>1, <1>2, <1>4 DEF Memories
<1>6. MemoryOK(d)
    <2>1. \A j \in Names : d.cmds[j].to # 0 =>
            /\ d.cmds[j].to \in 1..Len(d.heap)
            /\ d.heap[d.cmds[j].to].name = j /\ d.heap[d.cmds[j].to].live
        BY <1>2, <1>4 DEF MemoryOK
    <2> QED BY <1>2, <1>5, <2>1 DEF MemoryOK
<1>7. ASSUME NEW D, Listed(m, D) PROVE Listed(d, {q \in D \ {o} : m.heap[q].name # k})
    <2> SUFFICES ASSUME NEW q \in D \ {o}, m.heap[q].name # k
                 PROVE  /\ q \in 1..Len(m.heap) /\ m.heap[q].live
                        /\ \A j \in Names : d.cmds[j].to # q
                        /\ m.heap[q].name # NoName => d.cmds[m.heap[q].name].to = 0
                        /\ \A r \in D : m.heap[r].name = m.heap[q].name
                                        /\ m.heap[q].name # NoName => r = q
        BY <1>2 DEF Listed
    <2>1. q \in 1..Len(m.heap) /\ m.heap[q].live
        BY <1>7 DEF Listed
    <2>2. m.heap[q].name \in Names \cup {NoName}
        BY <1>1, <2>1, MemoryIs
    <2> QED BY <1>4, <1>7, <2>1, <2>2 DEF Listed
<1>8. ASSUME NEW H, Leads(m, H) PROVE Leads(d, H \cup {<<k, m.heap[o].id>>})
    <2>1. m.heap[o].id \in Ids
        BY <1>1, MemoryIs
    <2>2. \A h \in H : h[1] \in Names /\ h[1] # k /\ m.cmds[h[1]].to # 0
        BY <1>8 DEF Leads
    <2> QED BY <1>2, <1>4, <1>8, <2>1, <2>2 DEF Leads
<1> QED BY <1>2, <1>4, <1>6, <1>7, <1>8

\* An object of the list gets its command again, and leaves the list.
LEMMA RestoreKeeps ==
    ASSUME NEW m, MemoryOK(m), NEW D, Listed(m, D), NEW o \in D, m.heap[o].name # NoName,
           NEW d, d = RestoreEntry(m, o)
    PROVE  /\ MemoryOK(d) /\ d.heap = m.heap /\ Listed(d, D \ {o})
           /\ \A H : Leads(m, H) => Leads(d, H \cup {Given(m, o)})
<1>1. PICK k : k = m.heap[o].name
    OBVIOUS
<1>2. /\ o \in 1..Len(m.heap) /\ m.heap[o].live /\ m.cmds[k].to = 0
      /\ \A q \in D : m.heap[q].name = k => q = o
    BY <1>1 DEF Listed
<1>3. k \in Names
    BY <1>1, <1>2, MemoryIs DEF MemoryOK
<1>4. d = CreateCommand(m, k, o, TRUE)
    BY <1>1 DEF RestoreEntry
<1>5. /\ MemoryOK(d) /\ d.heap = m.heap
      /\ Listed(d, {q \in D \ {o} : m.heap[q].name # k})
      /\ \A H : Leads(m, H) => Leads(d, H \cup {<<k, m.heap[o].id>>})
    <2>1. PICK frees \in BOOLEAN : d = CreateCommand(m, k, o, frees)
        BY <1>4
    <2>4. m.heap[o].name = k
        BY <1>1
    <2>2. /\ MemoryOK(d) /\ d.heap = m.heap
          /\ \A E : Listed(m, E) => Listed(d, {q \in E \ {o} : m.heap[q].name # k})
          /\ \A H : Leads(m, H) => Leads(d, H \cup {<<k, m.heap[o].id>>})
        BY <1>2, <1>3, <2>1, <2>4, CommandMade
    <2>3. Listed(d, {q \in D \ {o} : m.heap[q].name # k})
        BY <2>2, Zenon
    <2> QED BY <2>2, <2>3
<1>6. {q \in D \ {o} : m.heap[q].name # k} = D \ {o}
    BY <1>2
<1> QED BY <1>1, <1>5, <1>6 DEF Given

\* A new object takes the place of what the table had.
LEMMA ObjectMade ==
    ASSUME NEW m, MemoryOK(m), Len(m.heap) < MaxObjects, NEW i \in Ids,
           NEW d, d = NewObject(m, i), NEW n, n = Len(m.heap) + 1
    PROVE  /\ MemoryOK(d) /\ d.cmds = m.cmds /\ n \in Nat /\ Len(d.heap) = n /\ n \in 1..n
           /\ d.table[i] = n /\ \A j \in Ids \ {i} : d.table[j] = m.table[j]
           /\ d.heap[n] = [id |-> i, name |-> NoName, live |-> TRUE]
           /\ \A q \in 1..Len(m.heap) : d.heap[q] = m.heap[q]
           /\ \A H : Leads(m, H) => Leads(d, H)
<1>1. m \in Memories
    BY DEF MemoryOK
<1>2. PICK v : v = [id |-> i, name |-> NoName, live |-> TRUE]
    OBVIOUS
<1>3. v \in Objects
    BY <1>2 DEF Objects
<1>4. /\ d.cmds = m.cmds /\ d.table = [m.table EXCEPT ![i] = n] /\ d.heap = Append(m.heap, v)
      /\ d = [heap |-> d.heap, table |-> d.table, cmds |-> d.cmds]
    BY <1>1, <1>2 DEF NewObject, Memories
<1>5. /\ d.heap \in Seq(Objects) /\ n \in Nat /\ Len(d.heap) = n /\ d.heap[n] = v /\ n \in 1..n
      /\ \A q \in 1..Len(m.heap) : d.heap[q] = m.heap[q] /\ q \in 1..n
    <2>1. PICK s \in Seq(Objects) : s = m.heap
        BY <1>1 DEF Memories
    <2>2. Append(s, v) \in Seq(Objects) /\ Len(Append(s, v)) = Len(s) + 1 /\ Len(s) \in Nat
        BY <1>3, <2>1
    <2>3. Append(s, v)[Len(s) + 1] = v /\ \A q \in 1..Len(s) : Append(s, v)[q] = s[q]
        BY <1>3, <2>1
    <2> QED BY <1>4, <2>1, <2>2, <2>3
<1>6. d.table \in [Ids -> Nat] /\ d.table[i] = n /\ \A j \in Ids \ {i} : d.table[j] = m.table[j]
    BY <1>1, <1>4, <1>5 DEF Memories
<1>7. d \in Memories
    BY <1>1, <1>4, <1>5, <1>6 DEF Memories
<1>8. n <= MaxObjects
    BY <1>1, MemoryIs, HabitsAssumption
<1>9. MemoryOK(d)
    <2>1. ASSUME NEW k \in Names, d.cmds[k].to # 0
          PROVE  /\ d.cmds[k].to \in 1..Len(d.heap)
                 /\ d.heap[d.cmds[k].to].name = k /\ d.heap[d.cmds[k].to].live
        BY <1>4, <1>5, <2>1 DEF MemoryOK
    <2>2. ASSUME NEW j \in Ids, d.table[j] # 0
          PROVE  /\ d.table[j] \in 1..Len(d.heap)
                 /\ d.heap[d.table[j]].id = j /\ d.heap[d.table[j]].live
        <3>1. CASE j = i
            BY <1>2, <1>5, <1>6, <3>1
        <3>2. CASE j # i
            <4>1. d.table[j] = m.table[j]
                BY <1>6, <3>2
            <4>2. PICK q : q = m.table[j]
                OBVIOUS
            <4>3. q \in 1..Len(m.heap) /\ m.heap[q].id = j /\ m.heap[q].live
                BY <2>2, <4>1, <4>2 DEF MemoryOK
            <4> QED BY <1>5, <4>1, <4>2, <4>3
        <3> QED BY <3>1, <3>2
    <2> QED BY <1>5, <1>7, <1>8, <2>1, <2>2 DEF MemoryOK
<1>10. ASSUME NEW H, Leads(m, H) PROVE Leads(d, H)
    <2>1. \A h \in H : h[1] \in Names /\ m.cmds[h[1]].to \in 1..Len(m.heap)
        BY <1>10 DEF Leads, MemoryOK
    <2> QED BY <1>4, <1>5, <1>10, <2>1 DEF Leads
<1> QED BY <1>2, <1>4, <1>5, <1>6, <1>9, <1>10

\* As long as there is an object without a name, there is a name without a command.
LEMMA FreeName ==
    ASSUME NEW m, MemoryOK(m), NEW o \in 1..Len(m.heap), m.heap[o].name = NoName
    PROVE  \E k \in Names : m.cmds[k].to = 0
<1> SUFFICES ASSUME \A k \in Names : m.cmds[k].to # 0 PROVE FALSE
    OBVIOUS
<1>1. PICK n \in Nat : n = Len(m.heap) /\ n <= MaxObjects /\ o \in 1..n
    BY MemoryIs DEF MemoryOK
<1>2. NoName \notin Names
    BY DEF NoName, Names
<1> DEFINE T == (1..n) \ {o}
           f == [k \in Names |-> m.cmds[k].to]
<1>3. \A k \in Names : m.cmds[k].to \in T /\ m.heap[m.cmds[k].to].name = k
    BY <1>1, <1>2 DEF MemoryOK
<1>4. f \in [Names -> T] /\ \A j, k \in Names : f[j] = f[k] => j = k
    BY <1>3
<1>5. IsFiniteSet(1..n) /\ Cardinality(1..n) = n
    <2>1. 1 \in Int /\ n \in Int /\ ~(1 > n)
        BY <1>1
    <2>2. Cardinality(1..n) = n - 1 + 1
        BY <2>1, FS_Interval
    <2> QED BY <2>1, <2>2, FS_Interval
<1>6. IsFiniteSet(T) /\ Cardinality(T) = n - 1
    BY <1>1, <1>5, FS_RemoveElement
<1>7. MaxObjects \in Nat /\ MaxObjects \in Int
    BY HabitsAssumption
<1>8. IsFiniteSet(Names) /\ Cardinality(Names) = MaxObjects
    BY <1>1, <1>7, FS_Interval, 1 \in Int DEF Names
<1>9. Cardinality(T) < Cardinality(Names)
    BY <1>1, <1>6, <1>7, <1>8
<1> HIDE DEF T, f
<1> QED BY <1>4, <1>6, <1>8, <1>9, FS_PigeonHole

\* A set of numbers has a least.
LEMMA Least ==
    ASSUME NEW S \in SUBSET Nat, S # {}
    PROVE  Min(S) \in S
<1> DEFINE R == OpToRel(<, Nat)
<1>1. IsWellFoundedOn(R, Nat)
    BY NatLessThanWellFounded
<1>2. \A x, y \in Nat : <<y, x>> \in R <=> y < x
    BY DEF OpToRel
<1> HIDE DEF R
<1>3. \E x \in S : \A y \in S : ~(<<y, x>> \in R)
    BY <1>1, WFMin
<1>4. \A x \in S : x \in Nat
    OBVIOUS
<1>6. PICK x \in S : \A y \in S : ~(<<y, x>> \in R)
    BY <1>3
<1>7. \A y \in S : ~(y < x)
    BY <1>2, <1>4, <1>6
<1>8. \A y \in S : x <= y
    BY <1>4, <1>7
<1>5. \E z \in S : \A y \in S : z <= y
    BY <1>8
<1> QED BY <1>5 DEF Min

\* An object that has no name gets one, and the command.
LEMMA ObjectNamed ==
    ASSUME NEW m, MemoryOK(m), NEW o \in 1..Len(m.heap), m.heap[o].live,
           m.heap[o].name # NoName => m.cmds[m.heap[o].name].to = o,
           NEW d, d = EntryToObj(m, o)
    PROVE  /\ MemoryOK(d) /\ d.table = m.table /\ Same(m, d)
           /\ d.heap[o].name \in Names /\ d.cmds[d.heap[o].name].to = o
           /\ \A q \in 1..Len(m.heap) : q # o => d.heap[q].name = m.heap[q].name
           /\ \A k \in Names : m.cmds[k].to # 0 => d.cmds[k] = m.cmds[k]
           /\ \A H : Leads(m, H) => Leads(d, H \cup {Given(d, o)})
<1>1. m \in Memories /\ m.heap[o] \in Objects /\ m.heap[o].name \in Names \cup {NoName}
    BY MemoryIs DEF MemoryOK
<1>2. CASE m.heap[o].name # NoName
    <2>1. d = m /\ m.heap[o].name \in Names
        BY <1>1, <1>2 DEF EntryToObj
    <2>2. ASSUME NEW H, Leads(m, H) PROVE Leads(m, H \cup {Given(m, o)})
        <3>1. m.heap[o].id \in Ids
            BY <1>1, MemoryIs
        <3> QED BY <1>2, <2>1, <2>2, <3>1, MemoryIs DEF Leads, Given
    <2> QED BY <1>2, <2>1, <2>2 DEF Same
<1>3. CASE m.heap[o].name = NoName
    <2> DEFINE S == {k \in Names : m.cmds[k].to = 0}
    <2>1. S # {} /\ S \in SUBSET Nat
        BY <1>3, FreeName DEF Names
    <2>2. PICK k : k = Min(S)
        OBVIOUS
    <2>3. k \in Names /\ m.cmds[k].to = 0 /\ 0 \notin Names
        <3>1. k \in S
            BY <2>1, <2>2, Least
        <3> QED BY <3>1 DEF Names
    <2>4. PICK v \in Objects : v = [m.heap[o] EXCEPT !.name = k]
        <3>1. \A x \in Objects : [x EXCEPT !.name = k] \in Objects
            BY <2>3 DEF Objects
        <3> QED BY <1>1, <3>1
    <2>5. PICK e : e = [m EXCEPT !.heap = [m.heap EXCEPT ![o] = v]]
        OBVIOUS
    <2>6. /\ e.cmds = m.cmds /\ e.table = m.table /\ e.heap = [m.heap EXCEPT ![o] = v]
          /\ e = [heap |-> e.heap, table |-> e.table, cmds |-> e.cmds]
        BY <1>1, <2>5 DEF Memories
    <2>7. v.id = m.heap[o].id /\ v.live = m.heap[o].live /\ v.name = k
        BY <1>1, <2>4 DEF Objects
    <2>8. m.heap \in Seq(Objects) /\ o \in Nat
        BY <1>1 DEF Memories
    <2>9. /\ e.heap \in Seq(Objects) /\ Len(e.heap) = Len(m.heap) /\ e.heap[o] = v
          /\ \A q \in 1..Len(m.heap) : q # o => e.heap[q] = m.heap[q]
        BY <2>6, <2>8, HeapExcept
    <2>10. Same(m, e) /\ e \in Memories
        BY <1>1, <2>6, <2>7, <2>9 DEF Same, Memories
    <2>11. \A j \in Names : m.cmds[j].to # o
        BY <1>3, <2>3 DEF MemoryOK, NoName
    <2>12. MemoryOK(e)
        <3>1. ASSUME NEW j \in Names, e.cmds[j].to # 0
              PROVE  /\ e.cmds[j].to \in 1..Len(e.heap)
                     /\ e.heap[e.cmds[j].to].name = j /\ e.heap[e.cmds[j].to].live
            BY <2>6, <2>9, <2>11, <3>1 DEF MemoryOK
        <3>2. ASSUME NEW i \in Ids, e.table[i] # 0
              PROVE  /\ e.table[i] \in 1..Len(e.heap)
                     /\ e.heap[e.table[i]].id = i /\ e.heap[e.table[i]].live
            BY <2>6, <2>10, <3>2 DEF MemoryOK, Same
        <3> QED BY <2>9, <2>10, <3>1, <3>2 DEF MemoryOK
    <2>13. ASSUME NEW H, Leads(m, H) PROVE Leads(e, H)
        <3>1. \A h \in H : h[1] \in Names /\ m.cmds[h[1]].to \in 1..Len(m.heap)
            BY <2>13 DEF Leads, MemoryOK
        <3> QED BY <2>6, <2>10, <2>13, <3>1 DEF Leads, Same
    <2>14. PICK frees \in BOOLEAN : frees = FALSE
        OBVIOUS
    <2>15. d = CreateCommand(e, k, o, frees)
        <3>1. d = [CreateCommand(m, k, o, FALSE) EXCEPT !.heap[o].name = k]
            BY <1>3, <2>2 DEF EntryToObj
        <3>2. CreateCommand(m, k, o, FALSE) = [m EXCEPT !.cmds[k] = [to |-> o, frees |-> FALSE]]
            BY <2>3 DEF CreateCommand
        <3>3. CreateCommand(e, k, o, frees) = [e EXCEPT !.cmds[k] = [to |-> o, frees |-> FALSE]]
            BY <2>3, <2>6, <2>14 DEF CreateCommand
        <3>4. d = [heap |-> [m.heap EXCEPT ![o] = v], table |-> m.table,
                   cmds |-> [m.cmds EXCEPT ![k] = [to |-> o, frees |-> FALSE]]]
            <4>1. PICK c : c = [m.cmds EXCEPT ![k] = [to |-> o, frees |-> FALSE]]
                OBVIOUS
            <4>2. [m EXCEPT !.cmds = c] = [heap |-> m.heap, table |-> m.table, cmds |-> c]
                BY <1>1 DEF Memories
            <4>3. d = [[heap |-> m.heap, table |-> m.table, cmds |-> c] EXCEPT !.heap[o].name = k]
                BY <3>1, <3>2, <4>1, <4>2
            <4>4. d = [heap |-> [m.heap EXCEPT ![o].name = k], table |-> m.table, cmds |-> c]
                BY <4>3
            <4>5. [m.heap EXCEPT ![o].name = k] = [m.heap EXCEPT ![o] = v]
                BY <2>4
            <4> QED BY <4>1, <4>4, <4>5
        <3>5. CreateCommand(e, k, o, frees) =
                  [heap |-> [m.heap EXCEPT ![o] = v], table |-> m.table,
                   cmds |-> [m.cmds EXCEPT ![k] = [to |-> o, frees |-> FALSE]]]
            <4>1. PICK c : c = CreateCommand(e, k, o, frees)
                OBVIOUS
            <4>2. /\ c.heap = e.heap /\ c.table = e.table
                  /\ c.cmds = [e.cmds EXCEPT ![k] = [to |-> o, frees |-> FALSE]]
                  /\ c = [heap |-> c.heap, table |-> c.table, cmds |-> c.cmds]
                BY <2>10, <3>3, <4>1 DEF Memories
            <4> QED BY <2>6, <4>1, <4>2
        <3> QED BY <3>4, <3>5
    <2>16. e.cmds[k].to = 0 /\ o \in 1..Len(e.heap) /\ e.heap[o].live /\ e.heap[o].name = k
        BY <2>3, <2>6, <2>7, <2>9
    <2>17. /\ MemoryOK(d) /\ d.heap = e.heap /\ d.table = e.table
           /\ d.cmds[k].to = o /\ \A j \in Names \ {k} : d.cmds[j] = e.cmds[j]
           /\ \A H : Leads(e, H) => Leads(d, H \cup {<<k, e.heap[o].id>>})
        BY <2>3, <2>12, <2>14, <2>15, <2>16, CommandMade
    <2>18. \A H : Leads(m, H) => Leads(d, H \cup {Given(d, o)})
        BY <2>7, <2>9, <2>13, <2>17 DEF Given
    <2>19. \A j \in Names : m.cmds[j].to # 0 => d.cmds[j] = m.cmds[j]
        BY <2>3, <2>6, <2>17
    <2> QED BY <2>3, <2>6, <2>7, <2>9, <2>10, <2>17, <2>18, <2>19 DEF Same
<1> QED BY <1>2, <1>3

-----------------------------------------------------------------------------
(* The same of all objects of a set.                                         *)

\* Sets of objects are finite.
LEMMA ListedFinite ==
    ASSUME NEW m, MemoryOK(m), NEW D, D \subseteq 1..Len(m.heap)
    PROVE  IsFiniteSet(D)
<1>1. Len(m.heap) \in Int /\ 1 \in Int
    BY MemoryIs DEF MemoryOK
<1> QED BY <1>1, FS_Interval, FS_Subset

\* The list is freed: names lead where they led.
LEMMA FreedAll ==
    ASSUME NEW m, MemoryOK(m), NEW D, Listed(m, D), NEW H, Leads(m, H),
           NEW d, d = FoldSet(LAMBDA o, x : FreeEntry(x, o), m, D)
    PROVE  MemoryOK(d) /\ Leads(d, H)
<1>1. IsFiniteSet(D)
    BY ListedFinite DEF Listed
<1>2. PICK h : OnTheWay(h, "free", m, D) /\ d = h[D]
    BY <1>1, FreedWay
<1> DEFINE F == {s \in SUBSET D : MemoryOK(h[s]) /\ Listed(h[s], D \ s) /\ Leads(h[s], H)}
<1>3. {} \in F
    <2>1. h[{}] = m /\ D \ {} = D
        BY <1>2 DEF OnTheWay
    <2> QED BY <2>1
<1>4. ASSUME NEW s \in SUBSET D, s # {}, \A x \in s : s \ {x} \in F PROVE s \in F
    <2>1. PICK o \in s : h[s] = Turn("free", o, h[s \ {o}])
        BY <1>2, <1>4 DEF OnTheWay
    <2>2. PICK e : e = h[s \ {o}]
        OBVIOUS
    <2>3. MemoryOK(e) /\ Listed(e, D \ (s \ {o})) /\ Leads(e, H)
        BY <1>4, <2>2
    <2>4. h[s] = FreeEntry(e, o)
        BY <2>1, <2>2 DEF Turn
    <2>5. o \in 1..Len(e.heap) /\ \A k \in Names : e.cmds[k].to # o
        BY <2>3 DEF Listed
    <2>6. (D \ (s \ {o})) \ {o} = D \ s
        OBVIOUS
    <2>7. /\ MemoryOK(h[s]) /\ \A E : Listed(e, E) => Listed(h[s], E \ {o})
          /\ Leads(h[s], H)
        BY <2>3, <2>4, <2>5, FreeKeeps
    <2>8. Listed(h[s], (D \ (s \ {o})) \ {o})
        BY <2>3, <2>7
    <2> QED BY <2>6, <2>7, <2>8
<1>5. D \in F
    <2> HIDE DEF F
    <2> QED BY <1>1, <1>3, <1>4, SetInduction
<1> QED BY <1>2, <1>5

\* The list is restored: the names of its objects lead to them again.
LEMMA RestoredAll ==
    ASSUME NEW m, MemoryOK(m), NEW D, Listed(m, D), NEW H, Leads(m, H),
           \A o \in D : m.heap[o].name # NoName,
           NEW d, d = FoldSet(LAMBDA o, x : RestoreEntry(x, o), m, D)
    PROVE  MemoryOK(d) /\ Leads(d, H \cup {Given(m, o) : o \in D})
<1>1. IsFiniteSet(D)
    BY ListedFinite DEF Listed
<1>2. PICK h : OnTheWay(h, "restore", m, D) /\ d = h[D]
    BY <1>1, RestoredWay
<1> DEFINE F == {s \in SUBSET D : /\ MemoryOK(h[s]) /\ h[s].heap = m.heap
                                  /\ Listed(h[s], D \ s)
                                  /\ Leads(h[s], H \cup {Given(m, o) : o \in s})}
<1>3. {} \in F
    <2>1. h[{}] = m /\ D \ {} = D /\ H \cup {Given(m, o) : o \in {}} = H
        BY <1>2 DEF OnTheWay
    <2> QED BY <2>1
<1>4. ASSUME NEW s \in SUBSET D, s # {}, \A x \in s : s \ {x} \in F PROVE s \in F
    <2>1. PICK o \in s : h[s] = Turn("restore", o, h[s \ {o}])
        BY <1>2, <1>4 DEF OnTheWay
    <2>2. PICK e : e = h[s \ {o}]
        OBVIOUS
    <2>3. PICK E, G : E = D \ (s \ {o}) /\ G = H \cup {Given(m, q) : q \in s \ {o}}
        OBVIOUS
    <2>4. MemoryOK(e) /\ e.heap = m.heap /\ Listed(e, E) /\ Leads(e, G)
        BY <1>4, <2>2, <2>3
    <2>5. h[s] = RestoreEntry(e, o)
        BY <2>1, <2>2 DEF Turn
    <2>6. o \in E /\ e.heap[o].name # NoName /\ E \ {o} = D \ s
        BY <2>3, <2>4
    <2>9. /\ MemoryOK(h[s]) /\ h[s].heap = e.heap /\ Listed(h[s], E \ {o})
          /\ \A J : Leads(e, J) => Leads(h[s], J \cup {Given(e, o)})
        <3>1. PICK c : c = h[s]
            OBVIOUS
        <3> QED BY <2>4, <2>5, <2>6, <3>1, RestoreKeeps
    <2>7. /\ MemoryOK(h[s]) /\ h[s].heap = e.heap /\ Listed(h[s], E \ {o})
          /\ Leads(h[s], G \cup {Given(e, o)})
        BY <2>4, <2>9
    <2>8. G \cup {Given(e, o)} = H \cup {Given(m, q) : q \in s}
        BY <2>3, <2>4 DEF Given
    <2> QED BY <2>4, <2>6, <2>7, <2>8
<1>5. D \in F
    <2> HIDE DEF F
    <2> QED BY <1>1, <1>3, <1>4, SetInduction
<1> QED BY <1>2, <1>5

\* After detaching no command leads to an object of the table.
LEMMA DetachedAll ==
    ASSUME NEW m, MemoryOK(m), NEW K, K \subseteq 1..Len(m.heap),
           NEW h, OnTheWay(h, "detach", m, K), NEW d, d = h[K]
    PROVE  /\ MemoryOK(d) /\ Len(d.heap) = Len(m.heap)
           /\ \A o \in K, k \in Names : d.cmds[k].to # o
<1>1. IsFiniteSet(K)
    BY ListedFinite
<1> DEFINE F == {s \in SUBSET K : /\ MemoryOK(h[s]) /\ Len(h[s].heap) = Len(m.heap)
                                  /\ \A o \in s, k \in Names : h[s].cmds[k].to # o}
<1>3. {} \in F
    <2>1. h[{}] = m
        BY DEF OnTheWay
    <2> QED BY <2>1
<1> HIDE DEF F
<1>4. ASSUME NEW s \in SUBSET K, s # {}, \A x \in s : s \ {x} \in F PROVE s \in F
    <2>1. PICK o \in s : h[s] = Turn("detach", o, h[s \ {o}])
        BY <1>4 DEF OnTheWay
    <2>2. PICK e : e = h[s \ {o}]
        OBVIOUS
    <2>9. s \ {o} \in F
        BY <1>4
    <2>10. /\ MemoryOK(e) /\ Len(e.heap) = Len(m.heap)
          /\ \A q \in s \ {o}, k \in Names : e.cmds[k].to # q
        BY <2>2, <2>9 DEF F
    <2>3. /\ MemoryOK(e) /\ Len(e.heap) = Len(m.heap) /\ o \in 1..Len(e.heap) /\ e \in Memories
          /\ \A q \in s \ {o}, k \in Names : e.cmds[k].to # q
        BY <2>10 DEF MemoryOK
    <2>4. h[s] = IF e.heap[o].name = NoName THEN e ELSE DeleteCommand(e, e.heap[o].name)
        BY <2>1, <2>2 DEF Turn
    <2>5. e.heap[o].name \in Names \cup {NoName} /\ NoName \notin Names /\ o # 0
        <3>1. e.heap[o].name \in Names \cup {NoName} /\ NoName \notin Names
            BY <2>3, MemoryIs
        <3>2. o # 0
            <4>1. Len(e.heap) \in Nat
                BY <2>3, MemoryIs
            <4> QED BY <2>3, <4>1
        <3> QED BY <3>1, <3>2
    <2>6. \A k \in Names : e.cmds[k].to = o => e.heap[o].name = k
        BY <2>3, <2>5 DEF MemoryOK
    <2>7. CASE e.heap[o].name = NoName
        BY <2>3, <2>4, <2>5, <2>6, <2>7 DEF F
    <2>8. CASE e.heap[o].name # NoName
        <3>1. PICK k \in Names : k = e.heap[o].name
            BY <2>5, <2>8
        <3>2. PICK c : c = DeleteCommand(e, k) /\ c = h[s]
            BY <2>4, <2>8, <3>1
        <3>3. /\ MemoryOK(c) /\ Same(e, c) /\ c.cmds[k].to = 0
              /\ \A j \in Names \ {k} : c.cmds[j] = e.cmds[j]
            <4>1. MemoryOK(c)
                BY <2>3, <3>2, DeleteKeeps
            <4>2. /\ Same(e, c) /\ c.cmds[k].to = 0
                  /\ \A j \in Names \ {k} : c.cmds[j] = e.cmds[j]
                <5>1. MemoryOK(e) /\ c = DeleteCommand(e, k)
                    BY <2>10, <3>2
                <5> QED BY <5>1, DeletedCommand
            <4> QED BY <4>1, <4>2
        <3>4. \A q \in s, j \in Names : c.cmds[j].to # q
            <4> SUFFICES ASSUME NEW q \in s, NEW j \in Names, c.cmds[j].to = q PROVE FALSE
                OBVIOUS
            <4>1. q # 0
                <5>1. Len(e.heap) \in Nat /\ q \in 1..Len(m.heap)
                    BY <2>3, MemoryIs
                <5> QED BY <2>3, <5>1
            <4>2. j # k /\ e.cmds[j].to = q
                BY <3>3, <4>1
            <4> QED BY <2>3, <2>6, <3>1, <4>2
        <3> QED BY <2>3, <3>2, <3>3, <3>4 DEF F, Same
    <2> QED BY <2>7, <2>8
<1>5. K \in F
    BY <1>1, <1>3, <1>4, SetInduction
<1> QED BY <1>5 DEF F

\* Ids are finitely many.
LEMMA IdsFinite == IsFiniteSet(Ids)
<1>1. MaxId \in Int /\ 1 \in Int
    BY TxnAssumption
<1> QED BY <1>1, FS_Interval DEF Ids

\* What the table has for an id leads back, or has no name yet.
Ready(m, i) ==
    m.heap[m.table[i]].name # NoName => m.cmds[m.heap[m.table[i]].name].to = m.table[i]

\* Each entry that is found has an object, with a name that leads to it or none.
LEMMA MetAll ==
    ASSUME NEW m, MemoryOK(m), NEW S \in SUBSET Ids, NEW H, Leads(m, H),
           Len(m.heap) + Cardinality({i \in S : m.table[i] = 0}) <= MaxObjects,
           \A i \in S : m.table[i] # 0 => Ready(m, i),
           NEW h, OnTheWay(h, "meet", m, S), NEW d, d = h[S]
    PROVE  /\ MemoryOK(d) /\ Leads(d, H)
           /\ \A i \in S : d.table[i] # 0 /\ Ready(d, i)
<1>1. IsFiniteSet(S)
    <2>1. IsFiniteSet(Ids)
        BY IdsFinite
    <2> QED BY <2>1, FS_Subset
<1> DEFINE New(s) == {i \in S \ s : m.table[i] = 0}
           So(s) == /\ MemoryOK(h[s]) /\ Leads(h[s], H)
                    /\ Len(h[s].heap) + Cardinality(New(s)) <= MaxObjects
                    /\ \A i \in S \ s : h[s].table[i] = m.table[i]
                    /\ \A i \in s : h[s].table[i] # 0
                    /\ \A i \in S : h[s].table[i] # 0 => Ready(h[s], i)
           F == {s \in SUBSET S : So(s)}
<1>3. {} \in F
    <2>1. h[{}] = m /\ New({}) = {i \in S : m.table[i] = 0}
        BY DEF OnTheWay
    <2> QED BY <2>1
<1>n. \A s \in SUBSET S : IsFiniteSet(New(s)) /\ Cardinality(New(s)) \in Nat
    BY <1>1, FS_Subset, FS_CardinalityType
<1> HIDE DEF F, So, New
<1>4. ASSUME NEW s \in SUBSET S, s # {}, \A x \in s : s \ {x} \in F PROVE s \in F
    <2>1. PICK o \in s : h[s] = Turn("meet", o, h[s \ {o}])
        BY <1>4 DEF OnTheWay
    <2>2. PICK e : e = h[s \ {o}]
        OBVIOUS
    <2>3. PICK t : t = s \ {o} /\ t \in SUBSET S
        OBVIOUS
    <2>4. t \in F
        BY <1>4, <2>3
    <2>5. h[t] = e
        BY <2>2, <2>3
    <2>6. So(t)
        BY <2>4 DEF F
    <2>7. /\ MemoryOK(e) /\ Leads(e, H) /\ Len(e.heap) + Cardinality(New(t)) <= MaxObjects
          /\ \A i \in S \ t : e.table[i] = m.table[i]
          /\ \A i \in t : e.table[i] # 0
          /\ \A i \in S : e.table[i] # 0 => Ready(e, i)
        BY <2>5, <2>6 DEF So
    <2>8. e \in Memories /\ Len(e.heap) \in Nat
        BY <2>7, MemoryIs DEF MemoryOK
    <2>9. PICK c : c = h[s]
        OBVIOUS
    <2>10. c = StmtToEntry(e, o)
        BY <2>1, <2>2, <2>9 DEF Turn
    <2>11. o \in Ids /\ o \in S \ t
        BY <2>3
    <2>12. CASE e.table[o] # 0
        <3>1. c = e
            BY <2>10, <2>12 DEF StmtToEntry
        <3>2. New(s) \subseteq New(t)
            BY <2>3 DEF New
        <3>3. Cardinality(New(s)) <= Cardinality(New(t))
            BY <1>n, <2>3, <3>2, FS_Subset
        <3>4. Cardinality(New(s)) \in Nat /\ Cardinality(New(t)) \in Nat
            BY <1>n, <2>3
        <3>5. Len(c.heap) + Cardinality(New(s)) <= MaxObjects
            BY <2>7, <2>8, <3>1, <3>3, <3>4, HabitsAssumption
        <3>6. So(s)
            BY <2>3, <2>7, <2>9, <2>12, <3>1, <3>5 DEF So
        <3> QED BY <3>6 DEF F
    <2>13. CASE e.table[o] = 0
        <3>1. c = NewObject(e, o)
            BY <2>10, <2>13 DEF StmtToEntry
        <3>2. m.table[o] = 0
            BY <2>7, <2>11, <2>13
        <3>3. New(s) = New(t) \ {o} /\ o \in New(t)
            BY <2>3, <2>11, <3>2 DEF New
        <3>4. Cardinality(New(s)) = Cardinality(New(t)) - 1
            <4>1. PICK N : N = New(t)
                OBVIOUS
            <4>2. IsFiniteSet(N) /\ o \in N /\ New(s) = N \ {o}
                BY <1>n, <2>3, <3>3, <4>1
            <4>3. Cardinality(N \ {o}) = Cardinality(N) - 1
                BY <4>2, FS_RemoveElement
            <4> QED BY <4>1, <4>2, <4>3
        <3>5. Cardinality(New(s)) \in Nat /\ Cardinality(New(t)) \in Nat
            BY <1>n, <2>3
        <3>6. Len(e.heap) < MaxObjects
            BY <2>7, <2>8, <3>4, <3>5, HabitsAssumption
        <3>7. PICK n : n = Len(e.heap) + 1
            OBVIOUS
        <3>8. /\ MemoryOK(c) /\ c.cmds = e.cmds /\ Len(c.heap) = n
              /\ c.table[o] = n /\ \A j \in Ids \ {o} : c.table[j] = e.table[j]
              /\ c.heap[n] = [id |-> o, name |-> NoName, live |-> TRUE]
              /\ \A q \in 1..Len(e.heap) : c.heap[q] = e.heap[q]
              /\ \A J : Leads(e, J) => Leads(c, J)
            BY <2>7, <2>11, <3>1, <3>6, <3>7, ObjectMade
        <3>9. Len(c.heap) + Cardinality(New(s)) <= MaxObjects
            BY <2>7, <2>8, <3>4, <3>5, <3>7, <3>8, HabitsAssumption
        <3>10. \A i \in S \ {o} : c.table[i] = e.table[i]
            BY <3>8
        <3>11. ASSUME NEW i \in S, c.table[i] # 0 PROVE Ready(c, i)
            <4>1. CASE i = o
                BY <3>8, <4>1 DEF Ready
            <4>2. CASE i # o
                <5>1. e.table[i] # 0 /\ c.table[i] = e.table[i]
                    BY <3>10, <3>11, <4>2
                <5>2. Ready(e, i) /\ e.table[i] \in 1..Len(e.heap)
                    BY <2>7, <5>1 DEF MemoryOK
                <5> QED BY <3>8, <5>1, <5>2 DEF Ready
            <4> QED BY <4>1, <4>2
        <3>12. /\ \A i \in S \ s : c.table[i] = m.table[i]
               /\ \A i \in s : c.table[i] # 0
            BY <2>3, <2>7, <2>8, <3>7, <3>8, <3>10
        <3>13. Leads(c, H)
            BY <2>7, <3>8
        <3>14. So(s)
            BY <2>9, <3>8, <3>9, <3>11, <3>12, <3>13 DEF So
        <3> QED BY <3>14 DEF F
    <2> QED BY <2>12, <2>13
<1>5. S \in F
    BY <1>1, <1>3, <1>4, SetInduction
<1> QED BY <1>5 DEF F, So

\* Then each has a name, which leads to it.
LEMMA NamedAll ==
    ASSUME NEW m, MemoryOK(m), NEW S \in SUBSET Ids, NEW H, Leads(m, H),
           \A i \in S : m.table[i] # 0 /\ Ready(m, i),
           NEW h, OnTheWay(h, "name", m, S), NEW d, d = h[S]
    PROVE  /\ MemoryOK(d) /\ d.table = m.table /\ Same(m, d)
           /\ Leads(d, H) /\ \A i \in S : Leads(d, {Given(d, d.table[i])})
<1>1. IsFiniteSet(S)
    BY IdsFinite, FS_Subset
<1> DEFINE Gives(d1, s) == {Given(d1, m.table[i]) : i \in s}
           So(s) == /\ MemoryOK(h[s]) /\ h[s].table = m.table /\ Same(m, h[s])
                    /\ Leads(h[s], H \cup Gives(h[s], s))
                    /\ \A i \in S : Ready(h[s], i)
           F == {s \in SUBSET S : So(s)}
<1>2. {} \in F
    <2>1. h[{}] = m /\ Gives(h[{}], {}) = {}
        BY DEF OnTheWay
    <2>2. H \cup {} = H
        OBVIOUS
    <2>3. Same(m, m)
        BY DEF Same
    <2> HIDE DEF Gives
    <2> QED BY <2>1, <2>2, <2>3
<1>3. \A i \in S : /\ m.table[i] \in 1..Len(m.heap) /\ m.heap[m.table[i]].id = i
                   /\ m.heap[m.table[i]].live
    BY DEF MemoryOK
<1> HIDE DEF F, So, Gives
<1>4. ASSUME NEW s \in SUBSET S, s # {}, \A x \in s : s \ {x} \in F PROVE s \in F
    <2>1. PICK x \in s : h[s] = Turn("name", x, h[s \ {x}])
        BY <1>4 DEF OnTheWay
    <2>2. PICK e : e = h[s \ {x}]
        OBVIOUS
    <2>3. PICK t : t = s \ {x} /\ t \in SUBSET S
        OBVIOUS
    <2>4. So(t) /\ h[t] = e
        BY <1>4, <2>2, <2>3 DEF F
    <2>5. /\ MemoryOK(e) /\ e.table = m.table /\ Same(m, e) /\ Leads(e, H \cup Gives(e, t))
          /\ \A i \in S : Ready(e, i)
        BY <2>4 DEF So
    <2>6. PICK o : o = m.table[x]
        OBVIOUS
    <2>7. PICK c : c = h[s]
        OBVIOUS
    <2>8. c = EntryToObj(e, o)
        BY <2>1, <2>2, <2>5, <2>6, <2>7 DEF Turn
    <2>9. o \in 1..Len(e.heap) /\ e.heap[o].live
        BY <1>3, <2>5, <2>6 DEF Same
    <2>10. e.heap[o].name # NoName => e.cmds[e.heap[o].name].to = o
        <3>1. Ready(e, x)
            BY <2>5
        <3> QED BY <2>5, <2>6, <3>1 DEF Ready
    <2>11. /\ MemoryOK(c) /\ c.table = e.table /\ Same(e, c)
           /\ c.heap[o].name \in Names /\ c.cmds[c.heap[o].name].to = o
           /\ \A q \in 1..Len(e.heap) : q # o => c.heap[q].name = e.heap[q].name
           /\ \A k \in Names : e.cmds[k].to # 0 => c.cmds[k] = e.cmds[k]
           /\ \A J : Leads(e, J) => Leads(c, J \cup {Given(c, o)})
        BY <2>5, <2>8, <2>9, <2>10, ObjectNamed
    <2>12. Same(m, c)
        BY <2>5, <2>11 DEF Same
    <2>13. \A i \in S \ {x} : /\ m.table[i] # o /\ m.table[i] \in 1..Len(e.heap)
                              /\ c.heap[m.table[i]].name = e.heap[m.table[i]].name
                              /\ c.heap[m.table[i]].id = e.heap[m.table[i]].id
        <3>1. ASSUME NEW i \in S \ {x}
              PROVE  m.table[i] # o /\ m.table[i] \in 1..Len(e.heap)
            BY <1>3, <2>5, <2>6 DEF Same
        <3>2. ASSUME NEW q \in 1..Len(e.heap), q # o
              PROVE  c.heap[q].name = e.heap[q].name /\ c.heap[q].id = e.heap[q].id
            BY <2>11, <3>2 DEF Same
        <3> QED BY <3>1, <3>2
    <2>14. ASSUME NEW i \in S PROVE Ready(c, i)
        <3>1. CASE i = x
            BY <2>5, <2>6, <2>11, <3>1 DEF Ready
        <3>2. CASE i # x
            <4>1. PICK q : q = m.table[i] /\ q \in 1..Len(e.heap)
                BY <2>13, <3>2
            <4>2. e \in Memories
                BY <2>5 DEF MemoryOK
            <4>3. e.heap[q].name \in Names \cup {NoName} /\ q # 0
                <5>1. Len(e.heap) \in Nat
                    BY <4>2, MemoryIs
                <5>2. q # 0
                    BY <4>1, <5>1
                <5> QED BY <4>1, <4>2, <5>2, MemoryIs
            <4>4. e.heap[q].name # NoName => e.cmds[e.heap[q].name].to = q
                BY <2>5, <4>1 DEF Ready
            <4>5. c.heap[q].name = e.heap[q].name
                BY <2>13, <3>2, <4>1
            <4>6. c.heap[q].name # NoName => c.cmds[c.heap[q].name].to = q
                BY <2>11, <4>3, <4>4, <4>5
            <4> QED BY <2>5, <2>11, <4>1, <4>6 DEF Ready
        <3> QED BY <3>1, <3>2
    <2>15. Gives(c, s) \subseteq Gives(e, t) \cup {Given(c, o)}
        <3>1. ASSUME NEW i \in s PROVE Given(c, m.table[i]) \in Gives(e, t) \cup {Given(c, o)}
            <4>1. CASE i = x
                BY <2>6, <4>1
            <4>2. CASE i # x
                <5>1. i \in t /\ i \in S \ {x}
                    BY <2>3, <4>2
                <5>2. Given(c, m.table[i]) = Given(e, m.table[i])
                    BY <2>13, <5>1 DEF Given
                <5> QED BY <5>1, <5>2 DEF Gives
            <4> QED BY <4>1, <4>2
        <3> QED BY <3>1 DEF Gives
    <2>16. Leads(c, H \cup Gives(c, s))
        <3>1. Leads(c, (H \cup Gives(e, t)) \cup {Given(c, o)})
            BY <2>5, <2>11
        <3> QED BY <2>15, <3>1 DEF Leads
    <2>17. So(s)
        BY <2>5, <2>7, <2>11, <2>12, <2>14, <2>16 DEF So
    <2> QED BY <2>17 DEF F
<1>5. S \in F
    BY <1>1, <1>2, <1>4, SetInduction
<1>6. MemoryOK(d) /\ d.table = m.table /\ Same(m, d) /\ Leads(d, H \cup Gives(d, S))
    BY <1>5 DEF F, So
<1>7. Leads(d, H)
    BY <1>6 DEF Leads
<1>8. ASSUME NEW i \in S PROVE Leads(d, {Given(d, d.table[i])})
    <2>1. PICK x : x = Given(d, d.table[i])
        OBVIOUS
    <2>2. x \in H \cup Gives(d, S)
        BY <1>6, <2>1 DEF Gives
    <2> QED BY <1>6, <2>1, <2>2 DEF Leads
<1> QED BY <1>6, <1>7, <1>8

-----------------------------------------------------------------------------
(* The memories of all processes, step by step.                              *)

\* The name of the object whose rows are being deleted is one a command has.
Marked(p) ==
    /\ "can_write" \in status[p] /\ victim[p] # 0
    /\ \E n \in Names : heap[p][victim[p]].name = n /\ cmds[p][n].to = victim[p]

HeapOf(p) ==
    /\ MemoryOK(Memory(p)) /\ Listed(Memory(p), ToSet(deleted[p])) /\ Leads(Memory(p), held[p])
    /\ deleted[p] \in Seq(Nat)
    /\ deleted[p] # <<>> => pc[p] \in InScript \cup {"commit", "rollback"}
    /\ pc[p] \in {"files", "deps"} => Marked(p)

Domains ==
    /\ DOMAIN heap = Procs /\ DOMAIN table = Procs /\ DOMAIN cmds = Procs
    /\ DOMAIN deleted = Procs /\ DOMAIN victim = Procs /\ DOMAIN held = Procs

HeapInv == Domains /\ \A p \in Procs : HeapOf(p)

\* A step changes nothing that is another process's.
LEMMA StepMemory ==
    ASSUME NEW p \in Procs, Step(p), Domains
    PROVE  /\ Domains'
           /\ \A q \in Procs \ {p} : /\ heap'[q] = heap[q] /\ table'[q] = table[q]
                                     /\ cmds'[q] = cmds[q] /\ deleted'[q] = deleted[q]
                                     /\ victim'[q] = victim[q] /\ held'[q] = held[q]
<1> USE DEF Domains
<1>1. CASE Open(p) \/ Begin(p) \/ ScriptEnds(p) \/ Started(p) \/ DeleteFiles(p) \/ Waiting(p)
    BY <1>1 DEF Open, Begin, ScriptEnds, Started, DeleteFiles, Waiting, objVars
<1>2. CASE CannotOpen(p) \/ Kill(p) \/ Crash(p)
    BY <1>2 DEF CannotOpen, Kill, Crash, Gone
<1>3. CASE Create(p)
    BY <1>3 DEF Create, Remember
<1>4. CASE Find(p)
    BY <1>4 DEF Find, Remember
<1>5. CASE Close(p) \/ Delete(p)
    BY <1>5 DEF Close, Delete, Remember
<1>6. CASE DeleteDeps(p)
    BY <1>6 DEF DeleteDeps, Removed, Remember
<1>7. CASE StatementFails(p)
    BY <1>7 DEF StatementFails
<1>8. CASE Committing(p) \/ RollingBack(p) \/ EndFailed(p)
    BY <1>8 DEF Committing, RollingBack, EndFailed, GiveBack, Remember
<1>9. CASE Detach(p)
    BY <1>9 DEF Detach, Remember
<1> QED
    BY <1>1, <1>2, <1>3, <1>4, <1>5, <1>6, <1>7, <1>8, <1>9 DEF Step, Proceed

\* A step that keeps the memory of its process keeps them all.
LEMMA OthersHeap ==
    ASSUME TxnInv, HeapInv, NEW p \in Procs, Step(p), HeapOf(p)'
    PROVE  HeapInv'
<1>1. Domains'
    BY StepMemory DEF HeapInv
<1>2. ASSUME NEW q \in Procs \ {p} PROVE HeapOf(q)'
    <2>1. Kept(q) /\ HeapOf(q)
        BY <1>2, StepKept DEF HeapInv
    <2>2. /\ heap'[q] = heap[q] /\ table'[q] = table[q]
          /\ cmds'[q] = cmds[q] /\ deleted'[q] = deleted[q]
          /\ victim'[q] = victim[q] /\ held'[q] = held[q]
        BY <1>2, StepMemory DEF HeapInv
    <2>3. Memory(q)' = Memory(q)
        BY <2>2 DEF Memory
    <2> QED BY <2>1, <2>2, <2>3 DEF Kept, HeapOf, Marked
<1> QED BY <1>1, <1>2 DEF HeapInv

\* A memory that is remembered is the process's.
LEMMA Remembered ==
    ASSUME HeapInv, NEW p \in Procs, NEW d, MemoryOK(d), Remember(p, d)
    PROVE  Memory(p)' = d
<1>1. d \in Memories
    BY DEF MemoryOK
<1>2. heap'[p] = d.heap /\ table'[p] = d.table /\ cmds'[p] = d.cmds
    BY DEF HeapInv, Domains, Remember
<1> QED BY <1>1, <1>2 DEF Memory, Memories

\* Nothing is changed but the place.
LEMMA HeapMoved ==
    ASSUME HeapInv, NEW p \in Procs, UNCHANGED objVars,
           deleted[p] = <<>> \/ pc'[p] \in InScript \cup {"commit", "rollback"},
           pc'[p] \in {"files", "deps"} => pc[p] \in {"files", "deps"} /\ status'[p] = status[p]
    PROVE  HeapOf(p)'
<1>1. HeapOf(p) /\ Memory(p)' = Memory(p)
    BY DEF HeapInv, Memory, objVars
<1>2. pc'[p] \in {"files", "deps"} => Marked(p)'
    BY <1>1 DEF HeapOf, Marked, objVars
<1> QED BY <1>1, <1>2 DEF HeapOf, objVars

\* The list is empty, and nothing is being deleted.
LEMMA HeapEnds ==
    ASSUME NEW p \in Procs, MemoryOK(Memory(p)'), Leads(Memory(p)', held'[p]),
           deleted'[p] = <<>>, pc'[p] \notin {"files", "deps"}
    PROVE  HeapOf(p)'
<1>1. ToSet(<<>>) = {} /\ <<>> \in Seq(Nat)
    BY DEF ToSet
<1>2. Listed(Memory(p)', ToSet(deleted'[p]))
    BY <1>1 DEF Listed
<1> QED BY <1>1, <1>2 DEF HeapOf

\* Scripts do not do what MacPorts' own do not, but for deleting again.
Careful == Habits \subseteq {"again"}

\* The steps, each for its process.
LEMMA CreateHeap ==
    ASSUME Careful, HeapInv, NEW p \in Procs, Create(p)
    PROVE  HeapOf(p)'
<1>1. PICK m : m = Memory(p)
    OBVIOUS
<1>2. PICK i \in Ids : i = View(p).next
    BY DEF Create
<1>3. PICK e : e = NewObject(m, i)
    OBVIOUS
<1>4. PICK o : o = Len(m.heap) + 1
    OBVIOUS
<1>5. /\ HeapOf(p) /\ MemoryOK(m) /\ Leads(m, held[p]) /\ deleted[p] = <<>>
      /\ Len(m.heap) < MaxObjects
    BY <1>1 DEF HeapInv, HeapOf, Create, Unmixed, Careful, Room, Memory
<1>6. /\ MemoryOK(e) /\ e.cmds = m.cmds /\ o \in Nat /\ Len(e.heap) = o /\ o \in 1..o
      /\ e.heap[o] = [id |-> i, name |-> NoName, live |-> TRUE]
      /\ \A H : Leads(m, H) => Leads(e, H)
    BY <1>3, <1>4, <1>5, ObjectMade
<1>7. PICK d : d = EntryToObj(e, o)
    OBVIOUS
<1>8. o \in 1..Len(e.heap) /\ e.heap[o].live /\ e.heap[o].name = NoName
    BY <1>6
<1>9. MemoryOK(d) /\ \A H : Leads(e, H) => Leads(d, H \cup {Given(d, o)})
    BY <1>6, <1>7, <1>8, ObjectNamed
<1>10. /\ Remember(p, d) /\ held' = [held EXCEPT ![p] = @ \cup {Given(d, o)}]
       /\ UNCHANGED <<deleted, pc>> /\ pc[p] = "script"
    BY <1>1, <1>2, <1>3, <1>6, <1>7 DEF Create, Quiet
<1>11. Memory(p)' = d /\ held'[p] = held[p] \cup {Given(d, o)}
    BY <1>9, <1>10, Remembered DEF HeapInv, Domains
<1>12. Leads(d, held[p] \cup {Given(d, o)})
    BY <1>5, <1>6, <1>9
<1> QED BY <1>5, <1>9, <1>10, <1>11, <1>12, HeapEnds

LEMMA FindHeap ==
    ASSUME Careful, TxnInv, HeapInv, NEW p \in Procs, Find(p)
    PROVE  HeapOf(p)'
<1>1. PICK m : m = Memory(p)
    OBVIOUS
<1>2. PICK found \in SUBSET View(p).ports :
          LET met == FoldSet(LAMBDA i, n : StmtToEntry(n, i), Memory(p), found)
              all == FoldSet(LAMBDA i, n : EntryToObj(n, n.table[i]), met, found)
          IN  /\ found # {}
              /\ "reopen" \in Habits \/ \A i \in found : table[p][i] # 0 => ~Closed(p, table[p][i])
              /\ Len(heap[p]) + Cardinality({i \in found : table[p][i] = 0}) <= MaxObjects
              /\ Remember(p, all)
              /\ held' = [held EXCEPT ![p] = @ \cup {Given(all, all.table[i]) : i \in found}]
    BY DEF Find
<1>3. found \in SUBSET Ids /\ IsFiniteSet(found)
    <2>1. found \in SUBSET Ids
        BY <1>2, ViewType DEF Databases
    <2> QED BY <2>1, IdsFinite, FS_Subset
<1>4. PICK f : /\ OnTheWay(f, "meet", m, found)
               /\ FoldSet(LAMBDA i, n : StmtToEntry(n, i), m, found) = f[found]
    BY <1>3, MetWay
<1>5. PICK e : e = f[found]
    OBVIOUS
<1>6. PICK g : /\ OnTheWay(g, "name", e, found)
               /\ FoldSet(LAMBDA i, n : EntryToObj(n, n.table[i]), e, found) = g[found]
    BY <1>3, NamedWay
<1>7. PICK d : d = g[found]
    OBVIOUS
<1>8. /\ "reopen" \in Habits \/ \A i \in found : table[p][i] # 0 => ~Closed(p, table[p][i])
      /\ Len(heap[p]) + Cardinality({i \in found : table[p][i] = 0}) <= MaxObjects
      /\ Remember(p, d)
      /\ held' = [held EXCEPT ![p] = @ \cup {Given(d, d.table[i]) : i \in found}]
    BY <1>1, <1>2, <1>4, <1>5, <1>6, <1>7, Zenon
<1>9. HeapOf(p) /\ MemoryOK(m) /\ Leads(m, held[p]) /\ deleted[p] = <<>>
    BY <1>1 DEF HeapInv, HeapOf, Find, Unmixed, Careful
<1>10. \A i \in found : m.table[i] # 0 => Ready(m, i)
    BY <1>1, <1>8 DEF Careful, Closed, Memory, Ready
<1>11. Len(m.heap) + Cardinality({i \in found : m.table[i] = 0}) <= MaxObjects
    BY <1>1, <1>8 DEF Memory
<1>12. MemoryOK(e) /\ Leads(e, held[p]) /\ \A i \in found : e.table[i] # 0 /\ Ready(e, i)
    BY <1>3, <1>4, <1>5, <1>9, <1>10, <1>11, MetAll
<1>13. PICK G : G = {Given(d, d.table[i]) : i \in found}
    OBVIOUS
<1>14. MemoryOK(d) /\ Leads(d, held[p] \cup G)
    <2>1. /\ MemoryOK(e) /\ found \in SUBSET Ids /\ Leads(e, held[p])
          /\ \A i \in found : e.table[i] # 0 /\ Ready(e, i)
          /\ OnTheWay(g, "name", e, found) /\ d = g[found]
        BY <1>3, <1>6, <1>7, <1>12
    <2>2. MemoryOK(d) /\ Leads(d, held[p]) /\ \A i \in found : Leads(d, {Given(d, d.table[i])})
        BY <2>1, NamedAll
    <2>3. ASSUME NEW h \in G PROVE Leads(d, {h})
        <3>1. PICK i \in found : h = Given(d, d.table[i])
            BY <1>13
        <3> QED BY <2>2, <3>1
    <2> QED BY <2>2, <2>3 DEF Leads
<1>15. Memory(p)' = d /\ held'[p] = held[p] \cup G
    BY <1>8, <1>13, <1>14, Remembered DEF HeapInv, Domains
<1>16. deleted'[p] = <<>> /\ pc'[p] \notin {"files", "deps"}
    BY <1>9 DEF Find, Call, Quiet
<1> QED BY <1>14, <1>15, <1>16, HeapEnds

LEMMA CloseHeap ==
    ASSUME HeapInv, NEW p \in Procs, Close(p)
    PROVE  HeapOf(p)'
<1>1. PICK m : m = Memory(p)
    OBVIOUS
<1>2. PICK h \in held[p] : /\ cmds[p][h[1]].to # 0
                           /\ Remember(p, DeleteCommand(m, h[1]))
                           /\ held' = [held EXCEPT ![p] = @ \ {h}]
    BY <1>1 DEF Close
<1>3. /\ HeapOf(p) /\ MemoryOK(m) /\ Listed(m, ToSet(deleted[p])) /\ Leads(m, held[p])
    BY <1>1 DEF HeapInv, HeapOf
<1>4. PICK k \in Names : k = h[1]
    BY <1>3 DEF Leads
<1>5. PICK d : d = DeleteCommand(m, k)
    OBVIOUS
<1>6. /\ MemoryOK(d) /\ \A D : Listed(m, D) => Listed(d, D)
      /\ \A H : Leads(m, H) => Leads(d, {g \in H : g[1] # k})
    BY <1>3, <1>5, DeleteKeeps
<1>7. held[p] \ {h} = {g \in held[p] : g[1] # k}
    <2>1. \A g \in held[p] : g \in Names \X Ids /\ m.heap[m.cmds[g[1]].to].id = g[2]
        BY <1>3 DEF Leads
    <2>2. ASSUME NEW g \in held[p], g[1] = k PROVE g = h
        BY <1>4, <2>1, <2>2
    <2> QED BY <1>4, <2>2
<1>8. Memory(p)' = d /\ held'[p] = {g \in held[p] : g[1] # k}
    <2>1. Memory(p)' = d
        BY <1>2, <1>4, <1>5, <1>6, Remembered
    <2>2. held'[p] = held[p] \ {h}
        BY <1>2 DEF HeapInv, Domains
    <2> QED BY <1>7, <2>1, <2>2
<1>9. UNCHANGED <<deleted, victim, pc, status>> /\ pc[p] \in {"idle", "script"}
    BY DEF Close, Call, Quiet
<1>10. Leads(d, {g \in held[p] : g[1] # k}) /\ Listed(d, ToSet(deleted[p]))
    BY <1>3, <1>6
<1> QED BY <1>3, <1>6, <1>8, <1>9, <1>10 DEF HeapOf

LEMMA DeleteHeap ==
    ASSUME Careful, TxnInv, HeapInv, NEW p \in Procs, Delete(p)
    PROVE  HeapOf(p)'
<1>1. PICK h \in held[p] : LET o == cmds[p][h[1]].to
                           IN  o # 0 /\ victim' = [victim EXCEPT ![p] = o]
    BY DEF Delete
<1>2. HeapOf(p) /\ MemoryOK(Memory(p)) /\ Leads(Memory(p), held[p])
    BY DEF HeapInv, HeapOf
<1>3. PICK k \in Names : k = h[1]
    BY <1>2 DEF Leads
<1>4. victim'[p] = cmds[p][k].to /\ cmds[p][k].to # 0
    BY <1>1, <1>3 DEF HeapInv, Domains
<1>5. heap[p][cmds[p][k].to].name = k
    BY <1>2, <1>4 DEF MemoryOK, Memory
<1>6. /\ UNCHANGED <<status, heap, table, cmds, deleted, held>> /\ pc'[p] = "files"
      /\ "can_write" \in status[p]
    BY DEF Delete, Careful, TxnInv, TxnTypeOK
<1>7. Marked(p)' /\ Memory(p)' = Memory(p)
    BY <1>4, <1>5, <1>6 DEF Marked, Memory
<1> QED BY <1>2, <1>6, <1>7 DEF HeapOf, InScript

\* A command that is deleted leaves its object to the list.
LEMMA DeleteLists ==
    ASSUME NEW m, MemoryOK(m), NEW D, Listed(m, D), NEW k \in Names, NEW o,
           o = m.cmds[k].to, o # 0, NEW d, d = DeleteCommand(m, k)
    PROVE  Listed(d, D \cup {o})
<1>1. /\ d.table = m.table /\ Same(m, d)
      /\ d.cmds[k].to = 0 /\ \A j \in Names \ {k} : d.cmds[j] = m.cmds[j]
      /\ \A q \in 1..Len(m.heap) :
            /\ d.heap[q].name \in {m.heap[q].name, NoName}
            /\ q # o => d.heap[q].name = m.heap[q].name
    BY DeletedCommand
<1>2. MemoryOK(d) /\ Listed(d, D)
    BY DeleteKeeps
<1>3. o \in 1..Len(m.heap) /\ m.heap[o].name = k /\ m.heap[o].live
    BY DEF MemoryOK
<1>4. \A q \in D : q \in 1..Len(m.heap) /\ m.heap[q].name # k
    <2>1. k # NoName
        BY MemoryIs DEF MemoryOK
    <2> QED BY <2>1 DEF Listed
<1>5. o \in 1..Len(d.heap) /\ d.heap[o].live /\ o \notin D
    BY <1>1, <1>3, <1>4 DEF Same
<1>6. \A j \in Names : d.cmds[j].to # o
    <2> SUFFICES ASSUME NEW j \in Names, d.cmds[j].to = o PROVE FALSE
        OBVIOUS
    <2>1. j # k
        BY <1>1
    <2>2. m.cmds[j].to = o
        BY <1>1, <2>1
    <2> QED BY <1>3, <2>1, <2>2 DEF MemoryOK
<1>7. d.heap[o].name \in {k, NoName}
    BY <1>1, <1>3
<1>8. d.heap[o].name # NoName => d.cmds[d.heap[o].name].to = 0
    BY <1>1, <1>7
<1>9. \A q \in D : d.heap[q].name # k
    BY <1>1, <1>4, <1>5
<1>10. \A q, r \in D \cup {o} : d.heap[q].name = d.heap[r].name /\ d.heap[r].name # NoName => q = r
    BY <1>2, <1>7, <1>9 DEF Listed
<1> QED BY <1>2, <1>5, <1>6, <1>8, <1>10 DEF Listed

LEMMA DeleteDepsHeap ==
    ASSUME TxnInv, HeapInv, NEW p \in Procs, DeleteDeps(p)
    PROVE  HeapOf(p)'
<1>1. PICK m : m = Memory(p)
    OBVIOUS
<1>2. PICK o : o = victim[p]
    OBVIOUS
<1>3. HeapOf(p) /\ Marked(p) /\ pc[p] = "deps" /\ "transacting" \in status[p]
    BY DEF DeleteDeps, HeapInv, HeapOf, TxnInv, TxnOf, InScript
<1>4. PICK k \in Names : heap[p][o].name = k /\ cmds[p][k].to = o
    BY <1>2, <1>3 DEF Marked
<1>5. /\ MemoryOK(m) /\ Listed(m, ToSet(deleted[p])) /\ Leads(m, held[p])
      /\ o = m.cmds[k].to /\ o # 0 /\ deleted[p] \in Seq(Nat)
    BY <1>1, <1>2, <1>3, <1>4 DEF HeapOf, Marked, Memory
<1>6. PICK d : d = DeleteCommand(m, k)
    OBVIOUS
<1>7. /\ Remember(p, d) /\ deleted' = [deleted EXCEPT ![p] = <<o>> \o @]
      /\ held' = [held EXCEPT ![p] = {h \in @ : h[1] # k}]
      /\ pc' = [pc EXCEPT ![p] = "script"]
    BY <1>1, <1>2, <1>3, <1>4, <1>6 DEF DeleteDeps, Removed, Marked
<1>8. MemoryOK(d) /\ Leads(d, {h \in held[p] : h[1] # k})
    BY <1>5, <1>6, DeleteKeeps
<1>9. Listed(d, ToSet(deleted[p]) \cup {o})
    BY <1>5, <1>6, DeleteLists
<1>10. /\ Memory(p)' = d /\ deleted'[p] = <<o>> \o deleted[p]
       /\ held'[p] = {h \in held[p] : h[1] # k} /\ pc'[p] = "script"
    BY <1>7, <1>8, Remembered DEF HeapInv, Domains, TxnInv, TxnTypeOK
<1>11. o \in Nat
    BY <1>5, MemoryIs DEF MemoryOK
<1>12. deleted'[p] \in Seq(Nat) /\ ToSet(deleted'[p]) = ToSet(deleted[p]) \cup {o}
    <2>1. PICK s \in Seq(Nat) : s = deleted[p]
        BY <1>5
    <2>2. PICK t : t = <<o>> \o s
        OBVIOUS
    <2>3. /\ t \in Seq(Nat) /\ Len(t) = Len(s) + 1 /\ t[1] = o
          /\ \A i \in 1..Len(s) : t[i + 1] = s[i]
        BY <1>11, <2>1, <2>2
    <2>4. DOMAIN t = 1..Len(t) /\ DOMAIN s = 1..Len(s) /\ Len(s) \in Nat
        BY <2>1, <2>3
    <2>5. \A j \in 1..Len(t) : j = 1 \/ (j - 1 \in 1..Len(s) /\ t[j] = s[j - 1])
        <3> SUFFICES ASSUME NEW j \in 1..Len(t), j # 1
                     PROVE  j - 1 \in 1..Len(s) /\ t[j] = s[j - 1]
            OBVIOUS
        <3>1. j - 1 \in 1..Len(s) /\ (j - 1) + 1 = j
            BY <2>3, <2>4
        <3> QED BY <2>3, <3>1
    <2>6. ToSet(t) \subseteq ToSet(s) \cup {o}
        <3>1. ASSUME NEW j \in 1..Len(t) PROVE t[j] \in ToSet(s) \cup {o}
            BY <2>3, <2>4, <2>5 DEF ToSet
        <3> QED BY <2>4, <3>1 DEF ToSet
    <2>7. ToSet(s) \cup {o} \subseteq ToSet(t)
        <3>1. \A i \in 1..Len(s) : i + 1 \in 1..Len(t)
            BY <2>3, <2>4
        <3>2. 1 \in 1..Len(t)
            BY <2>3, <2>4
        <3> QED BY <2>3, <2>4, <3>1, <3>2 DEF ToSet
    <2> QED BY <1>10, <2>1, <2>2, <2>3, <2>6, <2>7
<1> QED BY <1>8, <1>9, <1>10, <1>12 DEF HeapOf, InScript

\* Names for entries that are still there lead where they lead.
LEMMA LeadsFewer ==
    ASSUME NEW m, NEW H, Leads(m, H), NEW J, J \subseteq H
    PROVE  Leads(m, J)
BY DEF Leads

LEMMA EndHeap ==
    ASSUME TxnInv, HeapInv, NEW p \in Procs, Committing(p) \/ EndFailed(p)
    PROVE  HeapOf(p)'
<1>1. PICK m : m = Memory(p)
    OBVIOUS
<1>2. PICK D : D = ToSet(deleted[p])
    OBVIOUS
<1>3. /\ MemoryOK(m) /\ Listed(m, D) /\ Leads(m, held[p])
    BY <1>1, <1>2 DEF HeapInv, HeapOf
<1>4. PICK d : d = FreeDeleted(p)
    OBVIOUS
<1>5. d = FoldSet(LAMBDA o, x : FreeEntry(x, o), m, D)
    BY <1>1, <1>2, <1>4 DEF FreeDeleted
<1>6. MemoryOK(d) /\ Leads(d, held[p])
    BY <1>3, <1>5, FreedAll
<1>7. /\ Remember(p, d) /\ deleted' = [deleted EXCEPT ![p] = <<>>]
      /\ held' = held \/ held' = [held EXCEPT ![p] = {h \in @ : h[2] \in db.ports}]
      /\ pc' = [pc EXCEPT ![p] = "idle"]
    BY <1>4 DEF Committing, EndFailed, Commit, EndFails, At
<1>8. /\ Memory(p)' = d /\ deleted'[p] = <<>> /\ pc'[p] = "idle" /\ held'[p] \subseteq held[p]
    BY <1>6, <1>7, Remembered DEF HeapInv, Domains, TxnInv, TxnTypeOK
<1> QED BY <1>6, <1>8, LeadsFewer, HeapEnds

LEMMA RollingBackHeap ==
    ASSUME TxnInv, HeapInv, NEW p \in Procs, RollingBack(p)
    PROVE  HeapOf(p)'
<1>1. PICK m : m = Memory(p)
    OBVIOUS
<1>2. PICK D : D = ToSet(deleted[p])
    OBVIOUS
<1>3. /\ MemoryOK(m) /\ Listed(m, D) /\ Leads(m, held[p])
    BY <1>1, <1>2 DEF HeapInv, HeapOf
<1>4. \A o \in D : m.heap[o].name # NoName
    BY <1>1, <1>2 DEF RollingBack, Nameless, Memory
<1>5. PICK d : /\ d = FoldSet(LAMBDA o, x : RestoreEntry(x, o), m, D)
               /\ GiveBack(p, d)
    BY <1>1, <1>2 DEF RollingBack
<1>6. MemoryOK(d) /\ Leads(d, held[p] \cup {Given(m, o) : o \in D})
    BY <1>3, <1>4, <1>5, RestoredAll
<1>7. /\ Remember(p, d) /\ deleted' = [deleted EXCEPT ![p] = <<>>]
      /\ held' = [held EXCEPT ![p] = {h \in @ : h[2] \in db.ports} \cup {Given(m, o) : o \in D}]
      /\ pc' = [pc EXCEPT ![p] = "idle"]
    BY <1>1, <1>2, <1>5 DEF RollingBack, GiveBack, Rollback, At
<1>8. /\ Memory(p)' = d /\ deleted'[p] = <<>> /\ pc'[p] = "idle"
      /\ held'[p] = {h \in held[p] : h[2] \in db.ports} \cup {Given(m, o) : o \in D}
    BY <1>6, <1>7, Remembered DEF HeapInv, Domains, TxnInv, TxnTypeOK
<1>9. held'[p] \subseteq held[p] \cup {Given(m, o) : o \in D}
    BY <1>8
<1> QED BY <1>6, <1>8, <1>9, LeadsFewer, HeapEnds

LEMMA StatementHeap ==
    ASSUME TxnInv, HeapInv, NEW p \in Procs, StatementFails(p)
    PROVE  HeapOf(p)'
<1>1. UNCHANGED <<heap, table, cmds, deleted, held>> /\ pc'[p] \in {"commit", "rollback"}
    BY DEF StatementFails, InScript, TxnInv, TxnTypeOK
<1>2. Memory(p)' = Memory(p) /\ HeapOf(p)
    BY <1>1 DEF Memory, HeapInv
<1> QED BY <1>1, <1>2 DEF HeapOf

\* A memory with nothing in it.
LEMMA EmptyMemory ==
    ASSUME NEW m, m = [heap |-> <<>>, table |-> [i \in Ids |-> 0], cmds |-> [n \in Names |-> NoCommand]]
    PROVE  MemoryOK(m) /\ Leads(m, {})
<1>1. m \in Memories /\ Len(m.heap) = 0
    BY DEF Memories, NoCommand
<1>2. MaxObjects \in Nat
    BY HabitsAssumption
<1> QED BY <1>1, <1>2 DEF MemoryOK, NoCommand, Leads

LEMMA GoneHeap ==
    ASSUME TxnInv, HeapInv, NEW p \in Procs, Gone(p)
    PROVE  HeapOf(p)'
<1>1. PICK d : d = [heap |-> <<>>, table |-> [i \in Ids |-> 0], cmds |-> [n \in Names |-> NoCommand]]
    OBVIOUS
<1>2. Memory(p)' = d /\ deleted'[p] = <<>> /\ held'[p] = {} /\ pc'[p] = "off"
    BY <1>1 DEF Gone, Memory, HeapInv, Domains, TxnInv, TxnTypeOK
<1>3. MemoryOK(d) /\ Leads(d, {})
    BY <1>1, EmptyMemory
<1> QED BY <1>2, <1>3, HeapEnds

\* Objects that no command leads to are freed with the table.
LEMMA AllFreed ==
    ASSUME NEW m, MemoryOK(m), NEW K, \A o \in K, k \in Names : m.cmds[k].to # o,
           NEW d, d = [m EXCEPT !.table = [i \in Ids |-> 0],
                                !.heap = [o \in DOMAIN @ |->
                                   IF o \in K THEN [@[o] EXCEPT !.live = FALSE] ELSE @[o]]]
    PROVE  MemoryOK(d)
<1>1. m \in Memories
    BY DEF MemoryOK
<1>2. /\ d.table = [i \in Ids |-> 0] /\ d.cmds = m.cmds
      /\ d.heap = [o \in DOMAIN m.heap |->
                      IF o \in K THEN [m.heap[o] EXCEPT !.live = FALSE] ELSE m.heap[o]]
      /\ d = [heap |-> d.heap, table |-> d.table, cmds |-> d.cmds]
    BY <1>1 DEF Memories
<1>3. PICK n \in Nat : n = Len(m.heap) /\ DOMAIN m.heap = 1..n
    BY <1>1, MemoryIs
<1>4. \A o \in 1..n : /\ d.heap[o] \in Objects
                      /\ o \notin K => d.heap[o] = m.heap[o]
    <2> SUFFICES ASSUME NEW o \in 1..n
                 PROVE  d.heap[o] \in Objects /\ (o \notin K => d.heap[o] = m.heap[o])
        OBVIOUS
    <2>1. PICK v : v = m.heap[o]
        OBVIOUS
    <2>2. v \in Objects
        BY <1>1, <1>3, <2>1, MemoryIs
    <2>3. d.heap[o] = IF o \in K THEN [v EXCEPT !.live = FALSE] ELSE v
        BY <1>2, <1>3, <2>1
    <2>4. [v EXCEPT !.live = FALSE] \in Objects
        BY <2>2 DEF Objects
    <2> QED BY <2>1, <2>2, <2>3, <2>4
<1>5. d.heap \in Seq(Objects) /\ Len(d.heap) = n
    <2>1. PICK t : t = d.heap
        OBVIOUS
    <2>2. \A o \in 1..n : t[o] \in Objects
        BY <1>4, <2>1
    <2>3. t = [o \in 1..n |-> IF o \in K THEN [m.heap[o] EXCEPT !.live = FALSE] ELSE m.heap[o]]
        BY <1>2, <1>3, <2>1
    <2>4. t = [o \in 1..n |-> t[o]]
        BY <2>3
    <2>5. t \in [1..n -> Objects]
        BY <2>2, <2>4
    <2>6. t \in Seq(Objects) /\ Len(t) = n
        <3>1. t \in Seq(Objects)
            BY <2>5
        <3>2. DOMAIN t = 1..n /\ DOMAIN t = 1..Len(t) /\ Len(t) \in Nat
            BY <2>5, <3>1
        <3> QED BY <3>1, <3>2
    <2> QED BY <2>1, <2>6
<1>6. d \in Memories
    BY <1>1, <1>2, <1>5 DEF Memories
<1>7. ASSUME NEW k \in Names, d.cmds[k].to # 0
      PROVE  /\ d.cmds[k].to \in 1..Len(d.heap)
             /\ d.heap[d.cmds[k].to].name = k /\ d.heap[d.cmds[k].to].live
    BY <1>2, <1>3, <1>4, <1>5, <1>7 DEF MemoryOK
<1>8. ASSUME NEW i \in Ids, d.table[i] # 0
      PROVE  /\ d.table[i] \in 1..Len(d.heap)
             /\ d.heap[d.table[i]].id = i /\ d.heap[d.table[i]].live
    BY <1>2, <1>3, <1>4, <1>5, <1>8 DEF MemoryOK
<1>9. Len(d.heap) <= MaxObjects
    BY <1>2, <1>5 DEF MemoryOK
<1> QED BY ONLY <1>6, <1>7, <1>8, <1>9 DEF MemoryOK

LEMMA DetachHeap ==
    ASSUME TxnInv, HeapInv, NEW p \in Procs, Detach(p)
    PROVE  HeapOf(p)'
<1>1. PICK m : m = Memory(p)
    OBVIOUS
<1>2. PICK K : K = {table[p][i] : i \in Ids} \ {0}
    OBVIOUS
<1>3. HeapOf(p) /\ MemoryOK(m) /\ K \subseteq 1..Len(m.heap)
    <2>1. HeapOf(p) /\ MemoryOK(m) /\ m.table = table[p]
        BY <1>1 DEF HeapInv, HeapOf, Memory
    <2> QED BY <1>2, <2>1 DEF MemoryOK
<1>4. IsFiniteSet(K)
    BY <1>3, ListedFinite
<1>5. PICK h : /\ OnTheWay(h, "detach", m, K)
               /\ FoldSet(LAMBDA o, n : IF n.heap[o].name = NoName THEN n
                                        ELSE DeleteCommand(n, n.heap[o].name), m, K) = h[K]
    BY <1>4, DetachedWay
<1>6. PICK e : e = h[K]
    OBVIOUS
<1>7. MemoryOK(e) /\ \A o \in K, k \in Names : e.cmds[k].to # o
    BY <1>3, <1>5, <1>6, DetachedAll
<1>8. PICK d : d = [e EXCEPT !.table = [i \in Ids |-> 0],
                             !.heap = [o \in DOMAIN @ |->
                                IF o \in K THEN [@[o] EXCEPT !.live = FALSE] ELSE @[o]]]
    OBVIOUS
<1>9. MemoryOK(d)
    BY <1>7, <1>8, AllFreed
<1>10. /\ Remember(p, d) /\ held' = [held EXCEPT ![p] = {}] /\ deleted' = deleted
       /\ pc[p] = "idle" /\ pc' = [pc EXCEPT ![p] = "off"]
    BY <1>1, <1>2, <1>5, <1>6, <1>8 DEF Detach
<1>11. /\ Memory(p)' = d /\ held'[p] = {} /\ deleted'[p] = <<>> /\ pc'[p] = "off"
    BY <1>3, <1>9, <1>10, Remembered DEF HeapInv, HeapOf, Domains, InScript, TxnInv, TxnTypeOK
<1>12. Leads(d, {})
    BY DEF Leads
<1> QED BY <1>9, <1>11, <1>12, HeapEnds

\* Every step keeps the memories.
LEMMA NextHeap ==
    ASSUME Careful, TxnInv, HeapInv, [Next]_vars
    PROVE  HeapInv'
<1>1. CASE UNCHANGED vars
    BY <1>1 DEF vars, txnVars, objVars, HeapInv, HeapOf, Domains, Marked, Memory
<1>2. ASSUME NEW p \in Procs, Step(p) PROVE HeapInv'
    <2>1. TxnTypeOK /\ HeapOf(p)
        BY DEF TxnInv, HeapInv
    <2>2. CASE Open(p)
        <3>1. pc[p] \in Opening \cup {"off"} /\ UNCHANGED objVars
            BY <2>2 DEF Open, Stat, Attach, CreateBegin, CreateTables, UpdateBegin,
                        ReadVersion, AlterTables, OpenCommit, LookAgain, At, Opening
        <3>2. pc'[p] \notin {"files", "deps"}
            BY <2>1, <2>2, <3>1
            DEF Open, Stat, Attach, CreateBegin, CreateTables, UpdateBegin, ReadVersion,
                AlterTables, OpenCommit, LookAgain, At, TxnTypeOK, Opening
        <3>3. deleted[p] = <<>>
            BY <2>1, <3>1 DEF HeapOf, Opening, InScript
        <3> QED BY <1>2, <3>1, <3>2, <3>3, HeapMoved, OthersHeap
    <2>3. CASE Begin(p) \/ Started(p)
        <3>1. pc[p] \in {"idle", "read", "write"} /\ UNCHANGED objVars
            BY <2>3 DEF Begin, Started, StartRead, StartWrite, Refused, At
        <3>2. pc'[p] \notin {"files", "deps"}
            BY <2>1, <2>3 DEF Begin, Started, StartRead, StartWrite, Refused, At, TxnTypeOK
        <3>3. deleted[p] = <<>>
            BY <2>1, <3>1 DEF HeapOf, InScript
        <3> QED BY <1>2, <3>1, <3>2, <3>3, HeapMoved, OthersHeap
    <2>4. CASE ScriptEnds(p) \/ Waiting(p)
        <3>1. pc'[p] \in {"commit", "rollback"} /\ UNCHANGED objVars
            BY <2>1, <2>4 DEF ScriptEnds, Waiting, Wait, TxnTypeOK
        <3> QED BY <1>2, <3>1, HeapMoved, OthersHeap
    <2>5. CASE DeleteFiles(p)
        <3>1. /\ pc[p] = "files" /\ pc'[p] = "deps" /\ status'[p] = status[p]
              /\ UNCHANGED objVars
            BY <2>1, <2>5 DEF DeleteFiles, At, TxnTypeOK
        <3> QED BY <1>2, <3>1, HeapMoved, OthersHeap DEF InScript
    <2>6. CASE CannotOpen(p) \/ Kill(p) \/ Crash(p)
        BY <1>2, <2>6, GoneHeap, OthersHeap DEF CannotOpen, Kill, Crash
    <2>7. CASE Create(p)
        BY <1>2, <2>7, CreateHeap, OthersHeap
    <2>8. CASE Find(p)
        BY <1>2, <2>8, FindHeap, OthersHeap
    <2>9. CASE Close(p)
        BY <1>2, <2>9, CloseHeap, OthersHeap
    <2>10. CASE Delete(p)
        BY <1>2, <2>10, DeleteHeap, OthersHeap
    <2>11. CASE DeleteDeps(p)
        BY <1>2, <2>11, DeleteDepsHeap, OthersHeap
    <2>12. CASE StatementFails(p)
        BY <1>2, <2>12, StatementHeap, OthersHeap
    <2>13. CASE Committing(p) \/ EndFailed(p)
        BY <1>2, <2>13, EndHeap, OthersHeap
    <2>14. CASE RollingBack(p)
        BY <1>2, <2>14, RollingBackHeap, OthersHeap
    <2>15. CASE Detach(p)
        BY <1>2, <2>15, DetachHeap, OthersHeap
    <2> QED
        BY <1>2, <2>2, <2>3, <2>4, <2>5, <2>6, <2>7, <2>8, <2>9, <2>10, <2>11, <2>12,
           <2>13, <2>14, <2>15
        DEF Step, Proceed
<1> QED BY <1>1, <1>2 DEF Next

\* At first there is nothing in any memory.
LEMMA InitHeap == ASSUME Init PROVE HeapInv
<1>1. Domains
    BY DEF Init, Domains
<1>2. ASSUME NEW p \in Procs PROVE HeapOf(p)
    <2>1. PICK d : d = [heap |-> <<>>, table |-> [i \in Ids |-> 0], cmds |-> [n \in Names |-> NoCommand]]
        OBVIOUS
    <2>2. MemoryOK(d) /\ Leads(d, {})
        BY <2>1, EmptyMemory
    <2>3. Memory(p) = d /\ deleted[p] = <<>> /\ held[p] = {} /\ pc[p] = "off"
        BY <2>1 DEF Init, Memory
    <2>4. ToSet(<<>>) = {} /\ <<>> \in Seq(Nat)
        BY DEF ToSet
    <2>5. Listed(d, {})
        BY DEF Listed
    <2> QED BY <2>2, <2>3, <2>4, <2>5 DEF HeapOf
<1> QED BY <1>1, <1>2 DEF HeapInv

\* A name that a script holds leads to the entry it was given for, however often
\* what was deleted is given back, and what scripts hold and what the tables hold
\* stays whole, if scripts keep to what MacPorts' own do.
THEOREM RegistryWholeCorrect == ASSUME Careful PROVE Spec => []RegistryWhole
<1>1. Init => TxnInv /\ HeapInv
    BY InitTxn, InitHeap
<1>2. Scripted
    BY DEF Careful, Scripted
<1>3. TxnInv /\ HeapInv /\ [Next]_vars => (TxnInv /\ HeapInv)'
    BY <1>2, NextTxn, NextHeap
<1>4. HeapInv => NamesLead
    BY DEF HeapInv, HeapOf, Leads, Memory, NamesLead
<1>5. Spec => []NamesLead
    BY <1>1, <1>3, <1>4, PTL DEF Spec
<1>6. Spec => []RowsTogether
    BY <1>2, RowsTogetherCorrect
<1>7. NamesLead /\ RowsTogether => RegistryWhole
    BY DEF RegistryWhole
<1> QED BY <1>5, <1>6, <1>7, PTL
=============================================================================
