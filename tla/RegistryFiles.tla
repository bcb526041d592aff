--------------------------- MODULE RegistryFiles ----------------------------
(***************************************************************************)
(* The file map of the registry (cregistry/entry.c, file.c), with the      *)
(* states of entries and their dependencies, and the commands of entries   *)
(* and files over it (registry2.0/entry.c, entryobj.c, file.c, fileobj.c). *)
(*                                                                         *)
(* A row <<e, f>> of the table files says that f is a file of e's image;   *)
(* `at` is its actual_path, where it was last activated. A call that takes *)
(* a list of files runs one statement after another, and one that fails in *)
(* the middle keeps what it has done: its caller's transaction is there to *)
(* undo it. Outside a transaction every statement is committed at once.    *)
(* The locks and the ends of transactions are RegistryTxn's; here a write  *)
(* transaction only keeps other writers away.                              *)
(***************************************************************************)
EXTENDS Naturals, Sequences

CONSTANTS
    Procs, Entries, Paths,
    Name,     \* entry -> the name of its port
    Nobody,
    Books,    \* the registries a run starts from
    Lists,    \* call -> file lists it may get: pairs of a file and a path for it
    MaxCalls, \* process -> bound on its calls
    Bare,     \* calls that scripts make outside a transaction as well
    Stale,    \* whether they map files to an entry somebody has deleted
    Silent    \* whether statements of activate fail with other codes than
              \* SQLITE_ERROR

ListOps == {"map", "unmap", "activate", "deactivate"}
BookType ==
    [state : [Entries -> {"unmade", "imaged", "installed", "gone"}],
     rows : [Entries \X Paths -> [there : BOOLEAN, at : Paths \cup {Nobody},
                                  active : BOOLEAN, binary : BOOLEAN]],
     deps : SUBSET (Entries \X {Name[e] : e \in Entries})]
There(book, e) == book.state[e] \in {"imaged", "installed"}

\* An active row has a path, and dependencies are those of entries that are there.
IsBook(book) ==
    /\ book \in BookType
    /\ \A r \in Entries \X Paths : book.rows[r].active => book.rows[r].at # Nobody
    /\ \A d \in book.deps : There(book, d[1])

FilesAssumption ==
    /\ MaxCalls \in [Procs -> Nat] /\ Stale \in BOOLEAN /\ Silent \in BOOLEAN
    /\ Nobody \notin Procs \cup Paths
    /\ Lists \in [ListOps -> SUBSET Seq(Paths \X Paths)]
    /\ \A op \in ListOps : <<>> \notin Lists[op]
    /\ \A book \in Books : IsBook(book)

\* The limits of the promise (README): files are mapped and activated in transactions
\* only, and to entries that are there; every error is noticed; a list names a file
\* once.
WithinLimits ==
    /\ ~Stale /\ ~Silent /\ {"map", "activate"} \cap Bare = {}
    /\ \A list \in Lists["activate"] : \A i, j \in DOMAIN list :
            list[i][1] = list[j][1] => i = j

VARIABLES
    db,       \* the registry that is committed
    work,     \* what the writer has made of it
    writer,   \* the process in registry::write, or Nobody
    pc,       \* process -> "script", "file" or "update"
    call,     \* process -> the call it is in, and how the last one ended
    answer,   \* the last answer to a question
    handles,  \* process -> rows it has registry::file objects for
    calls     \* process -> calls it may still make

vars == <<db, work, writer, pc, call, answer, handles, calls>>

NoRow == [there |-> FALSE, at |-> Nobody, active |-> FALSE, binary |-> FALSE]
NewRow == [NoRow EXCEPT !.there = TRUE]

NoAnswer == [by |-> Nobody, op |-> "none", arg |-> Nobody, found |-> {}]
NoCall == [op |-> "none", entry |-> Nobody, list |-> <<>>, i |-> 1, ok |-> TRUE]

View(p) == IF writer = p THEN work ELSE db
Rows(book) == {r \in Entries \X Paths : book.rows[r].there}
Active(book, q) == {r \in Rows(book) : book.rows[r].active /\ book.rows[r].at = q}

TypeOK ==
    /\ {db, work} \subseteq BookType
    /\ writer \in Procs \cup {Nobody}
    /\ pc \in [Procs -> {"script", "file", "update"}]
    /\ handles \in [Procs -> SUBSET (Entries \X Paths)]
    /\ calls \in [Procs -> Nat]

Init ==
    /\ db \in Books /\ work = db /\ writer = Nobody
    /\ pc = [p \in Procs |-> "script"]
    /\ call = [p \in Procs |-> NoCall]
    /\ answer = NoAnswer
    /\ handles = [p \in Procs |-> {}]
    /\ calls = MaxCalls

-----------------------------------------------------------------------------
(* Transactions and statements *)

\* An answer is kept for one step.
Unasked == answer' = NoAnswer
Quiet == Unasked /\ UNCHANGED <<pc, call, handles, calls>>

BeginWrite(p) ==
    /\ writer = Nobody /\ pc[p] = "script" /\ calls[p] > 0
    /\ writer' = p /\ work' = db
    /\ UNCHANGED db /\ Quiet

\* The script ends, or throws.
EndWrite(p, commits) ==
    /\ writer = p /\ pc[p] = "script"
    /\ writer' = Nobody
    /\ db' = IF commits THEN work ELSE db
    /\ work' = db'
    /\ Quiet

Store(p, new) ==
    /\ writer \in {p, Nobody}
    /\ work' = new
    /\ db' = IF writer = p THEN db ELSE new
    /\ UNCHANGED writer

Call(p, op) ==
    /\ pc[p] = "script" /\ calls[p] > 0
    /\ op \in Bare \/ writer = p
    /\ calls' = [calls EXCEPT ![p] = @ - 1]

\* An UPDATE or DELETE that meets no row is not an error of SQLite's.
Where(book, rows, row) ==
    [book EXCEPT !.rows = [r \in DOMAIN @ |-> IF r \in rows THEN row[r] ELSE @[r]]]
Deleted(rows) == [r \in rows |-> NoRow]
Placed(book, rows, q) == [r \in rows |-> [book.rows[r] EXCEPT !.at = q, !.active = TRUE]]
Unplaced(book, rows) == [r \in rows |-> [book.rows[r] EXCEPT !.active = FALSE]]

-----------------------------------------------------------------------------
(* map, unmap, activate and deactivate *)

\* By its comment, map's caller names no file the entry has already.
StartList(p, op, e, list) ==
    /\ Call(p, op)
    /\ There(View(p), e) \/ db.state[e] = "gone"
    /\ op = "map" => There(View(p), e) \/ Stale
    /\ op = "map" => \A i \in DOMAIN list : ~View(p).rows[<<e, list[i][1]>>].there
    /\ call' = [call EXCEPT ![p] = [op |-> op, entry |-> e, list |-> list, i |-> 1, ok |-> TRUE]]
    /\ pc' = [pc EXCEPT ![p] = "file"]
    /\ Unasked /\ UNCHANGED <<db, work, writer, handles>>

\* entry_obj_filemap and entry_obj_activate, whose lists are of one length.
StartFilemap(p, e) ==
    \E op \in ListOps \ {"activate"} : \E list \in Lists[op] : StartList(p, op, e, list)
StartActivate(p, e) == \E list \in Lists["activate"] : StartList(p, "activate", e, list)

File(p) == call[p].list[call[p].i][1]
As(p) == call[p].list[call[p].i][2]
Own(p) == <<call[p].entry, File(p)>>

\* The loop over the files goes on while nothing has failed.
Advance(p, ok) ==
    /\ IF ok /\ call[p].i < Len(call[p].list)
       THEN /\ call' = [call EXCEPT ![p].i = @ + 1]
            /\ pc' = [pc EXCEPT ![p] = "file"]
       ELSE /\ call' = [call EXCEPT ![p] = [NoCall EXCEPT !.ok = ok]]
            /\ pc' = [pc EXCEPT ![p] = "script"]
    /\ Unasked /\ UNCHANGED <<handles, calls>>

InList(p, op) == pc[p] = "file" /\ call[p].op = op

\* reg_entry_map
MapFile(p) ==
    /\ InList(p, "map")
    /\ Store(p, Where(View(p), {Own(p)}, [r \in {Own(p)} |-> NewRow]))
    /\ Advance(p, TRUE)

\* reg_entry_unmap
UnmapFile(p) ==
    /\ InList(p, "unmap")
    /\ LET rows == {Own(p)} \cap Rows(View(p))
       IN  Store(p, Where(View(p), rows, Deleted(rows))) /\ Advance(p, rows # {})

\* reg_entry_deactivate: rows that are not active match too.
DeactivateFile(p) ==
    /\ InList(p, "deactivate")
    /\ LET rows == {r \in Rows(View(p)) : r[1] = call[p].entry /\ View(p).rows[r].at = As(p)}
       IN  Store(p, Where(View(p), rows, Unplaced(View(p), rows))) /\ Advance(p, rows # {})

\* Slip: only the owner's own name for the file is looked for.
SelectByFile(p) ==
    /\ InList(p, "activate")
    /\ IF \E r \in Rows(View(p)) : r[2] = As(p) /\ View(p).rows[r].active
       THEN Advance(p, FALSE)
       ELSE pc' = [pc EXCEPT ![p] = "update"] /\ Unasked /\ UNCHANGED <<call, handles, calls>>
    /\ UNCHANGED <<db, work, writer>>

\* reg_entry_activate: is the path held by anyone, by this entry too?
SelectOwner(p) ==
    /\ InList(p, "activate")
    /\ IF Active(View(p), As(p)) # {}
       THEN Advance(p, FALSE)
       ELSE pc' = [pc EXCEPT ![p] = "update"] /\ Unasked /\ UNCHANGED <<call, handles, calls>>
    /\ UNCHANGED <<db, work, writer>>

\* Slip: nobody looks whether a row was changed.
ActivateAny(p) ==
    /\ pc[p] = "update"
    /\ LET rows == {Own(p)} \cap Rows(View(p))
       IN  Store(p, Where(View(p), rows, Placed(View(p), rows, As(p)))) /\ Advance(p, TRUE)

ActivateFile(p) ==
    /\ pc[p] = "update"
    /\ LET rows == {Own(p)} \cap Rows(View(p))
       IN  /\ Store(p, Where(View(p), rows, Placed(View(p), rows, As(p))))
           /\ Advance(p, rows # {})

\* The switches of reg_entry_activate know no code but SQLITE_ERROR. Its
\* statements are not reset then either, and the next file cannot be bound.
Noticed(p) == IF Silent /\ call[p].op = "activate" THEN BOOLEAN ELSE {TRUE}
StatementFails(p) ==
    /\ pc[p] \in {"file", "update"}
    /\ \E noticed \in Noticed(p) : Advance(p, ~noticed /\ call[p].i = Len(call[p].list))
    /\ UNCHANGED <<db, work, writer>>

-----------------------------------------------------------------------------
(* Entries and dependencies. Creation, and deletion with its rows, are     *)
(* Registry's; here they are one step of a transaction.                    *)

CreateEntry(p, e) ==
    /\ Call(p, "create") /\ work.state[e] = "unmade"
    /\ Store(p, [work EXCEPT !.state[e] = "imaged"])
    /\ Unasked /\ UNCHANGED <<pc, call, handles>>

DeleteEntry(p, e) ==
    /\ Call(p, "delete") /\ There(View(p), e)
    /\ Store(p, [state |-> [View(p).state EXCEPT ![e] = "gone"],
                 rows |-> [r \in DOMAIN View(p).rows |-> IF r[1] = e THEN NoRow ELSE View(p).rows[r]],
                 deps |-> {d \in View(p).deps : d[1] # e}])
    /\ Unasked /\ UNCHANGED <<pc, call, handles>>

\* reg_entry_propset: no row is no error.
EntryPropset(book, e, s) == [book EXCEPT !.state[e] = IF There(book, e) THEN s ELSE @]
SetState(p, e, s) ==
    /\ Call(p, "state") /\ db.state[e] # "unmade"
    /\ Store(p, EntryPropset(View(p), e, s))
    /\ Unasked /\ UNCHANGED <<pc, call, handles>>

\* reg_entry_depends
Depends(p, e, n) ==
    /\ Call(p, "depends") /\ There(View(p), e)
    /\ Store(p, [View(p) EXCEPT !.deps = @ \cup {<<e, n>>}])
    /\ Unasked /\ UNCHANGED <<pc, call, handles>>

-----------------------------------------------------------------------------
(* Questions *)

Owner(book, q) == {r[1] : r \in Active(book, q)}                    \* reg_entry_owner
Files(book, e) ==                                                   \* reg_entry_files
    {book.rows[r].at : r \in {s \in Rows(book) : s[1] = e /\ book.rows[s].active}}
ImageFiles(book, e) == {r[2] : r \in {s \in Rows(book) : s[1] = e}} \* reg_entry_imagefiles
Imaged(book, n) == {e \in Entries : Name[e] = n /\ There(book, e)}  \* reg_entry_imaged
Installed(book, n) == {e \in Imaged(book, n) : book.state[e] = "installed"}
\* Joins on the name of the port, whatever the states of the entries.
Dependents(book, e) ==
    {d \in Entries : There(book, e) /\ There(book, d) /\ <<d, Name[e]>> \in book.deps}
Dependencies(book, e) == {d \in Entries : There(book, d) /\ <<e, Name[d]>> \in book.deps}

Answered(p, op, x, found) ==
    /\ Call(p, "ask")
    /\ answer' = [by |-> p, op |-> op, arg |-> x, found |-> found]
    /\ UNCHANGED <<db, work, writer, pc, call>>

\* registry::entry owner, imaged, installed; `files`, `imagefiles`, `dependents`
\* and `dependencies` of an entry.
AskOwner(p, q) == Answered(p, "owner", q, Owner(View(p), q))
AskImaged(p, n) == Answered(p, "imaged", n, Imaged(View(p), n))
AskInstalled(p, n) == Answered(p, "installed", n, Installed(View(p), n))
AskFiles(p, e) == Answered(p, "files", e, Files(View(p), e))
AskImageFiles(p, e) == Answered(p, "imagefiles", e, ImageFiles(View(p), e))
AskDependents(p, e) == Answered(p, "dependents", e, Dependents(View(p), e))
AskDependencies(p, e) == Answered(p, "dependencies", e, Dependencies(View(p), e))

-----------------------------------------------------------------------------
(* registry::file. An object stays in the table open_files until the       *)
(* registry is closed, and is found by its row's key, not its number.      *)

\* registry::file search active 1 binary -null
Unclassified(book) == {r \in Rows(book) : book.rows[r].active /\ ~book.rows[r].binary}
FileSearch(p) ==
    /\ Answered(p, "search", Nobody, Unclassified(View(p)))
    /\ handles' = [handles EXCEPT ![p] = @ \cup Unclassified(View(p))]

\* reg_file_propget: an error where there is no row or no value.
FilePropget(book, r) == {book.rows[r].at} \ {Nobody}
ActualPath(p, r) ==
    /\ r \in handles[p]
    /\ Answered(p, "actual_path", r, FilePropget(View(p), r))
    /\ UNCHANGED handles

\* reg_file_propset
FilePropset(book, r) ==
    LET rows == {r} \cap Rows(book)
    IN  Where(book, rows, [s \in rows |-> [book.rows[s] EXCEPT !.binary = TRUE]])
SetBinary(p, r) ==
    /\ Call(p, "binary") /\ r \in handles[p]
    /\ Store(p, FilePropset(View(p), r))
    /\ Unasked /\ UNCHANGED <<pc, call, handles>>

-----------------------------------------------------------------------------
Change(p, e) ==
    \/ StartFilemap(p, e) \/ StartActivate(p, e)
    \/ CreateEntry(p, e) \/ DeleteEntry(p, e)
    \/ \E s \in {"imaged", "installed"} : SetState(p, e, s)
    \/ \E d \in Entries \ {e} : Depends(p, e, Name[d])
ListStep(p) ==
    \/ MapFile(p) \/ UnmapFile(p) \/ DeactivateFile(p)
    \/ SelectOwner(p) \/ ActivateFile(p) \/ StatementFails(p)
Question(p) ==
    \/ /\ \/ \E q \in Paths : AskOwner(p, q)
          \/ \E e \in Entries :
                \/ AskImaged(p, Name[e]) \/ AskInstalled(p, Name[e])
                \/ AskFiles(p, e) \/ AskImageFiles(p, e)
                \/ AskDependents(p, e) \/ AskDependencies(p, e)
       /\ UNCHANGED handles
    \/ FileSearch(p)
    \/ \E r \in Entries \X Paths : ActualPath(p, r) \/ SetBinary(p, r)

Next ==
    \E p \in Procs :
        \/ BeginWrite(p) \/ (\E commits \in BOOLEAN : EndWrite(p, commits))
        \/ (\E e \in Entries : Change(p, e))
        \/ ListStep(p) \/ Question(p)

Spec == Init /\ [][Next]_vars

-----------------------------------------------------------------------------
(* Properties *)

Book(b) ==
    [state |-> b.state,
     image |-> Rows(b),
     held |-> {<<r[1], r[2], b.rows[r].at>> : r \in {s \in Rows(b) : b.rows[s].active}},
     binary |-> {r \in Rows(b) : b.rows[r].binary},
     deps |-> b.deps]

Owners == INSTANCE FileOwners WITH now <- Book(work), before <- Book(db)

\* The rows are a map of who holds which path: a path passes from one file to
\* another only after it was released, though a call does so statement by
\* statement and other processes ask, and change, between them; no row is left
\* of an entry that is gone; a question is answered from what is committed, and
\* the writer's from its own changes.
ImplementsOwners == Owners!Spec

\* What a call of a transaction reports as done, it has done for every file.
Done(book, c) ==
    \A i \in DOMAIN c.list :
        LET row == book.rows[<<c.entry, c.list[i][1]>>] IN
        CASE c.op = "map" -> row.there
          [] c.op = "unmap" -> ~row.there
          [] c.op = "activate" -> row.active /\ row.at = c.list[i][2]
          [] c.op = "deactivate" -> c.list[i][2] \notin Files(book, c.entry)

Reported == \A p \in Procs :
    pc[p] # "script" /\ pc'[p] = "script" /\ call'[p].ok /\ writer = p
        => Done(work', call[p])
ReportedIsDone == [][Reported]_vars

\* By the comment of reg_entry_dependencies it returns active ports only.
DependenciesActive ==
    [][answer'.op = "dependencies"
         => \A d \in answer'.found : View(answer'.by).state[d] = "installed"]_vars
=============================================================================
