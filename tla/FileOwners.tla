----------------------------- MODULE FileOwners -----------------------------
(***************************************************************************)
(* What the registry's file map promises: a path is held by at most one    *)
(* file of one image, and passes to another only after it was released;    *)
(* files and dependencies belong to entries that are there; a writer's     *)
(* changes are seen by others when it commits, and questions are answered  *)
(* from what the asker may see.                                            *)
(***************************************************************************)
CONSTANTS
    Procs, Entries, Paths,
    Name,     \* entry -> the name of its port
    Nobody

VARIABLES
    now,      \* state of entries, image files, held paths, files that are
              \* classified, dependencies: with the changes of the writer
    before,   \* without them
    writer,   \* the process in a write transaction, or Nobody
    answer    \* the answer of the last step, and to whom

vars == <<now, before, writer, answer>>

NoAnswer == [by |-> Nobody, op |-> "none", arg |-> Nobody, found |-> {}]

View(p) == IF writer = p THEN now ELSE before
There(book, e) == book.state[e] \in {"imaged", "installed"}

Found(book, op, x) ==
    CASE op = "owner"        -> {h[1] : h \in {k \in book.held : k[3] = x}}
      [] op = "files"        -> {h[3] : h \in {k \in book.held : k[1] = x}}
      [] op = "imagefiles"   -> {f[2] : f \in {k \in book.image : k[1] = x}}
      [] op = "imaged"       -> {e \in Entries : Name[e] = x /\ There(book, e)}
      [] op = "installed"    -> {e \in Entries : Name[e] = x /\ book.state[e] = "installed"}
      [] op = "dependents"   -> {e \in Entries : There(book, x) /\ <<e, Name[x]>> \in book.deps}
      [] op = "dependencies" -> {e \in Entries : There(book, e) /\ <<x, Name[e]>> \in book.deps}
      [] op = "search"       -> {<<h[1], h[2]>> : h \in book.held} \ book.binary
      [] op = "actual_path"  -> {h[3] : h \in {k \in book.held : <<k[1], k[2]>> = x}}

-----------------------------------------------------------------------------
Init ==
    /\ before = now /\ writer = Nobody
    /\ answer = NoAnswer

Begin(p) == writer = Nobody /\ writer' = p /\ UNCHANGED <<now, before>>
Commit(p) == writer = p /\ writer' = Nobody /\ before' = now /\ UNCHANGED now
Rollback(p) == writer = p /\ writer' = Nobody /\ now' = before /\ UNCHANGED before

\* Where a file is now says nothing while it is nowhere.
Ask(p) ==
    LET a == answer' IN
    /\ a.by = p
    /\ \/ a.found = Found(View(p), a.op, a.arg)
       \/ a.op = "actual_path" /\ Found(View(p), a.op, a.arg) = {}
    /\ UNCHANGED <<now, before, writer>>

Create(e) ==
    /\ ~There(now, e)
    /\ \E s \in {"imaged", "installed"} : now' = [now EXCEPT !.state[e] = s]
Delete(e) ==
    now' = [state |-> [now.state EXCEPT ![e] = "gone"],
            image |-> {f \in now.image : f[1] # e}, held |-> {h \in now.held : h[1] # e},
            binary |-> {f \in now.binary : f[1] # e}, deps |-> {d \in now.deps : d[1] # e}]
SetState(e) ==
    /\ There(now, e)
    /\ \E s \in {"imaged", "installed"} : now' = [now EXCEPT !.state[e] = s]
Depend(e) ==
    There(now, e) /\ \E n \in {Name[x] : x \in Entries} : now' = [now EXCEPT !.deps = @ \cup {<<e, n>>}]
Map(e, f) == There(now, e) /\ now' = [now EXCEPT !.image = @ \cup {<<e, f>>}]
Unmap(e, f) ==
    now' = [now EXCEPT !.image = @ \ {<<e, f>>}, !.binary = @ \ {<<e, f>>},
                       !.held = {h \in @ : <<h[1], h[2]>> # <<e, f>>}]
Classify(e, f) ==
    <<e, f>> \in now.image /\ now' = [now EXCEPT !.binary = @ \cup {<<e, f>>}]
Take(e, f, q) ==
    /\ <<e, f>> \in now.image
    /\ \A h \in now.held : h[3] # q
    /\ now' = [now EXCEPT !.held = {h \in @ : <<h[1], h[2]>> # <<e, f>>} \cup {<<e, f, q>>}]
Release(e, q) == now' = [now EXCEPT !.held = {h \in @ : h[1] # e \/ h[3] # q}]

Change(p) ==
    /\ writer \in {p, Nobody}
    /\ \E e \in Entries :
        \/ Create(e) \/ Delete(e) \/ SetState(e) \/ Depend(e)
        \/ \E f \in Paths : \/ Map(e, f) \/ Unmap(e, f) \/ Classify(e, f) \/ Release(e, f)
                            \/ \E q \in Paths : Take(e, f, q)
    /\ before' = IF writer = p THEN before ELSE now'
    /\ UNCHANGED writer

Next ==
    \E p \in Procs :
        \/ Ask(p)
        \/ answer' = NoAnswer /\ (Begin(p) \/ Commit(p) \/ Rollback(p) \/ Change(p))
        \/ answer' = NoAnswer /\ UNCHANGED <<now, before, writer>>

Step == [Next]_vars
Spec == Init /\ [][Next]_vars
=============================================================================
