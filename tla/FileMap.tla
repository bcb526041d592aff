------------------------------ MODULE FileMap -------------------------------
(***************************************************************************)
(* File maps (pextlib1.0/filemap.c), which the old registry uses to know   *)
(* the port of every file (registry2.0/receipt_flat.tcl): a tree of path   *)
(* elements, sorted, read from a file under a lock and written back to it. *)
(* Processes open one file; each may have several maps.                    *)
(***************************************************************************)
EXTENDS Integers, SequencesExt

CONSTANTS
    Procs,
    Vars,      \* the variables that a process has for maps
    Values,
    NotOpen,    \* the content of a map that is not open
    Plans      \* who runs; the paths that are set and those that are unset (a
               \* path is a sequence of names, a name a sequence of characters,
               \* and the name <<>> at the end a slash there); bound on calls;
               \* "reopen": a variable that holds a map is opened again; "ram":
               \* maps without a file; "readonly": maps opened so, also by one
               \* who may not write; "close", "save": that may fail to write

FileMapAssumption ==
    \A pl \in Plans : pl.procs \subseteq Procs /\ pl.removed \subseteq pl.paths /\ pl.calls \in Nat

NonASCII == 128  \* from here on a character is negative where char is signed

VARIABLES
    file,      \* the records in the file; <<>> also when there is none
    temp,      \* those in the file that is being written
    lock,      \* process -> the lock it has on the lock file: "", "r" or "w"
    map,       \* process, variable -> the map
    at,        \* process -> where it is in a call
    answer, calls, plan

vars == <<file, temp, lock, map, at, answer, calls, plan>>

NoMap == [kind |-> "none", root |-> <<>>, readOnly |-> FALSE, dirty |-> FALSE]
Idle == [pc |-> "idle", var |-> "", readOnly |-> FALSE, closes |-> FALSE]

-----------------------------------------------------------------------------
(* The tree: a directory is the sequence of its entries *)

Leaf(name, value) == [name |-> name, isLeaf |-> TRUE, value |-> value, sub |-> <<>>]
Node(name, sub) == [name |-> name, isLeaf |-> FALSE, value |-> "", sub |-> sub]

\* strncasecmp, and then the character after as a signed one.
Compare(name, part) ==
    LET differs == {i \in 1..Len(part) : i > Len(name) \/ name[i] # part[i]}
        first == CHOOSE i \in differs : \A j \in differs : i <= j
    IN  IF differs # {}
        THEN IF first > Len(name) \/ name[first] < part[first] THEN -1 ELSE 1
        ELSE IF Len(name) = Len(part) THEN 0
        ELSE IF name[Len(part) + 1] >= NonASCII THEN -1 ELSE 1

\* The place at which the search stops.
Place(dir, part) ==
    LET stops == {i \in DOMAIN dir : Compare(dir[i].name, part) >= 0}
    IN  IF stops = {} THEN Len(dir) + 1 ELSE CHOOSE i \in stops : \A j \in stops : i <= j
HasPart(dir, part) == LET i == Place(dir, part) IN i <= Len(dir) /\ Compare(dir[i].name, part) = 0

RECURSIVE Set(_, _, _)
Set(dir, path, value) ==
    LET part == Head(path)
        i == Place(dir, part)
        isDir == Len(path) > 1
        new == IF isDir THEN Node(part, <<>>) ELSE Leaf(part, value)
        all == IF HasPart(dir, part) THEN dir ELSE InsertAt(dir, i, new)
        below == Set(all[i].sub, Tail(path), value)
    IN  IF part = <<>> THEN [is |-> "error", dir |-> dir]
        ELSE IF isDir = all[i].isLeaf THEN [is |-> "error", dir |-> all]
        ELSE IF isDir THEN [is |-> below.is, dir |-> [all EXCEPT ![i].sub = below.dir]]
        ELSE [is |-> "ok", dir |-> [all EXCEPT ![i].value = value]]

RECURSIVE Get(_, _)
Get(dir, path) ==
    LET entry == dir[Place(dir, Head(path))]
    IN  IF ~HasPart(dir, Head(path)) \/ (Len(path) > 1) = entry.isLeaf THEN "absent"
        ELSE IF entry.isLeaf THEN entry.value
        ELSE Get(entry.sub, Tail(path))

RECURSIVE Delete(_, _)
\* An empty directory goes as well. What is below a file is looked for in the
\* bytes of its value.
Delete(dir, path) ==
    LET i == Place(dir, Head(path))
        below == Delete(dir[i].sub, Tail(path))
    IN  IF ~HasPart(dir, Head(path)) THEN [is |-> "error", dir |-> dir]
        ELSE IF Len(path) = 1 THEN [is |-> "ok", dir |-> RemoveAt(dir, i)]
        ELSE IF dir[i].isLeaf THEN [is |-> "crash", dir |-> dir]
        ELSE [is |-> below.is,
              dir |-> IF below.dir = <<>> THEN RemoveAt(dir, i)
                      ELSE [dir EXCEPT ![i].sub = below.dir]]

RECURSIVE ListSubtree(_, _)
ListSubtree(dir, at0) ==
    UNION {IF dir[i].isLeaf THEN {<<Append(at0, dir[i].name), dir[i].value>>}
           ELSE ListSubtree(dir[i].sub, Append(at0, dir[i].name)) : i \in DOMAIN dir}
List(dir, value) == {e[1] : e \in {f \in ListSubtree(dir, <<>>) : f[2] = value}}

\* The file: an entry before what is below it, with how many those are.
RECURSIVE SaveNode(_)
SaveNode(dir) ==
    FlattenSeq([i \in DOMAIN dir |->
        <<[name |-> dir[i].name, isLeaf |-> dir[i].isLeaf, value |-> dir[i].value,
           count |-> Len(dir[i].sub)]>> \o SaveNode(dir[i].sub)])
SaveTree(root) == <<[name |-> <<>>, isLeaf |-> FALSE, value |-> "", count |-> Len(root)]>> \o SaveNode(root)

\* The first n entries of what is left of the file, and the rest.
RECURSIVE LoadNodes(_, _)
LoadNodes(n, left) ==
    IF n = 0 THEN [dir |-> <<>>, left |-> left]
    ELSE LET e == Head(left)
             below == LoadNodes(e.count, Tail(left))
             others == LoadNodes(n - 1, below.left)
             node == IF e.isLeaf THEN Leaf(e.name, e.value) ELSE Node(e.name, below.dir)
         IN  [dir |-> <<node>> \o others.dir, left |-> others.left]
Load(records) == IF records = <<>> THEN <<>> ELSE LoadNodes(1, records).dir[1].sub

-----------------------------------------------------------------------------
(* The commands *)

Init ==
    /\ file = <<>> /\ temp = <<>>
    /\ lock = [p \in Procs |-> ""]
    /\ map = [p \in Procs |-> [v \in Vars |-> NoMap]]
    /\ at = [p \in Procs |-> Idle]
    /\ answer = <<>> /\ plan \in Plans /\ calls = plan.calls

Begins(p) == p \in plan.procs /\ at[p].pc = "idle" /\ calls > 0 /\ calls' = calls - 1
Uses(p, v) == Begins(p) /\ map[p][v].kind # "none"
Holds(p, v, m) == map' = [map EXCEPT ![p][v] = m]

\* The representation is freed, and its descriptor closed, which ends every
\* lock that the process has on the lock file.
Freed(p, v) == IF map[p][v].kind = "file" THEN [lock EXCEPT ![p] = ""] ELSE lock

Create(p, v) ==
    /\ "ram" \in plan.habits /\ Begins(p)
    /\ map[p][v].kind = "none" \/ "reopen" \in plan.habits
    /\ Holds(p, v, [NoMap EXCEPT !.kind = "ram"])
    /\ lock' = Freed(p, v)
    /\ answer' = <<"open", "ok">>
    /\ UNCHANGED <<file, temp, at, plan>>

\* open_file_map closes before it opens again.
Open(p, v) ==
    /\ Begins(p) /\ (map[p][v].kind = "none" \/ "reopen" \in plan.habits)
    /\ \E ro \in IF "readonly" \in plan.habits THEN BOOLEAN ELSE {FALSE} :
        at' = [at EXCEPT ![p] = [Idle EXCEPT !.pc = "lock", !.var = v, !.readOnly = ro]]
    /\ UNCHANGED <<file, temp, lock, map, answer, plan>>

\* Slip: F_SETLKW is F_SETLK, its result not looked at.
LockUnasked(p) ==
    /\ at[p].pc = "lock"
    /\ lock' = [lock EXCEPT ![p] = IF at[p].readOnly THEN "r" ELSE "w"]
    /\ at' = [at EXCEPT ![p].pc = "load"]
    /\ UNCHANGED <<file, temp, map, answer, calls, plan>>
\* fcntl with F_SETLKW waits for other processes only.
Lock(p) ==
    /\ at[p].pc = "lock"
    /\ \A q \in Procs \ {p} : lock[q] = "" \/ (at[p].readOnly /\ lock[q] = "r")
    /\ lock' = [lock EXCEPT ![p] = IF at[p].readOnly THEN "r" ELSE "w"]
    /\ at' = [at EXCEPT ![p].pc = "load"]
    /\ UNCHANGED <<file, temp, map, answer, calls, plan>>
OpenLoads(p) ==
    /\ at[p].pc = "load"
    /\ Holds(p, at[p].var, [NoMap EXCEPT !.kind = "file", !.root = Load(file),
                                         !.readOnly = at[p].readOnly])
    /\ lock' = Freed(p, at[p].var)
    /\ at' = [at EXCEPT ![p] = Idle]
    /\ answer' = <<"open", "ok">>
    /\ UNCHANGED <<file, temp, calls, plan>>

\* filemap set; also a call that fails makes the map dirty.
SetValue(p, v) ==
    LET m == map[p][v] IN
    /\ Uses(p, v)
    /\ \E path \in plan.paths, value \in Values :
        LET r == Set(m.root, path, value) IN
        IF m.readOnly THEN answer' = <<"set", path, "error">> /\ UNCHANGED map
        ELSE /\ answer' = <<"set", path, r.is>>
             /\ Holds(p, v, [m EXCEPT !.root = r.dir, !.dirty = TRUE])
    /\ UNCHANGED <<file, temp, lock, at, plan>>
Unset(p, v) ==
    LET m == map[p][v] IN
    /\ Uses(p, v)
    /\ \E path \in plan.removed :
        LET r == Delete(m.root, path) IN
        IF m.readOnly THEN answer' = <<"unset", path, "error">> /\ UNCHANGED map
        ELSE /\ answer' = <<"unset", path, r.is>>
             /\ Holds(p, v, [m EXCEPT !.root = r.dir, !.dirty = TRUE])
    /\ UNCHANGED <<file, temp, lock, at, plan>>
Look(p, v) ==
    /\ Uses(p, v)
    /\ \/ \E path \in plan.paths : answer' = <<"get", path, Get(map[p][v].root, path)>>
       \/ \E value \in Values : answer' = <<"list", value, List(map[p][v].root, value)>>
    /\ UNCHANGED <<file, temp, lock, map, at, plan>>

Revert(p, v) ==
    /\ Uses(p, v) /\ map[p][v].kind = "file"
    /\ Holds(p, v, [map[p][v] EXCEPT !.root = Load(file), !.dirty = FALSE])
    /\ answer' = <<"revert", "ok">>
    /\ UNCHANGED <<file, temp, lock, at, plan>>

\* Save and close: what is dirty and has a file is written; close then unsets
\* the variable.
Finish(p, v, closes, is) ==
    /\ map' = [map EXCEPT ![p][v] = IF closes THEN NoMap ELSE [@ EXCEPT !.dirty = FALSE]]
    /\ lock' = IF closes THEN Freed(p, v) ELSE lock
    /\ answer' = <<IF closes THEN "close" ELSE "save", is>>
    /\ at' = [at EXCEPT ![p] = Idle]
Save(p, v, closes) ==
    LET m == map[p][v] IN
    /\ Uses(p, v)
    /\ IF m.kind = "file" /\ m.dirty
       THEN /\ at' = [at EXCEPT ![p] = [Idle EXCEPT !.pc = "write", !.var = v, !.closes = closes]]
            /\ UNCHANGED <<lock, map, answer>>
       ELSE IF m.kind = "ram" /\ ~closes
       THEN answer' = <<"save", "error">> /\ UNCHANGED <<at, lock, map>>
       ELSE Finish(p, v, closes, "ok")
    /\ UNCHANGED <<file, temp, plan>>

Write(p) ==
    LET records == SaveTree(map[p][at[p].var].root) IN
    /\ at[p].pc = "write"
    /\ \/ /\ temp' = records
          /\ at' = [at EXCEPT ![p].pc = "rename"]
          /\ UNCHANGED <<lock, map, answer>>
       \/ /\ (IF at[p].closes THEN "close" ELSE "save") \in plan.habits
          /\ temp' = Front(records)
          /\ Finish(p, at[p].var, at[p].closes, "error")
    /\ UNCHANGED <<file, calls, plan>>
Rename(p) ==
    /\ at[p].pc = "rename"
    /\ \/ /\ file' = temp /\ temp' = <<>>
          /\ Finish(p, at[p].var, at[p].closes, "ok")
       \/ /\ (IF at[p].closes THEN "close" ELSE "save") \in plan.habits
          /\ UNCHANGED <<file, temp>>
          /\ Finish(p, at[p].var, at[p].closes, "error")
    /\ UNCHANGED <<calls, plan>>

\* The process is killed; it may be started again.
Killed(p) ==
    /\ at[p].pc # "idle" \/ \E v \in Vars : map[p][v].kind # "none"
    /\ calls > 0 /\ calls' = calls - 1
    /\ map' = [map EXCEPT ![p] = [v \in Vars |-> NoMap]]
    /\ lock' = [lock EXCEPT ![p] = ""]
    /\ at' = [at EXCEPT ![p] = Idle]
    /\ UNCHANGED <<file, temp, answer, plan>>

Proceed(p) == Lock(p) \/ OpenLoads(p) \/ Write(p) \/ Rename(p)
Next == \E p \in Procs :
    \/ Proceed(p) \/ Killed(p)
    \/ \E v \in Vars :
        \/ Create(p, v) \/ Open(p, v)
        \/ SetValue(p, v) \/ Unset(p, v) \/ Look(p, v) \/ Revert(p, v)
        \/ Save(p, v, TRUE) \/ Save(p, v, FALSE)

Spec == Init /\ [][Next]_vars

-----------------------------------------------------------------------------
(* Properties *)

MapOf(root) ==
    LET all == ListSubtree(root, <<>>)
    IN  [k \in {e[1] : e \in all} |-> (CHOOSE e \in all : e[1] = k)[2]]
Handles == Procs \X Vars

Abstract == INSTANCE KeyStore WITH
    Keys <- UNION {pl.paths : pl \in Plans},
    stored <- MapOf(Load(file)),
    copy <- [h \in Handles |-> LET m == map[h[1]][h[2]] IN
                IF m.kind = "none" THEN NotOpen ELSE MapOf(m.root)],
    mode <- [h \in Handles |-> LET m == map[h[1]][h[2]] IN
                IF m.kind # "file" THEN "ram" ELSE IF m.readOnly THEN "r" ELSE "w"]

\* Processes that open, change, save, revert and close the map of one file see
\* one map that changes as a whole, and never lose a change without an error.
ImplementsKeyStore == Abstract!Spec
=============================================================================
