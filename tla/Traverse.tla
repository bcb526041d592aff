-------------------------------- MODULE Traverse --------------------------------
(* fs-traverse (pextlib1.0/fs-traverse.c): a Tcl script is run for every entry *)
(* of a tree while the script itself, or another process, changes the tree.    *)
(* Three of its users: "delete" of portutil.tcl, the pruning of empty          *)
(* directories in portdestroot.tcl and the list of installed files in          *)
(* portinstall.tcl.  fts_read is external: it lists a directory when it goes   *)
(* down into it.                                                               *)
EXTENDS Integers, Sequences, SequencesExt

CONSTANTS Paths,       \* paths that may exist: sequences of numbers, in name order
          Dirs,        \* those that are directories
          Targets,     \* sequences of paths that may be traversed
          Trees,       \* sets of paths that may exist at the start
          MaxChanges   \* changes by another process

VARIABLES task,        \* "delete", "prune" or "list"
          ignore,      \* -ignoreErrors
          targets,
          tree,        \* the paths that exist
          stayed,      \* those that existed all along
          todo,        \* what fts_read has still to return: <<info, path>>s
          ent,         \* what it returned last, or <<>>
          skip,        \* FTS_SKIP set on ent?
          given,       \* entries the script was run for, in order
          failed,      \* directories that could not be read
          status,      \* "none", then "ok" or "error"
          changes
vars == <<task, ignore, targets, tree, stayed, todo, ent, skip, given, failed, status, changes>>

Below(p) == {q \in Paths : Len(q) > Len(p) /\ SubSeq(q, 1, Len(p)) = p}
DirEntries(p) == {q \in tree \cap Below(p) : Len(q) = Len(p) + 1}
ByName(S) == SetToSortSeq(S, LAMBDA p, q : p[Len(p)] < q[Len(q)])
Info(p) == IF p \notin tree THEN "NS" ELSE IF p \in Dirs THEN "D" ELSE "F"
Stat(ps) == [i \in DOMAIN ps |-> <<Info(ps[i]), ps[i]>>]

\* After a directory fts goes into it, unless told to skip it; one that is gone
\* cannot be read; post-order comes when its entries are done.
Pending ==
    IF ent = <<>> \/ ent[1] # "D" THEN todo
    ELSE LET p == ent[2]
         IN  IF skip THEN <<<<"DP", p>>>> \o todo
             ELSE IF p \notin tree THEN <<<<"DNR", p>>>> \o todo
             ELSE Stat(ByName(DirEntries(p))) \o <<<<"DP", p>>>> \o todo

Fixed == UNCHANGED <<task, ignore, targets>>
Running == status = "none" /\ Fixed
Return(s) == status' = s
--------------------------------------------------------------------------------
Init ==
    /\ task \in {"delete", "prune", "list"} /\ ignore \in BOOLEAN
    /\ targets \in Targets /\ tree \in Trees /\ stayed = tree
    /\ todo = Stat(targets) /\ ent = <<>> /\ skip = FALSE
    /\ given = <<>> /\ failed = {} /\ status = "none" /\ changes = 0

F_DEPTH == TRUE      \* all three give -depth
\* Defect: a directory is given to the script both ways.
BothWays(info) == info \in {"D", "DP", "F"}

Wanted(info) == info = "F" \/ (info = "DP" /\ F_DEPTH) \/ (info = "D" /\ ~F_DEPTH)

\* The script.  delete: "file delete -force", then continue.  prune: "file
\* delete" of a directory, which fails when it has entries, the error caught.
\* list: appends what is no directory.  "file type" of what is gone is an error.
Delete(p) == tree' = tree \ ({p} \cup Below(p)) /\ stayed' = stayed \cap tree'
\* Defect: without -force, and nobody looks whether it failed.
DeleteEmpty(p) ==
    /\ tree' = IF DirEntries(p) = {} THEN tree \ {p} ELSE tree
    /\ stayed' = stayed \cap tree'
ForceDelete(p) == Delete(p)
Script(p) ==
    \/ /\ task = "delete" /\ ForceDelete(p) /\ skip' = TRUE /\ UNCHANGED status
    \/ /\ task = "delete" /\ Return("error") /\ UNCHANGED <<tree, stayed, skip>>
    \/ /\ task = "prune" /\ skip' = FALSE
       /\ IF p \in tree
          THEN /\ UNCHANGED status
               /\ IF p \in Dirs /\ DirEntries(p) = {} THEN Delete(p) ELSE UNCHANGED <<tree, stayed>>
          ELSE Return("error") /\ UNCHANGED <<tree, stayed>>
    \/ /\ task = "list" /\ skip' = (p \in tree \cap Dirs) /\ UNCHANGED <<tree, stayed>>
       /\ IF p \in tree THEN UNCHANGED status ELSE Return("error")

Visit ==
    /\ Running /\ Pending # <<>> /\ Wanted(Head(Pending)[1])
    /\ ent' = Head(Pending) /\ todo' = Tail(Pending)
    /\ given' = Append(given, Head(Pending)[2])
    /\ Script(Head(Pending)[2])
    /\ UNCHANGED <<failed, changes>>

\* A directory on the way in is passed over with -depth.
PassOver ==
    /\ Running /\ Pending # <<>> /\ ~Wanted(Head(Pending)[1])
    /\ Head(Pending)[1] \in {"D", "DP"}
    /\ ent' = Head(Pending) /\ todo' = Tail(Pending) /\ skip' = FALSE
    /\ UNCHANGED <<tree, stayed, given, failed, status, changes>>

\* No file information, or a directory that cannot be read: an error unless
\* errors are ignored.
CannotRead ==
    /\ Running /\ Pending # <<>> /\ Head(Pending)[1] \in {"NS", "DNR"}
    /\ ent' = Head(Pending) /\ todo' = Tail(Pending) /\ skip' = FALSE
    /\ failed' = failed \cup {Head(Pending)[2]}
    /\ IF ignore THEN UNCHANGED status ELSE Return("error")
    /\ UNCHANGED <<tree, stayed, given, changes>>

\* fts_read returned NULL: the end, or an error of its own, which -ignoreErrors
\* does not cover.
Finish ==
    /\ Running /\ Return("ok") /\ Pending = <<>>
    /\ UNCHANGED <<tree, stayed, todo, ent, skip, given, failed, changes>>
ReadFails ==
    /\ Running /\ Return("error")
    /\ UNCHANGED <<tree, stayed, todo, ent, skip, given, failed, changes>>

\* Another process adds an entry to a directory, or removes a subtree.
Add(p) ==
    /\ p \notin tree /\ Len(p) > 1 /\ Front(p) \in tree \cap Dirs
    /\ tree' = tree \cup {p} /\ UNCHANGED stayed
Intrude ==
    /\ Running /\ changes < MaxChanges /\ changes' = changes + 1
    /\ \E p \in Paths : Add(p) \/ (p \in tree /\ Delete(p))
    /\ UNCHANGED <<todo, ent, skip, given, failed, status>>

Returned == status # "none" /\ UNCHANGED vars

Next == Visit \/ PassOver \/ CannotRead \/ Finish \/ ReadFails \/ Intrude \/ Returned
Spec == Init /\ [][Next]_vars
--------------------------------------------------------------------------------
Times(p) == {i \in DOMAIN given : given[i] = p}
Traversed == UNION {{targets[i]} \cup Below(targets[i]) : i \in DOMAIN targets}

\* A traversal that succeeds has run the script once for every entry that was
\* there all along, and never ran it twice for one (delete, which takes the tree
\* away under the traversal, included), directories after their entries.
EachOnce ==
    status = "ok" =>
      /\ \A i, j \in DOMAIN given : given[i] = given[j] => i = j
      /\ \A p \in stayed \cap Traversed : Times(p) # {}
      /\ \A i, j \in DOMAIN given : i < j => given[j] \notin Below(given[i])

\* What the users rely on: delete leaves nothing of what it was given, whatever
\* another process adds meanwhile, unless a part could not be read; pruning
\* leaves no empty directory when no other process changes the tree.
TaskDone ==
    status = "ok" =>
      /\ task = "delete" /\ failed = {} => tree \cap Traversed = {}
      /\ task = "prune" /\ changes = 0 =>
            \A p \in tree \cap Dirs \cap Traversed : DirEntries(p) # {}
================================================================================
