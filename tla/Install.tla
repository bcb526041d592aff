-------------------------------- MODULE Install --------------------------------
(* xinstall of one file (pextlib1.0/xinstall.c): a target is replaced through  *)
(* a sequence of system calls, any of which may fail, and the process may be   *)
(* killed between any two.  -S copies beside the target and renames, -b keeps  *)
(* the old file under another name, -C leaves a target alone that is the same, *)
(* -s strips what was copied.                                                  *)
EXTENDS Integers, Sequences

CONSTANTS Options,     \* [safe, backup, compare, strip], each TRUE or FALSE
          Faults,      \* system calls that may fail
          MaxFaults    \* failures in one command

VARIABLES opt,         \* the options of this command
          existed,     \* stat at the start: content of the target, or "absent"
          links,       \* st_nlink # 1 at the start: the old file has another name
          names,       \* [target, backup, temp, link -> inode, 0 while there is none]
          node,        \* [inode -> [content, owner, mode]]; owner and mode: as asked?
          fd,          \* inode of to_fd
          rw,          \* is to_fd open for writing?
          match,       \* files_match
          pc,
          parent,      \* <<>>, <<to_fd>> of a parent that waits for strip, or
                       \* <<0, 0>> once the child that could not execute it ended
          faults,      \* failures so far
          removed      \* did a failed chown or chflags remove the new file?
vars == <<opt, existed, links, names, node, fd, rw, match, pc, parent, faults, removed>>

InstallAssumption ==
    /\ Options \subseteq [safe : BOOLEAN, backup : BOOLEAN, compare : BOOLEAN, strip : BOOLEAN]
    /\ MaxFaults \in Nat

Contents == {"old", "new", "slim"}    \* slim: what strip makes of new
Want == IF opt.strip THEN "slim" ELSE "new"
target == existed # "absent"
tempcopy == (opt.safe \/ (opt.compare /\ opt.strip)) /\ target
Copy == IF tempcopy THEN "temp" ELSE "target"
Fresh(content) == [content |-> content, owner |-> FALSE, mode |-> FALSE]
NewInode == CHOOSE i \in DOMAIN node : node[i].content = "none"
Unlink(n) == [names EXCEPT ![n] = 0]

Goto(l) == pc' = l
Fault(f) == f \in Faults /\ faults < MaxFaults /\ faults' = faults + 1
Fine == UNCHANGED faults
Given == UNCHANGED <<opt, existed, links>>
Still == Given /\ UNCHANGED <<parent, removed>>
Local == UNCHANGED <<fd, rw, match>>
Files == UNCHANGED <<names, node>>
--------------------------------------------------------------------------------
Init ==
    /\ opt \in Options
    /\ existed \in Contents \cup {"absent"}
    /\ links \in BOOLEAN /\ (links => existed # "absent")
    /\ names = [n \in {"target", "backup", "temp", "link"} |->
                  IF existed # "absent" /\ (n = "target" \/ (n = "link" /\ links)) THEN 1 ELSE 0]
    /\ node = [i \in 1 .. 2 |-> IF i = 1 /\ existed # "absent" THEN Fresh(existed) ELSE Fresh("none")]
    /\ fd = 0 /\ rw = FALSE /\ match = FALSE
    /\ pc = "begin" /\ parent = <<>> /\ faults = 0 /\ removed = FALSE

\* The source is opened, the target looked at.
Begin ==
    /\ pc = "begin" /\ Still /\ Local /\ Files
    /\ \/ Fault("open") /\ Goto("error")
       \/ Fine /\ Goto(IF opt.compare /\ ~opt.strip /\ target THEN "match" ELSE "create")

\* Mutant: files of one length are taken for equal.
MatchBySize ==
    /\ pc = "match" /\ Still /\ Files /\ Fine
    /\ match' \in BOOLEAN /\ fd' = names["target"] /\ rw' = FALSE
    /\ Goto(IF match' THEN "owner" ELSE "create")
\* compare() may take equal files for different: a read fails, or they are large.
Match ==
    /\ pc = "match" /\ Still /\ Files
    /\ \/ Fault("open") /\ Goto("error") /\ Local
       \/ /\ Fine /\ match' \in {FALSE, node[names["target"]].content = "new"}
          /\ fd' = names["target"] /\ rw' = FALSE
          /\ Goto(IF match' THEN "owner" ELSE "create")

create_tempfile ==
    /\ pc = "create" /\ tempcopy /\ Still /\ UNCHANGED match
    /\ \/ Fault("open") /\ Goto("error") /\ Files /\ UNCHANGED <<fd, rw>>
       \/ /\ Fine /\ Goto("write")
          /\ node' = [node EXCEPT ![NewInode] = Fresh("empty")]
          /\ names' = [names EXCEPT !["temp"] = NewInode]
          /\ fd' = NewInode /\ rw' = TRUE

\* The target makes room: by a rename, or by an unlink whose failure is ignored.
MakeRoom ==
    /\ pc = "create" /\ ~tempcopy /\ target /\ Still /\ Local /\ UNCHANGED node
    /\ \/ /\ opt.backup
          /\ \/ Fault("rename") /\ Goto("error") /\ UNCHANGED names
             \/ /\ Fine /\ Goto("newfile")
                /\ names' = [names EXCEPT !["backup"] = names["target"], !["target"] = 0]
       \/ /\ ~opt.backup /\ Goto("newfile")
          /\ \/ Fault("unlink") /\ UNCHANGED names
             \/ Fine /\ names' = Unlink("target")

create_newfile ==
    /\ \/ pc = "newfile"
       \/ pc = "create" /\ ~tempcopy /\ ~target
    /\ Still /\ UNCHANGED match
    /\ \/ Fault("open") /\ Goto("error") /\ Files /\ UNCHANGED <<fd, rw>>
       \/ /\ Fine /\ Goto("write") /\ rw' = TRUE
          /\ IF names["target"] = 0
             THEN /\ node' = [node EXCEPT ![NewInode] = Fresh("empty")]
                  /\ names' = [names EXCEPT !["target"] = NewInode]
                  /\ fd' = NewInode
             ELSE /\ node' = [node EXCEPT ![names["target"]].content = "empty"]
                  /\ fd' = names["target"] /\ UNCHANGED names

AfterCopy == IF opt.strip THEN "strip" ELSE IF tempcopy THEN "move" ELSE "owner"
\* Mutant: a failed copy removes the target and not the file it wrote.
CopyFailsOnTarget ==
    Fault("write") /\ names' = Unlink("target") /\ Goto("error") /\ UNCHANGED node
CopyFails == Fault("write") /\ names' = Unlink(Copy) /\ Goto("error") /\ UNCHANGED node
copy ==
    /\ pc \in {"write", "write2"} /\ Still /\ Local
    /\ \/ CopyFails
       \/ /\ Fine /\ UNCHANGED names
          /\ node' = [node EXCEPT ![fd].content = IF pc = "write" THEN "part" ELSE "new"]
          /\ Goto(IF pc = "write" THEN "write2" ELSE AfterCopy)

\* strip() gives no result; a failure removes the file, and is noticed when it
\* cannot be opened.  When strip cannot be executed, the child returns from
\* strip() and goes on with the installation; the parent waits for its end.
strip ==
    /\ pc = "strip" /\ Local /\ Given /\ UNCHANGED removed
    /\ Goto("reopen")
    /\ \/ Fault("strip") /\ names' = Unlink(Copy) /\ UNCHANGED <<node, parent>>
       \/ /\ Fine /\ UNCHANGED <<names, parent>>
          /\ node' = [node EXCEPT ![names[Copy]].content = "slim"]
       \/ Fault("exec") /\ parent = <<>> /\ parent' = <<fd>> /\ Files

ChildEnds ==
    /\ pc \in {"ok", "error"} /\ Len(parent) = 1
    /\ fd' = parent[1] /\ rw' = TRUE /\ match' = FALSE /\ parent' = <<0, 0>>
    /\ names' \in {names, Unlink(Copy)}      \* its status was zero, or not
    /\ Goto("reopen") /\ Fine /\ Given /\ UNCHANGED <<node, removed>>

Reopen ==
    /\ pc = "reopen" /\ Still /\ Files /\ UNCHANGED match
    /\ \/ (Fault("open") \/ (names[Copy] = 0 /\ Fine)) /\ Goto("error") /\ UNCHANGED <<fd, rw>>
       \/ /\ names[Copy] # 0 /\ Fine /\ fd' = names[Copy] /\ rw' = FALSE
          /\ Goto(IF opt.compare /\ target THEN "compare" ELSE IF tempcopy THEN "move" ELSE "owner")

\* The stripped copy is compared with the target, and dropped when it is the
\* same, unless the target has another name, from which it must part.
CompareStripped ==
    /\ pc = "compare" /\ Still /\ UNCHANGED node
    /\ \/ /\ Fault("open") \/ (names["target"] = 0 /\ Fine)
          /\ Goto("error") /\ Local /\ UNCHANGED names
       \/ Fault("stat") /\ Goto("error") /\ names' = Unlink("temp") /\ Local
       \/ /\ names["target"] # 0 /\ Fine /\ fd' = names["target"] /\ rw' = FALSE
          /\ match' \in {FALSE, ~links /\ node[names["target"]].content = node[fd].content}
          /\ names' = IF match' THEN Unlink("temp") ELSE names
          /\ Goto(IF match' THEN "owner" ELSE "move")

RenameFails == names' = Unlink("temp") /\ Goto("error") /\ UNCHANGED node
Backup ==
    /\ pc = "move" /\ opt.backup /\ Still /\ Local
    /\ \/ (Fault("rename") \/ (names["target"] = 0 /\ Fine)) /\ RenameFails
       \/ /\ names["target"] # 0 /\ Fine /\ Goto("rename") /\ UNCHANGED node
          /\ names' = [names EXCEPT !["backup"] = names["target"], !["target"] = 0]
Move ==
    /\ pc = "rename" \/ (pc = "move" /\ ~opt.backup)
    /\ Still /\ Local
    /\ \/ (Fault("rename") \/ (names["temp"] = 0 /\ Fine)) /\ RenameFails
       \/ /\ names["temp"] # 0 /\ Fine /\ Goto("moved") /\ UNCHANGED node
          /\ names' = [names EXCEPT !["target"] = names["temp"], !["temp"] = 0]
Moved ==
    /\ pc = "moved" /\ Still /\ Files /\ UNCHANGED match
    /\ \/ Fault("open") /\ Goto("error") /\ UNCHANGED <<fd, rw>>
       \/ Fine /\ fd' = names["target"] /\ rw' = FALSE /\ Goto("owner")

\* ftruncate reaches the file only through a descriptor open for writing.
Truncated == IF rw THEN [node EXCEPT ![fd].content = "empty"] ELSE node
\* The file of a failed chown is removed, where unlinkat does not do nothing.
SetOwner ==
    /\ pc = "owner" /\ Given /\ UNCHANGED parent /\ Local
    /\ \/ Fault("stat") /\ node' = Truncated /\ Goto("error") /\ UNCHANGED <<names, removed>>
       \/ /\ ~node[fd].owner /\ Fault("chown") /\ Goto("error") /\ UNCHANGED node
          /\ names' \in {names, Unlink("target")} /\ removed' = (removed \/ names' # names)
       \/ /\ Fine /\ node' = [node EXCEPT ![fd].owner = TRUE] /\ Goto("mode")
          /\ UNCHANGED <<names, removed>>
SetMode ==
    /\ pc = "mode" /\ Still /\ Local
    /\ \/ ~node[fd].mode /\ Fault("chmod") /\ node' = Truncated /\ Goto("error") /\ UNCHANGED names
       \/ Fine /\ node' = [node EXCEPT ![fd].mode = TRUE] /\ Goto("flags") /\ UNCHANGED names
SetFlags ==
    /\ pc = "flags" /\ Given /\ UNCHANGED parent /\ Local /\ UNCHANGED node
    /\ \/ Fault("chflags") /\ names' = Unlink("target") /\ removed' = TRUE /\ Goto("error")
       \/ Fine /\ Goto("ok") /\ UNCHANGED <<names, removed>>

Kill == pc \notin {"ok", "error", "killed"} /\ Goto("killed") /\ Still /\ Local /\ Files /\ Fine

Next ==
    \/ Begin \/ Match \/ create_tempfile \/ MakeRoom \/ create_newfile \/ copy \/ strip
    \/ ChildEnds \/ Reopen \/ CompareStripped \/ Backup \/ Move \/ Moved
    \/ SetOwner \/ SetMode \/ SetFlags \/ Kill
Spec == Init /\ [][Next]_vars
--------------------------------------------------------------------------------
Holds(n, contents) == names[n] # 0 /\ node[names[n]].content \in contents

\* A command that reports success has put the whole file in place, with its owner
\* and mode, leaves no temporary file, and has kept the file it replaced when a
\* backup was asked for.  (Where strip cannot be executed at all the file is the
\* unstripped one.)
Delivered ==
    pc = "ok" /\ Len(parent) # 1 =>
      /\ Holds("target", IF parent = <<>> THEN {Want} ELSE {Want, "new"})
      /\ node[names["target"]].owner /\ node[names["target"]].mode
      /\ names["temp"] = 0
      /\ opt.backup /\ target => Holds("target", {existed}) \/ Holds("backup", {existed})

\* With -S or -b the old content or the whole new one can be found at every moment,
\* whatever call fails and wherever the process is killed.  (The failure to give the
\* new file its owner or flags removes it: then only a backup is left.)
OldOrNew ==
    target /\ (opt.safe \/ opt.backup) =>
      \/ Holds("target", {existed, "new", "slim"})
      \/ opt.backup /\ Holds("backup", {existed})
      \/ removed

\* (limit) A file that is to be stripped and is reported installed is stripped.
Stripped == pc = "ok" /\ Len(parent) # 1 => Holds("target", {Want})
\* (limit) The file the old target was keeps its content under its other name.
OtherNameKept == links => Holds("link", {existed})
\* (limit) No temporary file is left by a command that returns.
TempRemoved == pc \in {"ok", "error"} => names["temp"] = 0
================================================================================
