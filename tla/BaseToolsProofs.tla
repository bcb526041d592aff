-------------------------- MODULE BaseToolsProofs ---------------------------
(* Proofs about install, system and trace mode, for any processes, connections, *)
(* targets, options, failures, lines and descriptors: an inductive invariant of *)
(* each, and that the properties of MCBaseTools follow from it.                  *)
EXTENDS MCBaseTools, FiniteSetTheorems, SequenceTheorems, TLAPS

-----------------------------------------------------------------------------
(* install *)

InstallPcs == {"begin", "match", "create", "newfile", "write", "write2", "strip", "reopen",
               "compare", "move", "rename", "moved", "owner", "mode", "flags", "ok", "error",
               "killed"}
Early == {"begin", "match", "create"}
Placed == {"owner", "mode", "flags", "ok"}
FileNames == {"target", "backup", "temp", "link"}
Inodes == [content : {"none", "old", "new", "slim", "empty", "part"}, owner : BOOLEAN,
           mode : BOOLEAN]

InstallTypes ==
    /\ opt \in InstallOptions
    /\ existed \in Inst!Contents \cup {"absent"} /\ links \in BOOLEAN
    /\ names \in [FileNames -> 0 .. 2] /\ node \in [1 .. 2 -> Inodes]
    /\ fd \in 0 .. 2 /\ rw \in BOOLEAN /\ match \in BOOLEAN /\ pc \in InstallPcs
    /\ parent \in {<<>>, <<0, 0>>, <<1>>, <<2>>} /\ faults \in Nat /\ removed \in BOOLEAN

\* What the copy is once it is complete: an unstripped one, where strip cannot be
\* executed, for the parent as for the child.
Whole == IF parent = <<>> THEN Inst!Want ELSE "new"

\* Nothing has been done yet.
Untouched ==
    /\ parent = <<>> /\ fd \in {0, 1} /\ rw = FALSE
    /\ names["temp"] = 0 /\ names["backup"] = 0 /\ node[2].content = "none"
    /\ names["target"] = IF Inst!target THEN 1 ELSE 0
    /\ node[1].content = IF Inst!target THEN existed ELSE "none"

\* Only a target that has all it is to have is compared before it is copied.
Compared == pc = "match" => opt.compare /\ ~opt.strip /\ Inst!target

\* The file that is in place is the one that is given its owner and mode.
InPlace ==
    pc \in Placed =>
        /\ fd = names["target"] /\ fd # 0 /\ node[fd].content = Whole
        /\ pc # "owner" => node[fd].owner
        /\ pc \in {"flags", "ok"} => node[fd].mode

\* A child that could not execute strip, and its parent after it.
Parents ==
    parent # <<>> => opt.strip /\ pc \notin Early \cup {"newfile", "write", "write2", "strip"}

\* The copy is made beside the target: the old file is not written to, and is in
\* its place until the complete copy takes it, or has been moved to the backup.
Beside ==
    /\ node[1].content = existed
    /\ names["temp"] \in {0, 2} /\ names["backup"] \in {0, 1}
    /\ names["backup"] = 1 => opt.backup /\ names["target"] # 1
    /\ names["target"] = 0 => names["backup"] = 1 \/ removed
    /\ names["target"] = 2 => names["temp"] = 0 /\ node[2].content = Whole
                              /\ (opt.backup => names["backup"] = 1)
    /\ names["temp"] = 2 => \/ names["target"] = 1 /\ names["backup"] = 0
                            \/ pc \in {"rename", "killed"}
    /\ parent # <<>> => parent \in {<<2>>, <<0, 0>>}
CopyBeside ==
    /\ pc # "newfile"
    /\ pc \in Early => Untouched
    /\ pc \in {"write", "write2", "strip"} => fd = 2
    /\ pc \in {"write", "write2", "strip", "compare", "move", "rename"} => names["temp"] = 2
    /\ pc = "strip" => opt.strip /\ node[2].content = "new"
    /\ pc \in {"reopen", "compare"} => opt.strip
    /\ pc = "compare" => fd = 2
    /\ names["temp"] = 2 /\ (pc \in {"reopen", "compare", "move", "rename"} \/ parent # <<>>)
        => node[2].content = Whole
    /\ pc = "rename" => names["target"] = 0 /\ names["backup"] = 1
    /\ pc = "moved" => names["target"] = 2
    /\ pc \in Placed => names["temp"] = 0 /\ rw = FALSE

\* The copy is made in place of the target: the backup has the old file, from
\* before the copy begins, unless the old file is the same and stays.
Instead ==
    Inst!target /\ opt.backup =>
        \/ names["backup"] = 1 /\ names["target"] # 1 /\ node[1].content = existed
           /\ (pc # "newfile" /\ rw => fd # 1) /\ parent # <<1>>
        \/ pc \in Early
        \/ /\ names["target"] = 1 /\ names["backup"] = 0 /\ rw = FALSE /\ parent = <<>>
           /\ node[1].content = existed /\ pc \in Placed \cup {"error", "killed"}
        \/ removed /\ pc = "error" /\ parent = <<>>
CopyInstead ==
    /\ names["temp"] = 0 /\ pc \notin {"compare", "move", "rename", "moved"}
    /\ pc \in Early => Untouched
    /\ pc = "newfile" => /\ Inst!target /\ node[2].content = "none" /\ rw = FALSE
                         /\ names["target"] \in {0, 1}
    /\ pc \in {"write", "write2", "strip"} => fd = names["target"] /\ fd # 0
    /\ pc = "strip" => opt.strip /\ node[fd].content = "new"
    /\ pc = "reopen" => opt.strip
    /\ names["target"] # 0 /\ (pc = "reopen" \/ parent # <<>>)
        => node[names["target"]].content = Whole
    /\ pc \in Placed /\ parent # <<>> => rw = FALSE

InstallInv ==
    /\ InstallTypes /\ Compared /\ InPlace /\ Parents
    /\ IF Inst!tempcopy THEN Beside /\ CopyBeside ELSE Instead /\ CopyInstead

\* install begins with nothing done.
LEMMA InstallInitially ==
    ASSUME Inst!Init, Inst!InstallAssumption PROVE InstallInv
<1> USE DEF Inst!Init, Inst!InstallAssumption
<1>1. names = [n \in FileNames |->
                 IF existed # "absent" /\ (n = "target" \/ (n = "link" /\ links)) THEN 1 ELSE 0]
  BY DEF FileNames
<1>2. node \in [1 .. 2 -> Inodes]
  BY DEF Inodes, Inst!Fresh, Inst!Contents
<1>3. names \in [FileNames -> 0 .. 2]
  BY <1>1
<1>8. opt \in InstallOptions /\ existed \in Inst!Contents \cup {"absent"} /\ links \in BOOLEAN
  OBVIOUS
<1>9. InstallTypes
  BY <1>2, <1>3, <1>8 DEF InstallTypes, FileNames, InstallPcs
<1>4. Untouched
  BY <1>1 DEF Untouched, Inst!Fresh, Inst!target, FileNames
<1>5. Compared /\ InPlace /\ Parents
  BY DEF Compared, InPlace, Parents, Placed
<1>6. Inst!tempcopy => Beside /\ CopyBeside
  BY <1>4, <1>1 DEF Beside, CopyBeside, Untouched, FileNames, Inst!tempcopy, Inst!target, Placed
<1>7. ~Inst!tempcopy => Instead /\ CopyInstead
  BY <1>4, <1>1 DEF Instead, CopyInstead, Untouched, Early, FileNames, Inst!target, Placed
<1> QED BY <1>9, <1>5, <1>6, <1>7 DEF InstallInv

\* What makes install safe follows from the invariant.
LEMMA InstallIsSafeFollows ==
    ASSUME InstallInv PROVE Inst!Delivered /\ Inst!OldOrNew
<1> USE DEF InstallInv, InstallTypes, FileNames
<1>0. names["target"] \in {0, 1, 2} /\ names["backup"] \in {0, 1, 2} /\ names["temp"] \in {0, 1, 2}
  OBVIOUS
<1>1. Inst!OldOrNew
  <2>1. CASE Inst!tempcopy
    BY <2>1, <1>0 DEF Inst!OldOrNew, Inst!Holds, Beside, Whole, Inst!Want
  <2>2. CASE ~Inst!tempcopy
    BY <2>2, <1>0 DEF Inst!OldOrNew, Inst!Holds, Instead, Inst!tempcopy, Early, Placed,
                      CopyInstead, Untouched, Inst!Want, InPlace, Whole
  <2> QED BY <2>1, <2>2
<1>2. Inst!Delivered
  <2> SUFFICES ASSUME pc = "ok", Len(parent) # 1 PROVE
      /\ Inst!Holds("target", IF parent = <<>> THEN {Inst!Want} ELSE {Inst!Want, "new"})
      /\ node[names["target"]].owner /\ node[names["target"]].mode
      /\ names["temp"] = 0
      /\ opt.backup /\ Inst!target => Inst!Holds("target", {existed}) \/ Inst!Holds("backup", {existed})
    BY DEF Inst!Delivered
  <2>1. /\ Inst!Holds("target", IF parent = <<>> THEN {Inst!Want} ELSE {Inst!Want, "new"})
        /\ node[names["target"]].owner /\ node[names["target"]].mode
    BY DEF InPlace, Placed, Whole, Inst!Holds
  <2>2. names["temp"] = 0
    BY DEF Placed, CopyBeside, CopyInstead
  <2>3. CASE Inst!tempcopy
    BY <2>1, <2>2, <2>3, <1>0 DEF Inst!Holds, Beside, Placed
  <2>4. CASE ~Inst!tempcopy
    BY <2>1, <2>2, <2>4, <1>0 DEF Inst!Holds, Instead, Early
  <2> QED BY <2>1, <2>2, <2>3, <2>4
<1> QED BY <1>1, <1>2

\* The content, the owner or the mode of one inode changes, and nothing else.
LEMMA ContentSet ==
    ASSUME NEW n \in [1 .. 2 -> Inodes], NEW i \in 1 .. 2, NEW m,
           NEW c \in {"none", "old", "new", "slim", "empty", "part"},
           m = [n EXCEPT ![i].content = c]
    PROVE  /\ m \in [1 .. 2 -> Inodes]
           /\ m[i].content = c /\ m[i].owner = n[i].owner /\ m[i].mode = n[i].mode
           /\ \A j \in 1 .. 2 : j # i => m[j] = n[j]
<1>1. m[i] = [n[i] EXCEPT !.content = c]
  OBVIOUS
<1>2. n[i] \in Inodes
  OBVIOUS
<1>3. m[i].content = c /\ m[i].owner = n[i].owner /\ m[i].mode = n[i].mode
  BY <1>1, <1>2 DEF Inodes
<1>4. m[i] \in Inodes
  BY <1>1, <1>2 DEF Inodes
<1> QED BY <1>3, <1>4

LEMMA OwnerGiven ==
    ASSUME NEW n \in [1 .. 2 -> Inodes], NEW i \in 1 .. 2, NEW m,
           m = [n EXCEPT ![i].owner = TRUE]
    PROVE  /\ m \in [1 .. 2 -> Inodes] /\ m[i].owner /\ m[i].content = n[i].content
           /\ \A j \in 1 .. 2 : j # i => m[j] = n[j]
<1>1. m[i] = [n[i] EXCEPT !.owner = TRUE]
  OBVIOUS
<1>2. n[i] \in Inodes
  OBVIOUS
<1>3. m[i].owner /\ m[i].content = n[i].content
  BY <1>1, <1>2 DEF Inodes
<1>4. m[i] \in Inodes
  BY <1>1, <1>2 DEF Inodes
<1> QED BY <1>3, <1>4

LEMMA ModeGiven ==
    ASSUME NEW n \in [1 .. 2 -> Inodes], NEW i \in 1 .. 2, NEW m,
           m = [n EXCEPT ![i].mode = TRUE]
    PROVE  /\ m \in [1 .. 2 -> Inodes] /\ m[i].mode /\ m[i].content = n[i].content
           /\ m[i].owner = n[i].owner
           /\ \A j \in 1 .. 2 : j # i => m[j] = n[j]
<1>1. m[i] = [n[i] EXCEPT !.mode = TRUE]
  OBVIOUS
<1>2. n[i] \in Inodes
  OBVIOUS
<1>3. m[i].mode /\ m[i].content = n[i].content /\ m[i].owner = n[i].owner
  BY <1>1, <1>2 DEF Inodes
<1>4. m[i] \in Inodes
  BY <1>1, <1>2 DEF Inodes
<1> QED BY <1>3, <1>4

\* There is a free inode as long as the second has no content.
LEMMA InodeFound ==
    ASSUME node \in [1 .. 2 -> Inodes], node[2].content = "none"
    PROVE  Inst!NewInode \in 1 .. 2 /\ node[Inst!NewInode].content = "none"
BY DEF Inst!NewInode

LEMMA FreshMade ==
    ASSUME NEW n \in [1 .. 2 -> Inodes], NEW i \in 1 .. 2, NEW m,
           m = [n EXCEPT ![i] = Inst!Fresh("empty")]
    PROVE  /\ m \in [1 .. 2 -> Inodes] /\ m[i].content = "empty"
           /\ \A j \in 1 .. 2 : j # i => m[j] = n[j]
<1>1. Inst!Fresh("empty") \in Inodes /\ Inst!Fresh("empty").content = "empty"
  BY DEF Inodes, Inst!Fresh
<1> QED BY <1>1

\* What a parent that has one value has.
LEMMA OneParent ==
    ASSUME NEW p \in {<<>>, <<0, 0>>, << 1 >>, << 2 >>}, Len(p) = 1
    PROVE  (p = <<1>> /\ p[1] = 1) \/ (p = <<2>> /\ p[1] = 2)
<1>1. Len(<<>>) = 0 /\ Len(<<0, 0>>) = 2
  OBVIOUS
<1>2. ASSUME p = <<>> PROVE FALSE
  <2>1. Len(p) = Len(<<>>)
    BY <1>2
  <2> QED BY <2>1, <1>1
<1>3. ASSUME p = <<0, 0>> PROVE FALSE
  <2>1. Len(p) = Len(<<0, 0>>)
    BY <1>3, Zenon
  <2> QED BY <2>1, <1>1
<1>4. p = <<1>> \/ p = <<2>>
  BY <1>2, <1>3, Zenon
<1> QED BY <1>4

\* The actions of install, in the order of xinstall.c: what each does to the files
\* and the inodes (<1>m, <1>0), and then one step per part of the invariant.
LEMMA Install_Begin ==
    ASSUME InstallInv, Inst!Begin PROVE InstallInv'
<1> USE DEF InstallInv, InstallTypes, FileNames, Inst!Begin, Inst!Goto, Inst!Fault, Inst!Fine,
            Inst!Given, Inst!Still, Inst!Local, Inst!Files
<1>u. UNCHANGED <<opt, existed, links>> /\ (Inst!tempcopy' <=> Inst!tempcopy)
  BY DEF Inst!tempcopy, Inst!target
<1>m. node' = node
  OBVIOUS
<1>t. InstallTypes'
  <2>1. match' \in BOOLEAN /\ rw' \in BOOLEAN /\ removed' \in BOOLEAN
    OBVIOUS
  <2>2. fd' \in 0 .. 2 /\ parent' \in {<<>>, <<0, 0>>, <<1>>, <<2>>}
    BY <1>m DEF CopyBeside, CopyInstead
  <2>3. names' \in [FileNames -> 0 .. 2]
    BY <1>m
  <2>4. pc' \in InstallPcs
    BY DEF InstallPcs
  <2>5. faults' \in Nat
    <3>1. faults' \in {faults, faults + 1}
      BY Zenon
    <3> QED BY <3>1
  <2> QED BY <1>u, <1>m, <2>1, <2>2, <2>3, <2>4, <2>5
<1>c. Compared'
  BY <1>u DEF Compared, Inst!target
<1>i. InPlace'
  BY <1>u, <1>m DEF InPlace, Placed
<1>p. Parents'
  BY <1>u, <1>m DEF Parents, Early
<1>b. CASE Inst!tempcopy
  <2>1. Beside'
    BY <1>u, <1>m, <1>b DEF Beside, CopyBeside, Early, Placed, Untouched, Inst!target
  <2>2. CopyBeside'
    BY <1>u, <1>m, <1>b DEF Beside, CopyBeside, Early, Placed, Untouched, Inst!target
  <2> QED BY <1>u, <1>t, <1>c, <1>i, <1>p, <1>b, <2>1, <2>2
<1>n. CASE ~Inst!tempcopy
  <2>1. Instead'
    BY <1>u, <1>m, <1>n DEF Instead, CopyInstead, Early, Placed, Inst!target, Untouched,
                            Inst!tempcopy, Parents
  <2>2. CopyInstead'
    BY <1>u, <1>m, <1>n DEF Instead, CopyInstead, Early, Placed, Inst!target, Untouched,
                            Inst!tempcopy, Parents
  <2> QED BY <1>u, <1>t, <1>c, <1>i, <1>p, <1>n, <2>1, <2>2
<1> QED BY <1>b, <1>n

LEMMA Install_Match ==
    ASSUME InstallInv, Inst!Match PROVE InstallInv'
<1> USE DEF InstallInv, InstallTypes, FileNames, Inst!Match, Inst!Goto, Inst!Fault, Inst!Fine,
            Inst!Given, Inst!Still, Inst!Local, Inst!Files
<1>u. UNCHANGED <<opt, existed, links>> /\ (Inst!tempcopy' <=> Inst!tempcopy)
  BY DEF Inst!tempcopy, Inst!target
<1>m. node' = node
  OBVIOUS
<1>0. \/ match' = match /\ fd' = fd /\ rw' = rw /\ pc' = "error"
      \/ fd' = names["target"] /\ rw' = FALSE /\ match' = FALSE /\ pc' = "create"
      \/ /\ fd' = names["target"] /\ rw' = FALSE /\ match' = TRUE /\ pc' = "owner"
         /\ node[names["target"]].content = "new"
  BY Zenon
<1>t. InstallTypes'
  <2>1. match' \in BOOLEAN /\ rw' \in BOOLEAN /\ removed' \in BOOLEAN
    BY <1>0
  <2>2. fd' \in 0 .. 2 /\ parent' \in {<<>>, <<0, 0>>, <<1>>, <<2>>}
    BY <1>m, <1>0 DEF CopyBeside, CopyInstead
  <2>3. names' \in [FileNames -> 0 .. 2]
    BY <1>m, <1>0
  <2>4. pc' \in InstallPcs
    BY <1>0, <1>m DEF InstallPcs
  <2>5. faults' \in Nat
    <3>1. faults' \in {faults, faults + 1}
      BY Zenon
    <3> QED BY <3>1
  <2> QED BY <1>u, <1>m, <1>0, <2>1, <2>2, <2>3, <2>4, <2>5
<1>c. Compared'
  BY <1>u DEF Compared, Inst!target
<1>i. InPlace'
  BY <1>u, <1>m, <1>0 DEF Beside, CopyBeside, Instead, CopyInstead, Early, Untouched, Placed,
                          Whole, InPlace, Parents, Compared, Inst!Want, Inst!tempcopy, Inst!target
<1>p. Parents'
  BY <1>u, <1>m, <1>0 DEF Parents, Early
<1>b. CASE Inst!tempcopy
  <2>1. Beside'
    BY <1>u, <1>m, <1>0, <1>b DEF Beside, CopyBeside, Early, Placed, Untouched, Inst!target
  <2>2. CopyBeside'
    BY <1>u, <1>m, <1>0, <1>b DEF Beside, CopyBeside, Early, Placed, Untouched, Inst!target
  <2> QED BY <1>u, <1>t, <1>c, <1>i, <1>p, <1>b, <2>1, <2>2
<1>n. CASE ~Inst!tempcopy
  <2>1. Instead'
    BY <1>u, <1>m, <1>0, <1>n DEF Instead, CopyInstead, Early, Placed, Inst!target, Untouched,
                                  Inst!tempcopy, Parents
  <2>2. CopyInstead'
    BY <1>u, <1>m, <1>0, <1>n DEF Instead, CopyInstead, Early, Placed, Inst!target, Untouched,
                                  Inst!tempcopy, Parents
  <2> QED BY <1>u, <1>t, <1>c, <1>i, <1>p, <1>n, <2>1, <2>2
<1> QED BY <1>b, <1>n

LEMMA Install_create_tempfile ==
    ASSUME InstallInv, Inst!create_tempfile PROVE InstallInv'
<1> USE DEF InstallInv, InstallTypes, FileNames, Inst!create_tempfile, Inst!Goto, Inst!Fault,
            Inst!Fine, Inst!Given, Inst!Still, Inst!Local, Inst!Files
<1>u. UNCHANGED <<opt, existed, links>> /\ (Inst!tempcopy' <=> Inst!tempcopy)
  BY DEF Inst!tempcopy, Inst!target
<1>0. Inst!NewInode = 2 /\ node[2].content = "none"
  BY InodeFound DEF CopyBeside, Untouched, Early, Inst!target, Inst!tempcopy, Inst!Contents
<1>m. \/ node' = node
      \/ /\ node' \in [1 .. 2 -> Inodes] /\ node'[2].content = "empty" /\ node'[1] = node[1]
         /\ names' = [names EXCEPT !["temp"] = 2] /\ fd' = 2
  BY <1>0, FreshMade
<1>t. InstallTypes'
  <2>1. match' \in BOOLEAN /\ rw' \in BOOLEAN /\ removed' \in BOOLEAN
    OBVIOUS
  <2>2. fd' \in 0 .. 2 /\ parent' \in {<<>>, <<0, 0>>, <<1>>, <<2>>}
    BY <1>m, <1>0 DEF CopyBeside, CopyInstead
  <2>3. names' \in [FileNames -> 0 .. 2]
    BY <1>m, <1>0
  <2>4. pc' \in InstallPcs
    BY <1>0, <1>m DEF InstallPcs
  <2>5. faults' \in Nat
    <3>1. faults' \in {faults, faults + 1}
      BY Zenon
    <3> QED BY <3>1
  <2> QED BY <1>u, <1>m, <1>0, <2>1, <2>2, <2>3, <2>4, <2>5
<1>c. Compared'
  BY <1>u DEF Compared, Inst!target
<1>i. InPlace'
  BY <1>u, <1>m, <1>0 DEF InPlace, Placed
<1>p. Parents'
  BY <1>u, <1>m, <1>0 DEF Parents, Early
<1>b. CASE Inst!tempcopy
  <2>1. Beside'
    BY <1>u, <1>m, <1>0, <1>b DEF Beside, CopyBeside, Early, Placed, Untouched, Inst!target
  <2>2. CopyBeside'
    BY <1>u, <1>m, <1>0, <1>b DEF Beside, CopyBeside, Early, Placed, Untouched, Inst!target
  <2> QED BY <1>u, <1>t, <1>c, <1>i, <1>p, <1>b, <2>1, <2>2
<1>n. CASE ~Inst!tempcopy
  <2>1. Instead'
    BY <1>u, <1>m, <1>0, <1>n DEF Instead, CopyInstead, Early
  <2>2. CopyInstead'
    BY <1>u, <1>m, <1>0, <1>n DEF Instead, CopyInstead, Early
  <2> QED BY <1>u, <1>t, <1>c, <1>i, <1>p, <1>n, <2>1, <2>2
<1> QED BY <1>b, <1>n

LEMMA Install_MakeRoom ==
    ASSUME InstallInv, Inst!MakeRoom PROVE InstallInv'
<1> USE DEF InstallInv, InstallTypes, FileNames, Inst!MakeRoom, Inst!Unlink, Inst!Goto,
            Inst!Fault, Inst!Fine, Inst!Given, Inst!Still, Inst!Local, Inst!Files
<1>u. UNCHANGED <<opt, existed, links>> /\ (Inst!tempcopy' <=> Inst!tempcopy)
  BY DEF Inst!tempcopy, Inst!target
<1>m. node' = node
  OBVIOUS
<1>0. /\ Untouched /\ names["target"] = 1
      /\ \/ pc' = "error" /\ names' = names
         \/ /\ opt.backup /\ pc' = "newfile" /\ names'["target"] = 0 /\ names'["backup"] = 1
            /\ names'["temp"] = 0 /\ names' \in [FileNames -> 0 .. 2]
         \/ ~opt.backup /\ pc' = "newfile" /\ names' \in {names, [names EXCEPT !["target"] = 0]}
  BY DEF Untouched, CopyInstead, Early
<1>t. InstallTypes'
  <2>1. match' \in BOOLEAN /\ rw' \in BOOLEAN /\ removed' \in BOOLEAN
    OBVIOUS
  <2>2. fd' \in 0 .. 2 /\ parent' \in {<<>>, <<0, 0>>, <<1>>, <<2>>}
    BY <1>m, <1>0 DEF CopyBeside, CopyInstead
  <2>3. names' \in [FileNames -> 0 .. 2]
    BY <1>m, <1>0
  <2>4. pc' \in InstallPcs
    BY <1>0, <1>m DEF InstallPcs
  <2>5. faults' \in Nat
    <3>1. faults' \in {faults, faults + 1}
      BY Zenon
    <3> QED BY <3>1
  <2> QED BY <1>u, <1>m, <1>0, <2>1, <2>2, <2>3, <2>4, <2>5
<1>c. Compared'
  BY <1>u DEF Compared, Inst!target
<1>i. InPlace'
  <2>1. CASE pc' = "error"
    BY <1>u, <1>m, <1>0, <2>1 DEF InPlace, Placed
  <2>2. CASE pc' = "newfile" /\ opt.backup
    BY <1>u, <1>m, <1>0, <2>2 DEF InPlace, Placed
  <2>3. CASE pc' = "newfile" /\ ~opt.backup
    BY <1>u, <1>m, <1>0, <2>3 DEF InPlace, Placed
  <2> QED BY <1>0, <1>m, <2>1, <2>2, <2>3
<1>p. Parents'
  BY <1>u, <1>m, <1>0 DEF Parents, Early
<1>b. CASE Inst!tempcopy
  <2>1. Beside'
    <3>1. CASE pc' = "error"
      BY <1>u, <1>m, <1>0, <1>b, <3>1 DEF Beside, CopyBeside
    <3>2. CASE pc' = "newfile" /\ opt.backup
      BY <1>u, <1>m, <1>0, <1>b, <3>2 DEF Beside, CopyBeside
    <3>3. CASE pc' = "newfile" /\ ~opt.backup
      BY <1>u, <1>m, <1>0, <1>b, <3>3 DEF Beside, CopyBeside
    <3> QED BY <1>0, <1>m, <3>1, <3>2, <3>3
  <2>2. CopyBeside'
    <3>1. CASE pc' = "error"
      BY <1>u, <1>m, <1>0, <1>b, <3>1 DEF Beside, CopyBeside
    <3>2. CASE pc' = "newfile" /\ opt.backup
      BY <1>u, <1>m, <1>0, <1>b, <3>2 DEF Beside, CopyBeside
    <3>3. CASE pc' = "newfile" /\ ~opt.backup
      BY <1>u, <1>m, <1>0, <1>b, <3>3 DEF Beside, CopyBeside
    <3> QED BY <1>0, <1>m, <3>1, <3>2, <3>3
  <2> QED BY <1>u, <1>t, <1>c, <1>i, <1>p, <1>b, <2>1, <2>2
<1>n. CASE ~Inst!tempcopy
  <2>1. Instead'
    <3>1. CASE pc' = "error"
      BY <1>u, <1>m, <1>0, <1>n, <3>1 DEF Instead, CopyInstead, Early, Placed, Inst!target,
                                          Untouched, Inst!tempcopy, Parents
    <3>2. CASE pc' = "newfile" /\ opt.backup
      BY <1>u, <1>m, <1>0, <1>n, <3>2 DEF Instead, CopyInstead, Early, Placed, Inst!target,
                                          Untouched, Inst!tempcopy, Parents
    <3>3. CASE pc' = "newfile" /\ ~opt.backup
      BY <1>u, <1>m, <1>0, <1>n, <3>3 DEF Instead, CopyInstead, Early
    <3> QED BY <1>0, <1>m, <3>1, <3>2, <3>3
  <2>2. CopyInstead'
    <3>1. CASE pc' = "error"
      BY <1>u, <1>m, <1>0, <1>n, <3>1 DEF Instead, CopyInstead, Early, Placed, Inst!target,
                                          Untouched, Inst!tempcopy, Parents
    <3>2. CASE pc' = "newfile" /\ opt.backup
      BY <1>u, <1>m, <1>0, <1>n, <3>2 DEF Instead, CopyInstead, Early, Placed, Inst!target,
                                          Untouched, Inst!tempcopy, Parents
    <3>3. CASE pc' = "newfile" /\ ~opt.backup
      BY <1>u, <1>m, <1>0, <1>n, <3>3 DEF Instead, CopyInstead, Early, Placed, Inst!target,
                                          Untouched, Inst!tempcopy, Parents
    <3> QED BY <1>0, <1>m, <3>1, <3>2, <3>3
  <2> QED BY <1>u, <1>t, <1>c, <1>i, <1>p, <1>n, <2>1, <2>2
<1> QED BY <1>b, <1>n

LEMMA Install_create_newfile ==
    ASSUME InstallInv, Inst!create_newfile PROVE InstallInv'
<1> USE DEF InstallInv, InstallTypes, FileNames, Inst!create_newfile, Inst!Goto, Inst!Fault,
            Inst!Fine, Inst!Given, Inst!Still, Inst!Local, Inst!Files
<1>u. UNCHANGED <<opt, existed, links>> /\ (Inst!tempcopy' <=> Inst!tempcopy)
  BY DEF Inst!tempcopy, Inst!target
<1>0. /\ names["target"] = 0 => Inst!NewInode \in 1 .. 2
      /\ names["target"] = 0 /\ Inst!target /\ opt.backup => Inst!NewInode = 2
      /\ names["target"] \in {0, 1} /\ rw = FALSE
  BY InodeFound DEF CopyBeside, CopyInstead, Instead, Untouched, Early, Inst!target,
                    Inst!tempcopy, Inst!Contents
<1>m. \/ node' = node /\ names' = names /\ fd' = fd /\ rw' = rw /\ pc' = "error"
      \/ /\ node' \in [1 .. 2 -> Inodes] /\ fd' \in 1 .. 2 /\ fd' = names'["target"]
         /\ names' \in [FileNames -> 0 .. 2] /\ names'["temp"] = names["temp"]
         /\ names'["backup"] = names["backup"] /\ pc' = "write" /\ rw' = TRUE
         /\ names["target"] = 0 /\ Inst!target /\ opt.backup => fd' = 2
         /\ names["target"] # 0 => fd' = names["target"]
         /\ \A j \in 1 .. 2 : j # fd' => node'[j] = node[j]
  <2>1. CASE names["target"] = 0
    BY <1>0, <2>1, FreshMade
  <2>2. CASE names["target"] # 0
    BY <1>0, <2>2, ContentSet
  <2> QED BY <2>1, <2>2
<1>t. InstallTypes'
  <2>1. match' \in BOOLEAN /\ rw' \in BOOLEAN /\ removed' \in BOOLEAN
    OBVIOUS
  <2>2. fd' \in 0 .. 2 /\ parent' \in {<<>>, <<0, 0>>, <<1>>, <<2>>}
    BY <1>m, <1>0 DEF CopyBeside, CopyInstead
  <2>3. names' \in [FileNames -> 0 .. 2]
    BY <1>m, <1>0
  <2>4. pc' \in InstallPcs
    BY <1>0, <1>m DEF InstallPcs
  <2>5. faults' \in Nat
    <3>1. faults' \in {faults, faults + 1}
      BY Zenon
    <3> QED BY <3>1
  <2> QED BY <1>u, <1>m, <1>0, <2>1, <2>2, <2>3, <2>4, <2>5
<1>c. Compared'
  BY <1>u DEF Compared, Inst!target
<1>i. InPlace'
  BY <1>u, <1>m, <1>0 DEF InPlace, Placed
<1>p. Parents'
  BY <1>u, <1>m, <1>0 DEF Parents, Early
<1>b. CASE Inst!tempcopy
  <2>1. Beside'
    BY <1>u, <1>m, <1>0, <1>b DEF Beside, CopyBeside
  <2>2. CopyBeside'
    BY <1>u, <1>m, <1>0, <1>b DEF Beside, CopyBeside
  <2> QED BY <1>u, <1>t, <1>c, <1>i, <1>p, <1>b, <2>1, <2>2
<1>n. CASE ~Inst!tempcopy
  <2>1. Instead'
    BY <1>u, <1>m, <1>0, <1>n DEF Instead, CopyInstead, Early, Placed, Inst!target
  <2>2. CopyInstead'
    BY <1>u, <1>m, <1>0, <1>n DEF Instead, CopyInstead, Early, Placed, Inst!target, Untouched,
                                  Inst!tempcopy, Parents
  <2> QED BY <1>u, <1>t, <1>c, <1>i, <1>p, <1>n, <2>1, <2>2
<1> QED BY <1>b, <1>n

LEMMA Install_copy ==
    ASSUME InstallInv, Inst!copy PROVE InstallInv'
<1> USE DEF InstallInv, InstallTypes, FileNames, Inst!copy, Inst!CopyFails, Inst!AfterCopy,
            Inst!Unlink, Inst!Copy, Inst!Goto, Inst!Fault, Inst!Fine, Inst!Given, Inst!Still,
            Inst!Local, Inst!Files
<1>u. UNCHANGED <<opt, existed, links>> /\ (Inst!tempcopy' <=> Inst!tempcopy)
  BY DEF Inst!tempcopy, Inst!target
<1>0. fd \in 1 .. 2
  BY DEF CopyBeside, CopyInstead
<1>1. parent = <<>>
  BY DEF Parents
<1>m. \/ node' = node /\ pc' = "error"
      \/ /\ names' = names /\ node' \in [1 .. 2 -> Inodes]
         /\ \/ pc = "write" /\ pc' = "write2" /\ node'[fd].content = "part"
            \/ /\ pc = "write2" /\ node'[fd].content = "new"
               /\ \/ pc' = "strip" /\ opt.strip
                  \/ pc' = "move" /\ ~opt.strip /\ Inst!tempcopy
                  \/ pc' = "owner" /\ ~opt.strip /\ ~Inst!tempcopy
         /\ \A j \in 1 .. 2 : j # fd => node'[j] = node[j]
  BY <1>0, ContentSet
<1>t. InstallTypes'
  <2>1. match' \in BOOLEAN /\ rw' \in BOOLEAN /\ removed' \in BOOLEAN
    OBVIOUS
  <2>2. fd' \in 0 .. 2 /\ parent' \in {<<>>, <<0, 0>>, <<1>>, <<2>>}
    BY <1>m, <1>0, <1>1 DEF CopyBeside, CopyInstead
  <2>3. names' \in [FileNames -> 0 .. 2]
    BY <1>m, <1>0, <1>1
  <2>4. pc' \in InstallPcs
    BY <1>0, <1>m DEF InstallPcs
  <2>5. faults' \in Nat
    <3>1. faults' \in {faults, faults + 1}
      BY Zenon
    <3> QED BY <3>1
  <2> QED BY <1>u, <1>m, <1>0, <1>1, <2>1, <2>2, <2>3, <2>4, <2>5
<1>c. Compared'
  BY <1>u DEF Compared, Inst!target
<1>i. InPlace'
  <2>1. CASE pc' = "error"
    BY <1>u, <1>m, <1>0, <1>1, <2>1 DEF InPlace, Placed
  <2>2. CASE pc = "write" /\ pc' = "write2"
    BY <1>u, <1>m, <1>0, <1>1, <2>2 DEF InPlace, Placed
  <2>3. CASE pc = "write2" /\ pc' = "strip"
    BY <1>u, <1>m, <1>0, <1>1, <2>3 DEF InPlace, Placed
  <2>4. CASE pc = "write2" /\ pc' = "move"
    BY <1>u, <1>m, <1>0, <1>1, <2>4 DEF InPlace, Placed
  <2>5. CASE pc = "write2" /\ pc' = "owner"
    BY <1>u, <1>m, <1>0, <1>1, <2>5 DEF InPlace, Placed, Whole, Inst!Want, Compared, Inst!target,
                                        CopyBeside, CopyInstead
  <2> QED BY <1>0, <1>m, <2>1, <2>2, <2>3, <2>4, <2>5
<1>p. Parents'
  BY <1>u, <1>m, <1>0, <1>1 DEF Parents, Early
<1>b. CASE Inst!tempcopy
  <2>1. Beside'
    <3>1. CASE pc' = "error"
      BY <1>u, <1>m, <1>0, <1>1, <1>b, <3>1 DEF Beside, CopyBeside
    <3>2. CASE pc = "write" /\ pc' = "write2"
      BY <1>u, <1>m, <1>0, <1>1, <1>b, <3>2 DEF Beside, CopyBeside
    <3>3. CASE pc = "write2" /\ pc' = "strip"
      BY <1>u, <1>m, <1>0, <1>1, <1>b, <3>3 DEF Beside, CopyBeside
    <3>4. CASE pc = "write2" /\ pc' = "move"
      BY <1>u, <1>m, <1>0, <1>1, <1>b, <3>4 DEF Beside, CopyBeside
    <3>5. CASE pc = "write2" /\ pc' = "owner"
      BY <1>u, <1>m, <1>0, <1>1, <1>b, <3>5 DEF Beside, CopyBeside
    <3> QED BY <1>0, <1>m, <3>1, <3>2, <3>3, <3>4, <3>5
  <2>2. CopyBeside'
    <3>1. CASE pc' = "error"
      BY <1>u, <1>m, <1>0, <1>1, <1>b, <3>1 DEF Beside, CopyBeside, Early, Placed
    <3>2. CASE pc = "write" /\ pc' = "write2"
      BY <1>u, <1>m, <1>0, <1>1, <1>b, <3>2 DEF Beside, CopyBeside, Early, Placed
    <3>3. CASE pc = "write2" /\ pc' = "strip"
      BY <1>u, <1>m, <1>0, <1>1, <1>b, <3>3 DEF Beside, CopyBeside, Early, Placed
    <3>4. CASE pc = "write2" /\ pc' = "move"
      BY <1>u, <1>m, <1>0, <1>1, <1>b, <3>4 DEF Beside, CopyBeside, Early, Placed, Untouched,
                                                Inst!target, Whole, Inst!Want, InPlace, Parents
    <3>5. CASE pc = "write2" /\ pc' = "owner"
      BY <1>u, <1>m, <1>0, <1>1, <1>b, <3>5 DEF Beside, CopyBeside
    <3> QED BY <1>0, <1>m, <3>1, <3>2, <3>3, <3>4, <3>5
  <2> QED BY <1>u, <1>t, <1>c, <1>i, <1>p, <1>b, <2>1, <2>2
<1>n. CASE ~Inst!tempcopy
  <2>1. Instead'
    <3>1. CASE pc' = "error"
      BY <1>u, <1>m, <1>0, <1>1, <1>n, <3>1 DEF Instead, CopyInstead, Early, Placed, Inst!target
    <3>2. CASE pc = "write" /\ pc' = "write2"
      BY <1>u, <1>m, <1>0, <1>1, <1>n, <3>2 DEF Instead, CopyInstead, Early, Placed, Inst!target
    <3>3. CASE pc = "write2" /\ pc' = "strip"
      BY <1>u, <1>m, <1>0, <1>1, <1>n, <3>3 DEF Instead, CopyInstead, Early, Placed, Inst!target
    <3>4. CASE pc = "write2" /\ pc' = "move"
      BY <1>u, <1>m, <1>0, <1>1, <1>n, <3>4 DEF Instead, CopyInstead, Early
    <3>5. CASE pc = "write2" /\ pc' = "owner"
      BY <1>u, <1>m, <1>0, <1>1, <1>n, <3>5 DEF Instead, CopyInstead, Early, Placed, Inst!target
    <3> QED BY <1>0, <1>m, <3>1, <3>2, <3>3, <3>4, <3>5
  <2>2. CopyInstead'
    <3>1. CASE pc' = "error"
      BY <1>u, <1>m, <1>0, <1>1, <1>n, <3>1 DEF Instead, CopyInstead, Early
    <3>2. CASE pc = "write" /\ pc' = "write2"
      BY <1>u, <1>m, <1>0, <1>1, <1>n, <3>2 DEF Instead, CopyInstead, Early
    <3>3. CASE pc = "write2" /\ pc' = "strip"
      BY <1>u, <1>m, <1>0, <1>1, <1>n, <3>3 DEF Instead, CopyInstead, Early
    <3>4. CASE pc = "write2" /\ pc' = "move"
      BY <1>u, <1>m, <1>0, <1>1, <1>n, <3>4 DEF Instead, CopyInstead, Early
    <3>5. CASE pc = "write2" /\ pc' = "owner"
      BY <1>u, <1>m, <1>0, <1>1, <1>n, <3>5 DEF Instead, CopyInstead, Early
    <3> QED BY <1>0, <1>m, <3>1, <3>2, <3>3, <3>4, <3>5
  <2> QED BY <1>u, <1>t, <1>c, <1>i, <1>p, <1>n, <2>1, <2>2
<1> QED BY <1>b, <1>n

LEMMA Install_strip ==
    ASSUME InstallInv, Inst!strip PROVE InstallInv'
<1> USE DEF InstallInv, InstallTypes, FileNames, Inst!strip, Inst!Unlink, Inst!Copy, Inst!Goto,
            Inst!Fault, Inst!Fine, Inst!Given, Inst!Still, Inst!Local, Inst!Files
<1>u. UNCHANGED <<opt, existed, links>> /\ (Inst!tempcopy' <=> Inst!tempcopy)
  BY DEF Inst!tempcopy, Inst!target
<1>0. names[Inst!Copy] = fd /\ fd \in 1 .. 2
  BY DEF CopyBeside, CopyInstead
<1>1. parent = <<>> /\ <<fd>> # <<>> /\ node[fd].content = "new" /\ opt.strip
  BY <1>0 DEF Parents, CopyBeside, CopyInstead
<1>m. \/ parent' = <<fd>> /\ node' = node /\ names' = names
      \/ parent' = <<>> /\ node' = node /\ names' = [names EXCEPT ![Inst!Copy] = 0]
      \/ /\ parent' = <<>> /\ node' \in [1 .. 2 -> Inodes] /\ node'[fd].content = "slim" /\ names' = names
         /\ \A j \in 1 .. 2 : j # fd => node'[j] = node[j]
  BY <1>0, <1>1, ContentSet
<1>t. InstallTypes'
  <2>1. match' \in BOOLEAN /\ rw' \in BOOLEAN /\ removed' \in BOOLEAN
    OBVIOUS
  <2>2. fd' \in 0 .. 2 /\ parent' \in {<<>>, <<0, 0>>, <<1>>, <<2>>}
    BY <1>m, <1>0, <1>1 DEF CopyBeside, CopyInstead
  <2>3. names' \in [FileNames -> 0 .. 2]
    BY <1>m, <1>0, <1>1
  <2>4. pc' \in InstallPcs
    BY <1>0, <1>m DEF InstallPcs
  <2>5. faults' \in Nat
    <3>1. faults' \in {faults, faults + 1}
      BY Zenon
    <3> QED BY <3>1
  <2> QED BY <1>u, <1>m, <1>0, <1>1, <2>1, <2>2, <2>3, <2>4, <2>5
<1>c. Compared'
  BY <1>u DEF Compared, Inst!target
<1>i. InPlace'
  <2>1. CASE parent' = <<fd>> /\ node' = node /\ names' = names
    BY <1>u, <1>m, <1>0, <1>1, <2>1 DEF InPlace, Placed
  <2>2. CASE parent' = <<>> /\ node' = node /\ names' = [names EXCEPT ![Inst!Copy] = 0]
    BY <1>u, <1>m, <1>0, <1>1, <2>2 DEF InPlace, Placed
  <2>3. CASE parent' = <<>> /\ node'[fd].content = "slim" /\ names' = names
    BY <1>u, <1>m, <1>0, <1>1, <2>3 DEF InPlace, Placed
  <2> QED BY <1>0, <1>m, <2>1, <2>2, <2>3
<1>p. Parents'
  BY <1>u, <1>m, <1>0, <1>1 DEF Parents, Early
<1>b. CASE Inst!tempcopy
  <2>1. Beside'
    <3>1. CASE parent' = <<fd>> /\ node' = node /\ names' = names
      BY <1>u, <1>m, <1>0, <1>1, <1>b, <3>1 DEF Beside, CopyBeside
    <3>2. CASE parent' = <<>> /\ node' = node /\ names' = [names EXCEPT ![Inst!Copy] = 0]
      BY <1>u, <1>m, <1>0, <1>1, <1>b, <3>2 DEF Beside, CopyBeside
    <3>3. CASE parent' = <<>> /\ node'[fd].content = "slim" /\ names' = names
      BY <1>u, <1>m, <1>0, <1>1, <1>b, <3>3 DEF Beside, CopyBeside
    <3> QED BY <1>0, <1>m, <3>1, <3>2, <3>3
  <2>2. CopyBeside'
    <3>1. CASE parent' = <<fd>> /\ node' = node /\ names' = names
      BY <1>u, <1>m, <1>0, <1>1, <1>b, <3>1 DEF Beside, CopyBeside, Early, Placed, Untouched,
                                                Inst!target, Whole, Inst!Want, InPlace, Parents
    <3>2. CASE parent' = <<>> /\ node' = node /\ names' = [names EXCEPT ![Inst!Copy] = 0]
      BY <1>u, <1>m, <1>0, <1>1, <1>b, <3>2 DEF Beside, CopyBeside, Early, Placed
    <3>3. CASE parent' = <<>> /\ node'[fd].content = "slim" /\ names' = names
      BY <1>u, <1>m, <1>0, <1>1, <1>b, <3>3 DEF Beside, CopyBeside, Early, Placed, Untouched,
                                                Inst!target, Whole, Inst!Want, InPlace, Parents
    <3> QED BY <1>0, <1>m, <3>1, <3>2, <3>3
  <2> QED BY <1>u, <1>t, <1>c, <1>i, <1>p, <1>b, <2>1, <2>2
<1>n. CASE ~Inst!tempcopy
  <2>1. Instead'
    <3>1. CASE parent' = <<fd>> /\ node' = node /\ names' = names
      BY <1>u, <1>m, <1>0, <1>1, <1>n, <3>1 DEF Instead, CopyInstead, Early, Placed, Inst!target
    <3>2. CASE parent' = <<>> /\ node' = node /\ names' = [names EXCEPT ![Inst!Copy] = 0]
      BY <1>u, <1>m, <1>0, <1>1, <1>n, <3>2 DEF Instead, CopyInstead, Early, Placed, Inst!target
    <3>3. CASE parent' = <<>> /\ node'[fd].content = "slim" /\ names' = names
      BY <1>u, <1>m, <1>0, <1>1, <1>n, <3>3 DEF Instead, CopyInstead, Early, Placed, Inst!target
    <3> QED BY <1>0, <1>m, <3>1, <3>2, <3>3
  <2>2. CopyInstead'
    <3>1. CASE parent' = <<fd>> /\ node' = node /\ names' = names
      BY <1>u, <1>m, <1>0, <1>1, <1>n, <3>1 DEF Instead, CopyInstead, Early, Placed, Inst!target,
                                                Untouched, Inst!tempcopy, Parents, Whole,
                                                Inst!Want, InPlace
    <3>2. CASE parent' = <<>> /\ node' = node /\ names' = [names EXCEPT ![Inst!Copy] = 0]
      BY <1>u, <1>m, <1>0, <1>1, <1>n, <3>2 DEF Instead, CopyInstead, Early
    <3>3. CASE parent' = <<>> /\ node'[fd].content = "slim" /\ names' = names
      BY <1>u, <1>m, <1>0, <1>1, <1>n, <3>3 DEF Instead, CopyInstead, Early, Placed, Inst!target,
                                                Untouched, Inst!tempcopy, Parents, Whole,
                                                Inst!Want, InPlace
    <3> QED BY <1>0, <1>m, <3>1, <3>2, <3>3
  <2> QED BY <1>u, <1>t, <1>c, <1>i, <1>p, <1>n, <2>1, <2>2
<1> QED BY <1>b, <1>n

LEMMA Install_ChildEnds ==
    ASSUME InstallInv, Inst!ChildEnds PROVE InstallInv'
<1> USE DEF InstallInv, InstallTypes, FileNames, Inst!ChildEnds, Inst!Unlink, Inst!Copy,
            Inst!Goto, Inst!Fault, Inst!Fine, Inst!Given, Inst!Still, Inst!Local, Inst!Files
<1>u. UNCHANGED <<opt, existed, links>> /\ (Inst!tempcopy' <=> Inst!tempcopy)
  BY DEF Inst!tempcopy, Inst!target
<1>m. node' = node
  OBVIOUS
<1>1. parent = <<fd'>> /\ fd' \in 1 .. 2
  <2>1. parent \in {<<>>, <<0, 0>>, <<1>>, <<2>>} /\ Len(parent) = 1 /\ fd' = parent[1]
    OBVIOUS
  <2> HIDE DEF InstallInv, InstallTypes, Inst!ChildEnds
  <2> QED BY <2>1, OneParent
<1>0. parent # <<>> /\ parent' = <<0, 0>> /\ parent' # <<>> /\ (fd' = 1 => parent = <<1>>)
  BY <1>1
<1>t. InstallTypes'
  <2>1. match' \in BOOLEAN /\ rw' \in BOOLEAN /\ removed' \in BOOLEAN
    OBVIOUS
  <2>2. fd' \in 0 .. 2 /\ parent' \in {<<>>, <<0, 0>>, <<1>>, <<2>>}
    BY <1>m, <1>0, <1>1 DEF CopyBeside, CopyInstead
  <2>3. names' \in [FileNames -> 0 .. 2]
    BY <1>m, <1>0, <1>1
  <2>4. pc' \in InstallPcs
    BY <1>0, <1>m DEF InstallPcs
  <2>5. faults' \in Nat
    <3>1. faults' \in {faults, faults + 1}
      BY Zenon
    <3> QED BY <3>1
  <2> QED BY <1>u, <1>m, <1>0, <1>1, <2>1, <2>2, <2>3, <2>4, <2>5
<1>c. Compared'
  BY <1>u DEF Compared, Inst!target
<1>i. InPlace'
  BY <1>u, <1>m, <1>0, <1>1 DEF InPlace, Placed
<1>p. Parents'
  BY <1>u, <1>m, <1>0, <1>1 DEF Parents, Early
<1>b. CASE Inst!tempcopy
  <2>1. Beside'
    BY <1>u, <1>m, <1>0, <1>1, <1>b DEF Beside, CopyBeside, Early, Placed, Untouched,
                                        Inst!target, Whole, Inst!Want, InPlace, Parents
  <2>2. CopyBeside'
    BY <1>u, <1>m, <1>0, <1>1, <1>b DEF Beside, CopyBeside, Early, Placed, Untouched,
                                        Inst!target, Whole, Inst!Want, InPlace, Parents
  <2> QED BY <1>u, <1>t, <1>c, <1>i, <1>p, <1>b, <2>1, <2>2
<1>n. CASE ~Inst!tempcopy
  <2>1. Instead'
    BY <1>u, <1>m, <1>0, <1>1, <1>n DEF Instead, CopyInstead, Early, Placed, Inst!target
  <2>2. CopyInstead'
    BY <1>u, <1>m, <1>0, <1>1, <1>n DEF Instead, CopyInstead, Early, Placed, Inst!target,
                                        Untouched, Inst!tempcopy, Parents, Whole, Inst!Want,
                                        InPlace
  <2> QED BY <1>u, <1>t, <1>c, <1>i, <1>p, <1>n, <2>1, <2>2
<1> QED BY <1>b, <1>n

LEMMA Install_Reopen ==
    ASSUME InstallInv, Inst!Reopen PROVE InstallInv'
<1> USE DEF InstallInv, InstallTypes, FileNames, Inst!Reopen, Inst!Copy, Inst!Goto, Inst!Fault,
            Inst!Fine, Inst!Given, Inst!Still, Inst!Local, Inst!Files
<1>u. UNCHANGED <<opt, existed, links>> /\ (Inst!tempcopy' <=> Inst!tempcopy)
  BY DEF Inst!tempcopy, Inst!target
<1>m. node' = node
  OBVIOUS
<1>t. InstallTypes'
  <2>1. match' \in BOOLEAN /\ rw' \in BOOLEAN /\ removed' \in BOOLEAN
    OBVIOUS
  <2>2. fd' \in 0 .. 2 /\ parent' \in {<<>>, <<0, 0>>, <<1>>, <<2>>}
    BY <1>m DEF CopyBeside, CopyInstead
  <2>3. names' \in [FileNames -> 0 .. 2]
    BY <1>m
  <2>4. pc' \in InstallPcs
    BY DEF InstallPcs
  <2>5. faults' \in Nat
    <3>1. faults' \in {faults, faults + 1}
      BY Zenon
    <3> QED BY <3>1
  <2> QED BY <1>u, <1>m, <2>1, <2>2, <2>3, <2>4, <2>5
<1>c. Compared'
  BY <1>u DEF Compared, Inst!target
<1>i. InPlace'
  BY <1>u, <1>m DEF InPlace, Placed, Whole, Inst!Want, Compared, Inst!target, CopyBeside,
                    CopyInstead
<1>p. Parents'
  BY <1>u, <1>m DEF Parents, Early
<1>b. CASE Inst!tempcopy
  <2>1. Beside'
    BY <1>u, <1>m, <1>b DEF Beside, CopyBeside, Early, Placed, Untouched, Inst!target, Whole,
                            Inst!Want, InPlace, Parents
  <2>2. CopyBeside'
    BY <1>u, <1>m, <1>b DEF Beside, CopyBeside, Early, Placed, Untouched, Inst!target, Whole,
                            Inst!Want, InPlace, Parents
  <2> QED BY <1>u, <1>t, <1>c, <1>i, <1>p, <1>b, <2>1, <2>2
<1>n. CASE ~Inst!tempcopy
  <2>1. Instead'
    BY <1>u, <1>m, <1>n DEF Instead, CopyInstead, Early, Placed, Inst!target
  <2>2. CopyInstead'
    BY <1>u, <1>m, <1>n DEF Instead, CopyInstead, Early, Placed, Inst!target, Untouched,
                            Inst!tempcopy, Parents, Whole, Inst!Want, InPlace
  <2> QED BY <1>u, <1>t, <1>c, <1>i, <1>p, <1>n, <2>1, <2>2
<1> QED BY <1>b, <1>n

LEMMA Install_CompareStripped ==
    ASSUME InstallInv, Inst!CompareStripped PROVE InstallInv'
<1> USE DEF InstallInv, InstallTypes, FileNames, Inst!CompareStripped, Inst!Unlink, Inst!Goto,
            Inst!Fault, Inst!Fine, Inst!Given, Inst!Still, Inst!Local, Inst!Files
<1>u. UNCHANGED <<opt, existed, links>> /\ (Inst!tempcopy' <=> Inst!tempcopy)
  BY DEF Inst!tempcopy, Inst!target
<1>m. node' = node
  OBVIOUS
<1>0. \/ match' = match /\ fd' = fd /\ rw' = rw /\ pc' = "error" /\ names' \in {names, [names EXCEPT !["temp"] = 0]}
      \/ fd' = names["target"] /\ rw' = FALSE /\ match' = FALSE /\ pc' = "move" /\ names' = names
      \/ /\ fd' = names["target"] /\ rw' = FALSE /\ match' = TRUE /\ pc' = "owner"
         /\ names' = [names EXCEPT !["temp"] = 0] /\ names["target"] # 0
         /\ node[names["target"]].content = node[fd].content
  BY Zenon
<1>t. InstallTypes'
  <2>1. match' \in BOOLEAN /\ rw' \in BOOLEAN /\ removed' \in BOOLEAN
    BY <1>0
  <2>2. fd' \in 0 .. 2 /\ parent' \in {<<>>, <<0, 0>>, <<1>>, <<2>>}
    BY <1>m, <1>0 DEF CopyBeside, CopyInstead
  <2>3. names' \in [FileNames -> 0 .. 2]
    BY <1>m, <1>0
  <2>4. pc' \in InstallPcs
    BY <1>0, <1>m DEF InstallPcs
  <2>5. faults' \in Nat
    <3>1. faults' \in {faults, faults + 1}
      BY Zenon
    <3> QED BY <3>1
  <2> QED BY <1>u, <1>m, <1>0, <2>1, <2>2, <2>3, <2>4, <2>5
<1>c. Compared'
  BY <1>u DEF Compared, Inst!target
<1>i. InPlace'
  BY <1>u, <1>m, <1>0 DEF InPlace, Placed, Whole, Inst!Want, Compared, Inst!target, CopyBeside,
                          CopyInstead
<1>p. Parents'
  BY <1>u, <1>m, <1>0 DEF Parents, Early
<1>b. CASE Inst!tempcopy
  <2>1. Beside'
    BY <1>u, <1>m, <1>0, <1>b DEF Beside, CopyBeside
  <2>2. CopyBeside'
    BY <1>u, <1>m, <1>0, <1>b DEF Beside, CopyBeside, Early, Placed, Untouched, Inst!target,
                                  Whole, Inst!Want, InPlace, Parents
  <2> QED BY <1>u, <1>t, <1>c, <1>i, <1>p, <1>b, <2>1, <2>2
<1>n. CASE ~Inst!tempcopy
  <2>1. Instead'
    BY <1>u, <1>m, <1>0, <1>n DEF Instead, CopyInstead, Early
  <2>2. CopyInstead'
    BY <1>u, <1>m, <1>0, <1>n DEF Instead, CopyInstead, Early
  <2> QED BY <1>u, <1>t, <1>c, <1>i, <1>p, <1>n, <2>1, <2>2
<1> QED BY <1>b, <1>n

LEMMA Install_Backup ==
    ASSUME InstallInv, Inst!Backup PROVE InstallInv'
<1> USE DEF InstallInv, InstallTypes, FileNames, Inst!Backup, Inst!RenameFails, Inst!Unlink,
            Inst!Goto, Inst!Fault, Inst!Fine, Inst!Given, Inst!Still, Inst!Local, Inst!Files
<1>u. UNCHANGED <<opt, existed, links>> /\ (Inst!tempcopy' <=> Inst!tempcopy)
  BY DEF Inst!tempcopy, Inst!target
<1>m. node' = node
  OBVIOUS
<1>t. InstallTypes'
  <2>1. match' \in BOOLEAN /\ rw' \in BOOLEAN /\ removed' \in BOOLEAN
    OBVIOUS
  <2>2. fd' \in 0 .. 2 /\ parent' \in {<<>>, <<0, 0>>, <<1>>, <<2>>}
    BY <1>m DEF CopyBeside, CopyInstead
  <2>3. names' \in [FileNames -> 0 .. 2]
    BY <1>m
  <2>4. pc' \in InstallPcs
    BY DEF InstallPcs
  <2>5. faults' \in Nat
    <3>1. faults' \in {faults, faults + 1}
      BY Zenon
    <3> QED BY <3>1
  <2> QED BY <1>u, <1>m, <2>1, <2>2, <2>3, <2>4, <2>5
<1>c. Compared'
  BY <1>u DEF Compared, Inst!target
<1>i. InPlace'
  BY <1>u, <1>m DEF InPlace, Placed
<1>p. Parents'
  BY <1>u, <1>m DEF Parents, Early
<1>b. CASE Inst!tempcopy
  <2>1. Beside'
    BY <1>u, <1>m, <1>b DEF Beside, CopyBeside
  <2>2. CopyBeside'
    BY <1>u, <1>m, <1>b DEF Beside, CopyBeside, Early, Placed, Untouched, Inst!target, Whole,
                            Inst!Want, InPlace, Parents
  <2> QED BY <1>u, <1>t, <1>c, <1>i, <1>p, <1>b, <2>1, <2>2
<1>n. CASE ~Inst!tempcopy
  <2>1. Instead'
    BY <1>u, <1>m, <1>n DEF Instead, CopyInstead, Early
  <2>2. CopyInstead'
    BY <1>u, <1>m, <1>n DEF Instead, CopyInstead, Early
  <2> QED BY <1>u, <1>t, <1>c, <1>i, <1>p, <1>n, <2>1, <2>2
<1> QED BY <1>b, <1>n

LEMMA Install_Move ==
    ASSUME InstallInv, Inst!Move PROVE InstallInv'
<1> USE DEF InstallInv, InstallTypes, FileNames, Inst!Move, Inst!RenameFails, Inst!Unlink,
            Inst!Goto, Inst!Fault, Inst!Fine, Inst!Given, Inst!Still, Inst!Local, Inst!Files
<1>u. UNCHANGED <<opt, existed, links>> /\ (Inst!tempcopy' <=> Inst!tempcopy)
  BY DEF Inst!tempcopy, Inst!target
<1>m. node' = node
  OBVIOUS
<1>t. InstallTypes'
  <2>1. match' \in BOOLEAN /\ rw' \in BOOLEAN /\ removed' \in BOOLEAN
    OBVIOUS
  <2>2. fd' \in 0 .. 2 /\ parent' \in {<<>>, <<0, 0>>, <<1>>, <<2>>}
    BY <1>m DEF CopyBeside, CopyInstead
  <2>3. names' \in [FileNames -> 0 .. 2]
    BY <1>m
  <2>4. pc' \in InstallPcs
    BY DEF InstallPcs
  <2>5. faults' \in Nat
    <3>1. faults' \in {faults, faults + 1}
      BY Zenon
    <3> QED BY <3>1
  <2> QED BY <1>u, <1>m, <2>1, <2>2, <2>3, <2>4, <2>5
<1>c. Compared'
  BY <1>u DEF Compared, Inst!target
<1>i. InPlace'
  BY <1>u, <1>m DEF InPlace, Placed
<1>p. Parents'
  BY <1>u, <1>m DEF Parents, Early
<1>b. CASE Inst!tempcopy
  <2>1. Beside'
    BY <1>u, <1>m, <1>b DEF Beside, CopyBeside, Early, Placed, Untouched, Inst!target, Whole,
                            Inst!Want, InPlace, Parents
  <2>2. CopyBeside'
    BY <1>u, <1>m, <1>b DEF Beside, CopyBeside, Early, Placed
  <2> QED BY <1>u, <1>t, <1>c, <1>i, <1>p, <1>b, <2>1, <2>2
<1>n. CASE ~Inst!tempcopy
  <2>1. Instead'
    BY <1>u, <1>m, <1>n DEF Instead, CopyInstead, Early
  <2>2. CopyInstead'
    BY <1>u, <1>m, <1>n DEF Instead, CopyInstead, Early
  <2> QED BY <1>u, <1>t, <1>c, <1>i, <1>p, <1>n, <2>1, <2>2
<1> QED BY <1>b, <1>n

LEMMA Install_Moved ==
    ASSUME InstallInv, Inst!Moved PROVE InstallInv'
<1> USE DEF InstallInv, InstallTypes, FileNames, Inst!Moved, Inst!Goto, Inst!Fault, Inst!Fine,
            Inst!Given, Inst!Still, Inst!Local, Inst!Files
<1>u. UNCHANGED <<opt, existed, links>> /\ (Inst!tempcopy' <=> Inst!tempcopy)
  BY DEF Inst!tempcopy, Inst!target
<1>m. node' = node
  OBVIOUS
<1>t. InstallTypes'
  <2>1. match' \in BOOLEAN /\ rw' \in BOOLEAN /\ removed' \in BOOLEAN
    OBVIOUS
  <2>2. fd' \in 0 .. 2 /\ parent' \in {<<>>, <<0, 0>>, <<1>>, <<2>>}
    BY <1>m DEF CopyBeside, CopyInstead
  <2>3. names' \in [FileNames -> 0 .. 2]
    BY <1>m
  <2>4. pc' \in InstallPcs
    BY DEF InstallPcs
  <2>5. faults' \in Nat
    <3>1. faults' \in {faults, faults + 1}
      BY Zenon
    <3> QED BY <3>1
  <2> QED BY <1>u, <1>m, <2>1, <2>2, <2>3, <2>4, <2>5
<1>c. Compared'
  BY <1>u DEF Compared, Inst!target
<1>i. InPlace'
  BY <1>u, <1>m DEF Beside, CopyBeside, Instead, CopyInstead, Early, Untouched, Placed, Whole,
                    InPlace, Parents, Compared, Inst!Want, Inst!tempcopy, Inst!target
<1>p. Parents'
  BY <1>u, <1>m DEF Parents, Early
<1>b. CASE Inst!tempcopy
  <2>1. Beside'
    BY <1>u, <1>m, <1>b DEF Beside, CopyBeside, Early, Placed, Untouched, Inst!target, Whole,
                            Inst!Want, InPlace, Parents
  <2>2. CopyBeside'
    BY <1>u, <1>m, <1>b DEF Beside, CopyBeside, Early, Placed
  <2> QED BY <1>u, <1>t, <1>c, <1>i, <1>p, <1>b, <2>1, <2>2
<1>n. CASE ~Inst!tempcopy
  <2>1. Instead'
    BY <1>u, <1>m, <1>n DEF Instead, CopyInstead, Early
  <2>2. CopyInstead'
    BY <1>u, <1>m, <1>n DEF Instead, CopyInstead, Early
  <2> QED BY <1>u, <1>t, <1>c, <1>i, <1>p, <1>n, <2>1, <2>2
<1> QED BY <1>b, <1>n

LEMMA Install_SetOwner ==
    ASSUME InstallInv, Inst!SetOwner PROVE InstallInv'
<1> USE DEF InstallInv, InstallTypes, FileNames, Inst!SetOwner, Inst!Truncated, Inst!Unlink,
            Inst!Goto, Inst!Fault, Inst!Fine, Inst!Given, Inst!Still, Inst!Local, Inst!Files
<1>u. UNCHANGED <<opt, existed, links>> /\ (Inst!tempcopy' <=> Inst!tempcopy)
  BY DEF Inst!tempcopy, Inst!target
<1>0. fd \in 1 .. 2
  BY DEF InPlace, Placed
<1>m. \/ node' = node /\ pc' = "error" /\ names' = names /\ (removed => removed')
      \/ node' = node /\ pc' = "error" /\ names' = [names EXCEPT !["target"] = 0] /\ removed'
      \/ /\ rw /\ pc' = "error" /\ node' \in [1 .. 2 -> Inodes] /\ names' = names
         /\ node'[fd].content = "empty" /\ removed' = removed
         /\ \A j \in 1 .. 2 : j # fd => node'[j] = node[j]
      \/ /\ pc' = "mode" /\ node' \in [1 .. 2 -> Inodes] /\ node'[fd].owner /\ names' = names
         /\ removed' = removed /\ \A j \in 1 .. 2 : node'[j].content = node[j].content
  <2>1. CASE pc' = "error" /\ UNCHANGED <<names, removed>>
    BY <1>0, <2>1, ContentSet
  <2>2. CASE pc' = "error" /\ ~UNCHANGED <<names, removed>>
    BY <1>0, <2>2
  <2>3. CASE pc' = "mode"
    BY <1>0, <2>3, OwnerGiven
  <2> QED BY <2>1, <2>2, <2>3
<1>t. InstallTypes'
  <2>1. match' \in BOOLEAN /\ rw' \in BOOLEAN /\ removed' \in BOOLEAN
    OBVIOUS
  <2>2. fd' \in 0 .. 2 /\ parent' \in {<<>>, <<0, 0>>, <<1>>, <<2>>}
    BY <1>m, <1>0 DEF CopyBeside, CopyInstead
  <2>3. names' \in [FileNames -> 0 .. 2]
    BY <1>m, <1>0
  <2>4. pc' \in InstallPcs
    BY <1>0, <1>m DEF InstallPcs
  <2>5. faults' \in Nat
    <3>1. faults' \in {faults, faults + 1}
      BY Zenon
    <3> QED BY <3>1
  <2> QED BY <1>u, <1>m, <1>0, <2>1, <2>2, <2>3, <2>4, <2>5
<1>c. Compared'
  BY <1>u DEF Compared, Inst!target
<1>i. InPlace'
  <2>1. CASE pc' = "error" /\ node' # node
    BY <1>u, <1>m, <1>0, <2>1 DEF InPlace, Placed
  <2>2. CASE pc' = "error" /\ node' = node /\ names' = names
    BY <1>u, <1>m, <1>0, <2>2 DEF InPlace, Placed
  <2>3. CASE pc' = "error" /\ node' = node /\ names' # names
    BY <1>u, <1>m, <1>0, <2>3 DEF InPlace, Placed
  <2>4. CASE pc' = "mode"
    BY <1>u, <1>m, <1>0, <2>4 DEF InPlace, Placed, Whole, Inst!Want, Compared, Inst!target
  <2> QED BY <1>0, <1>m, <2>1, <2>2, <2>3, <2>4
<1>p. Parents'
  BY <1>u, <1>m, <1>0 DEF Parents, Early
<1>b. CASE Inst!tempcopy
  <2>1. Beside'
    <3>1. CASE pc' = "error" /\ node' # node
      BY <1>u, <1>m, <1>0, <1>b, <3>1 DEF Beside, CopyBeside, Early, Placed
    <3>2. CASE pc' = "error" /\ node' = node /\ names' = names
      BY <1>u, <1>m, <1>0, <1>b, <3>2 DEF Beside, CopyBeside, Early, Placed, Untouched,
                                          Inst!target, Whole, Inst!Want, InPlace, Parents
    <3>3. CASE pc' = "error" /\ node' = node /\ names' # names
      BY <1>u, <1>m, <1>0, <1>b, <3>3 DEF Beside, CopyBeside, Early, Placed
    <3>4. CASE pc' = "mode"
      BY <1>u, <1>m, <1>0, <1>b, <3>4 DEF Beside, CopyBeside, Early, Placed, Untouched,
                                          Inst!target, Whole, Inst!Want, InPlace, Parents
    <3> QED BY <1>0, <1>m, <3>1, <3>2, <3>3, <3>4
  <2>2. CopyBeside'
    <3>1. CASE pc' = "error" /\ node' # node
      BY <1>u, <1>m, <1>0, <1>b, <3>1 DEF Beside, CopyBeside, Early, Placed
    <3>2. CASE pc' = "error" /\ node' = node /\ names' = names
      BY <1>u, <1>m, <1>0, <1>b, <3>2 DEF Beside, CopyBeside, Early, Placed
    <3>3. CASE pc' = "error" /\ node' = node /\ names' # names
      BY <1>u, <1>m, <1>0, <1>b, <3>3 DEF Beside, CopyBeside, Early, Placed
    <3>4. CASE pc' = "mode"
      BY <1>u, <1>m, <1>0, <1>b, <3>4 DEF Beside, CopyBeside, Early, Placed
    <3> QED BY <1>0, <1>m, <3>1, <3>2, <3>3, <3>4
  <2> QED BY <1>u, <1>t, <1>c, <1>i, <1>p, <1>b, <2>1, <2>2
<1>n. CASE ~Inst!tempcopy
  <2>1. Instead'
    <3>1. CASE pc' = "error" /\ node' # node
      BY <1>u, <1>m, <1>0, <1>n, <3>1 DEF Instead, CopyInstead, Early, Placed, Inst!target
    <3>2. CASE pc' = "error" /\ node' = node /\ names' = names
      BY <1>u, <1>m, <1>0, <1>n, <3>2 DEF Instead, CopyInstead, Early, Placed, Inst!target
    <3>3. CASE pc' = "error" /\ node' = node /\ names' # names
      BY <1>u, <1>m, <1>0, <1>n, <3>3 DEF Instead, CopyInstead, Early, Placed, Inst!target
    <3>4. CASE pc' = "mode"
      BY <1>u, <1>m, <1>0, <1>n, <3>4 DEF Instead, CopyInstead, Early, Placed, Inst!target
    <3> QED BY <1>0, <1>m, <3>1, <3>2, <3>3, <3>4
  <2>2. CopyInstead'
    <3>1. CASE pc' = "error" /\ node' # node
      BY <1>u, <1>m, <1>0, <1>n, <3>1 DEF Instead, CopyInstead, Early, Placed, Inst!target
    <3>2. CASE pc' = "error" /\ node' = node /\ names' = names
      BY <1>u, <1>m, <1>0, <1>n, <3>2 DEF Instead, CopyInstead, Early, Placed, Inst!target,
                                          Untouched, Inst!tempcopy, Parents, Whole, Inst!Want,
                                          InPlace
    <3>3. CASE pc' = "error" /\ node' = node /\ names' # names
      BY <1>u, <1>m, <1>0, <1>n, <3>3 DEF Instead, CopyInstead, Early, Placed, Inst!target
    <3>4. CASE pc' = "mode"
      BY <1>u, <1>m, <1>0, <1>n, <3>4 DEF Instead, CopyInstead, Early, Placed, Inst!target,
                                          Untouched, Inst!tempcopy, Parents, Whole, Inst!Want,
                                          InPlace
    <3> QED BY <1>0, <1>m, <3>1, <3>2, <3>3, <3>4
  <2> QED BY <1>u, <1>t, <1>c, <1>i, <1>p, <1>n, <2>1, <2>2
<1> QED BY <1>b, <1>n

LEMMA Install_SetMode ==
    ASSUME InstallInv, Inst!SetMode PROVE InstallInv'
<1> USE DEF InstallInv, InstallTypes, FileNames, Inst!SetMode, Inst!Truncated, Inst!Goto,
            Inst!Fault, Inst!Fine, Inst!Given, Inst!Still, Inst!Local, Inst!Files
<1>u. UNCHANGED <<opt, existed, links>> /\ (Inst!tempcopy' <=> Inst!tempcopy)
  BY DEF Inst!tempcopy, Inst!target
<1>0. fd \in 1 .. 2 /\ node[fd].owner
  BY DEF InPlace, Placed
<1>m. \/ node' = node /\ pc' = "error"
      \/ /\ rw /\ pc' = "error" /\ node' \in [1 .. 2 -> Inodes]
         /\ node'[fd].content = "empty"
         /\ \A j \in 1 .. 2 : j # fd => node'[j] = node[j]
      \/ /\ pc' = "flags" /\ node' \in [1 .. 2 -> Inodes] /\ node'[fd].owner /\ node'[fd].mode
         /\ \A j \in 1 .. 2 : node'[j].content = node[j].content
  BY <1>0, ContentSet, ModeGiven
<1>t. InstallTypes'
  <2>1. match' \in BOOLEAN /\ rw' \in BOOLEAN /\ removed' \in BOOLEAN
    OBVIOUS
  <2>2. fd' \in 0 .. 2 /\ parent' \in {<<>>, <<0, 0>>, <<1>>, <<2>>}
    BY <1>m, <1>0 DEF CopyBeside, CopyInstead
  <2>3. names' \in [FileNames -> 0 .. 2]
    BY <1>m, <1>0
  <2>4. pc' \in InstallPcs
    BY <1>0, <1>m DEF InstallPcs
  <2>5. faults' \in Nat
    <3>1. faults' \in {faults, faults + 1}
      BY Zenon
    <3> QED BY <3>1
  <2> QED BY <1>u, <1>m, <1>0, <2>1, <2>2, <2>3, <2>4, <2>5
<1>c. Compared'
  BY <1>u DEF Compared, Inst!target
<1>i. InPlace'
  BY <1>u, <1>m, <1>0 DEF InPlace, Placed, Whole, Inst!Want, Compared, Inst!target
<1>p. Parents'
  BY <1>u, <1>m, <1>0 DEF Parents, Early
<1>b. CASE Inst!tempcopy
  <2>1. Beside'
    BY <1>u, <1>m, <1>0, <1>b DEF Beside, CopyBeside, Early, Placed, Untouched, Inst!target,
                                  Whole, Inst!Want, InPlace, Parents
  <2>2. CopyBeside'
    BY <1>u, <1>m, <1>0, <1>b DEF Beside, CopyBeside, Early, Placed
  <2> QED BY <1>u, <1>t, <1>c, <1>i, <1>p, <1>b, <2>1, <2>2
<1>n. CASE ~Inst!tempcopy
  <2>1. Instead'
    BY <1>u, <1>m, <1>0, <1>n DEF Instead, CopyInstead, Early, Placed, Inst!target
  <2>2. CopyInstead'
    BY <1>u, <1>m, <1>0, <1>n DEF Instead, CopyInstead, Early, Placed, Inst!target, Untouched,
                                  Inst!tempcopy, Parents, Whole, Inst!Want, InPlace
  <2> QED BY <1>u, <1>t, <1>c, <1>i, <1>p, <1>n, <2>1, <2>2
<1> QED BY <1>b, <1>n

LEMMA Install_SetFlags ==
    ASSUME InstallInv, Inst!SetFlags PROVE InstallInv'
<1> USE DEF InstallInv, InstallTypes, FileNames, Inst!SetFlags, Inst!Unlink, Inst!Goto,
            Inst!Fault, Inst!Fine, Inst!Given, Inst!Still, Inst!Local, Inst!Files
<1>u. UNCHANGED <<opt, existed, links>> /\ (Inst!tempcopy' <=> Inst!tempcopy)
  BY DEF Inst!tempcopy, Inst!target
<1>m. node' = node
  OBVIOUS
<1>t. InstallTypes'
  <2>1. match' \in BOOLEAN /\ rw' \in BOOLEAN /\ removed' \in BOOLEAN
    OBVIOUS
  <2>2. fd' \in 0 .. 2 /\ parent' \in {<<>>, <<0, 0>>, <<1>>, <<2>>}
    BY <1>m DEF CopyBeside, CopyInstead
  <2>3. names' \in [FileNames -> 0 .. 2]
    BY <1>m
  <2>4. pc' \in InstallPcs
    BY DEF InstallPcs
  <2>5. faults' \in Nat
    <3>1. faults' \in {faults, faults + 1}
      BY Zenon
    <3> QED BY <3>1
  <2> QED BY <1>u, <1>m, <2>1, <2>2, <2>3, <2>4, <2>5
<1>c. Compared'
  BY <1>u DEF Compared, Inst!target
<1>i. InPlace'
  BY <1>u, <1>m DEF InPlace, Placed, Whole, Inst!Want, Compared, Inst!target
<1>p. Parents'
  BY <1>u, <1>m DEF Parents, Early
<1>b. CASE Inst!tempcopy
  <2>1. Beside'
    BY <1>u, <1>m, <1>b DEF Beside, CopyBeside, Early, Placed, Untouched, Inst!target, Whole,
                            Inst!Want, InPlace, Parents
  <2>2. CopyBeside'
    BY <1>u, <1>m, <1>b DEF Beside, CopyBeside, Early, Placed
  <2> QED BY <1>u, <1>t, <1>c, <1>i, <1>p, <1>b, <2>1, <2>2
<1>n. CASE ~Inst!tempcopy
  <2>1. Instead'
    BY <1>u, <1>m, <1>n DEF Instead, CopyInstead, Early, Placed, Inst!target
  <2>2. CopyInstead'
    BY <1>u, <1>m, <1>n DEF Instead, CopyInstead, Early, Placed, Inst!target, Untouched,
                            Inst!tempcopy, Parents, Whole, Inst!Want, InPlace
  <2> QED BY <1>u, <1>t, <1>c, <1>i, <1>p, <1>n, <2>1, <2>2
<1> QED BY <1>b, <1>n

LEMMA Install_Kill ==
    ASSUME InstallInv, Inst!Kill PROVE InstallInv'
<1> USE DEF InstallInv, InstallTypes, FileNames, Inst!Kill, Inst!Goto, Inst!Fault, Inst!Fine,
            Inst!Given, Inst!Still, Inst!Local, Inst!Files
<1>u. UNCHANGED <<opt, existed, links>> /\ (Inst!tempcopy' <=> Inst!tempcopy)
  BY DEF Inst!tempcopy, Inst!target
<1>m. node' = node
  OBVIOUS
<1>t. InstallTypes'
  <2>1. match' \in BOOLEAN /\ rw' \in BOOLEAN /\ removed' \in BOOLEAN
    OBVIOUS
  <2>2. fd' \in 0 .. 2 /\ parent' \in {<<>>, <<0, 0>>, <<1>>, <<2>>}
    BY <1>m DEF CopyBeside, CopyInstead
  <2>3. names' \in [FileNames -> 0 .. 2]
    BY <1>m
  <2>4. pc' \in InstallPcs
    BY DEF InstallPcs
  <2>5. faults' \in Nat
    <3>1. faults' \in {faults, faults + 1}
      BY Zenon
    <3> QED BY <3>1
  <2> QED BY <1>u, <1>m, <2>1, <2>2, <2>3, <2>4, <2>5
<1>c. Compared'
  BY <1>u DEF Compared, Inst!target
<1>i. InPlace'
  BY <1>u, <1>m DEF InPlace, Placed
<1>p. Parents'
  BY <1>u, <1>m DEF Parents, Early
<1>b. CASE Inst!tempcopy
  <2>1. Beside'
    BY <1>u, <1>m, <1>b DEF Beside, CopyBeside, Early, Placed, Untouched, Inst!target, Whole,
                            Inst!Want, InPlace, Parents
  <2>2. CopyBeside'
    BY <1>u, <1>m, <1>b DEF Beside, CopyBeside, Early, Placed, Untouched, Inst!target, Whole,
                            Inst!Want, InPlace, Parents
  <2> QED BY <1>u, <1>t, <1>c, <1>i, <1>p, <1>b, <2>1, <2>2
<1>n. CASE ~Inst!tempcopy
  <2>1. Instead'
    BY <1>u, <1>m, <1>n DEF Instead, CopyInstead, Early, Placed, Inst!target, Untouched,
                            Inst!tempcopy, Parents
  <2>2. CopyInstead'
    BY <1>u, <1>m, <1>n DEF Instead, CopyInstead, Early, Placed, Inst!target, Untouched,
                            Inst!tempcopy, Parents, Whole, Inst!Want, InPlace
  <2> QED BY <1>u, <1>t, <1>c, <1>i, <1>p, <1>n, <2>1, <2>2
<1> QED BY <1>b, <1>n

\* Every step of install keeps its invariant.
LEMMA InstallStep == ASSUME InstallInv, Inst!Next PROVE InstallInv'
BY Install_Begin, Install_Match, Install_create_tempfile, Install_MakeRoom,
     Install_create_newfile, Install_copy, Install_strip, Install_ChildEnds, Install_Reopen,
     Install_CompareStripped, Install_Backup, Install_Move, Install_Moved, Install_SetOwner,
     Install_SetMode, Install_SetFlags, Install_Kill
   DEF Inst!Next

-----------------------------------------------------------------------------
(* system *)

SystemTypes ==
    /\ pipe \in [System!Processes -> Nat] /\ printed \in [System!Processes -> Nat]
    /\ shown \in [System!Processes -> Nat] /\ read_failed \in BOOLEAN
    /\ pc \in {"pipe", "fork", "closewrite", "fdopen", "read", "fclose", "wait", "cleanup", "done"}

\* A line that is printed is in the pipe or shown, until the rest is given up.
LinesKept == ~read_failed => \A p \in System!Processes : printed[p] = pipe[p] + shown[p]

\* The child that is to become the shell has the pipe open.
StartsWithPipe == shell = "starting" => "shell" \in writers

\* What is waited for without an error has come to the end of the output.
OutputRead ==
    pc \in {"fclose", "wait", "cleanup", "done"} /\ ~read_failed /\ status # "error" =>
        writers = {} /\ pipe["shell"] = 0 /\ pipe["back"] = 0

\* The status is that of the shell, from the wait on.
StatusGiven ==
    /\ pc \notin {"cleanup", "done"} => status = "none"
    /\ status = "ok" => shell = "reaped" /\ code = 0 /\ ~read_failed

SystemInv == SystemTypes /\ LinesKept /\ StartsWithPipe /\ OutputRead /\ StatusGiven

\* system begins with nothing printed, and no status.
LEMMA SystemInitially == ASSUME System!Init PROVE SystemInv
<1> USE DEF System!Init, System!Processes
<1>1. \A p \in System!Processes : pipe[p] = 0 /\ printed[p] = 0 /\ shown[p] = 0
  OBVIOUS
<1>2. SystemTypes
  BY DEF SystemTypes
<1>3. LinesKept
  BY <1>1 DEF LinesKept
<1>4. StartsWithPipe /\ OutputRead /\ StatusGiven
  BY DEF StartsWithPipe, OutputRead, StatusGiven
<1> QED BY <1>2, <1>3, <1>4 DEF SystemInv

\* With status ok the output is at its end and nothing of it was given up.
LEMMA OkFollows == ASSUME SystemInv PROVE System!OkMeansDone
BY DEF SystemInv, SystemTypes, LinesKept, OutputRead, StatusGiven, System!OkMeansDone,
       System!Processes

\* Every step of system, its shell and what that leaves behind keeps the invariant.
LEMMA SystemStep == ASSUME SystemInv, System!Next PROVE SystemInv'
<1> USE DEF SystemInv, SystemTypes, LinesKept, StartsWithPipe, OutputRead, StatusGiven,
            System!Processes, System!Running, System!Rest, System!Parent, System!Goto, System!Total
<1>1. CASE System!Pipe
  BY <1>1 DEF System!Pipe
<1>2. CASE System!Fork
  BY <1>2 DEF System!Fork
<1>3. CASE System!CloseWrite
  BY <1>3 DEF System!CloseWrite
<1>4. CASE System!Fdopen
  BY <1>4 DEF System!Fdopen
<1>5. CASE System!EndOfFile
  BY <1>5 DEF System!EndOfFile
<1>6. CASE System!Fclose
  BY <1>6 DEF System!Fclose
<1>7. CASE System!Wait
  BY <1>7 DEF System!Wait, System!Status
<1>8. CASE System!Cleanup
  BY <1>8 DEF System!Cleanup
<1>9. ASSUME NEW p \in System!Processes, System!Read(p) PROVE SystemInv'
  <2>1. pc = "read" /\ pipe[p] > 0 /\ pipe' = [pipe EXCEPT ![p] = @ - 1]
    BY <1>9 DEF System!Read
  <2>2. UNCHANGED <<printed, shell, code, back, status, writers>>
    BY <1>9 DEF System!Read
  <2>3. CASE shown' = [shown EXCEPT ![p] = @ + 1] /\ UNCHANGED <<pc, read_failed>>
    BY <2>1, <2>2, <2>3
  <2>4. CASE read_failed' = TRUE /\ pc' = "fclose" /\ shown' = shown
    BY <2>1, <2>2, <2>4
  <2> QED BY <1>9, <2>3, <2>4, Zenon DEF System!Read
<1>10. CASE System!Start
  BY <1>10 DEF System!Start
<1>11. ASSUME NEW p \in System!Processes, System!Prints(p) PROVE SystemInv'
  BY <1>11 DEF System!Prints, System!Alive
<1>12. ASSUME NEW p \in System!Processes, System!Redirect(p) PROVE SystemInv'
  BY <1>12 DEF System!Redirect, System!Alive
<1>13. CASE System!Background
  BY <1>13 DEF System!Background
<1>14. ASSUME NEW c \in {-1, 0, 1}, System!Exit(c) PROVE SystemInv'
  BY <1>14 DEF System!Exit
<1>15. CASE System!BackExit
  BY <1>15 DEF System!BackExit
<1>16. CASE System!OtherExit
  BY <1>16 DEF System!OtherExit
<1>17. CASE System!Accept
  BY <1>17 DEF System!Accept
<1>18. ASSUME NEW d \in 1 .. NumFds, System!Hangup(d) PROVE SystemInv'
  BY <1>18 DEF System!Hangup
<1> HIDE DEF SystemInv
<1> QED
  BY <1>1, <1>2, <1>3, <1>4, <1>5, <1>6, <1>7, <1>8, <1>9, <1>10, <1>11, <1>12, <1>13, <1>14,
     <1>15, <1>16, <1>17, <1>18 DEF System!Next, System!Caller

-----------------------------------------------------------------------------
(* trace mode *)

MainPcs == {"idle", "close", "prepare", "deps", "target", "closing", "check", "clean"}
SlavePcs == {"none", "loop", "select", "accept", "serve", "end", "done"}
ProcPcs == {"none", "run", "connect", "askmap", "judge", "askdep", "forked", "gone"}
TracedPaths == Tr!Paths \cup {""}
Maps == {"none", "all", "fenced"}
Answers == Maps \cup {"+", "!"}
Requests == [kind : {"filemap", "dep_check", "sandbox_violation"}, path : TracedPaths, by : Tracees]
Channels == [state : {"unused", "pending", "open", "closed"}, reqs : Seq(Requests),
             ans : Seq(Answers)]
Traced == [pc : ProcPcs, target : Nat, conn : Conns \cup {NoConn}, map : Answers,
           path : TracedPaths, verdict : {"", "allowed", "refused"}]

TraceTypes ==
    /\ plan \in TracePlans /\ main \in [pc : MainPcs, target : Nat]
    /\ lib.sock \in BOOLEAN /\ lib.cleanup \in BOOLEAN /\ lib.fence \in BOOLEAN
    /\ lib.map \in Maps
    /\ lib = [sock |-> lib.sock, cleanup |-> lib.cleanup, fence |-> lib.fence,
              deps |-> lib.deps, map |-> lib.map]
    /\ slave \in [pc : SlavePcs, ready : SUBSET Conns, listen : BOOLEAN]
    /\ conn \in [Conns -> Channels] /\ proc \in [Tracees -> Traced]

\* While a target is traced the socket is open and the slave does not end; and
\* nothing of an earlier target is left when one begins.
Stages ==
    /\ main.pc \in {"prepare", "deps", "target"} =>
        lib.sock /\ ~lib.cleanup /\ slave.pc \in {"loop", "select", "accept", "serve"}
    /\ slave.pc = "end" => lib.cleanup \/ ~lib.sock
    /\ main.pc = "idle" /\ main.target < Len(plan.targets) =>
        lib = Tr!NoLib /\ slave.pc = "none"
    /\ main.pc \in {"close", "closing", "check"} /\ slave.pc = "none" =>
        ~(main.target < Len(plan.targets))

\* What the slave answers with is that of the target that runs.
FenceIsUp ==
    /\ main.pc \in {"deps", "target"} /\ Tr!Target.fence =>
        lib.fence /\ lib.map \in {"none", "fenced"}
    /\ main.pc = "target" => lib.deps = Tr!Target.deps

\* No process belongs to a target that has not run any.
TargetsOf ==
    \A p \in Tracees : /\ proc[p].target <= main.target
                       /\ main.pc \in {"prepare", "deps"} => proc[p].target < main.target

\* Of the processes with one connection all but one wait for their execve.
Connected ==
    /\ \A c \in Conns, p \in Tracees : conn[c].state = "unused" => proc[p].conn # c
    /\ \A p, q \in Tracees :
        proc[p].conn = proc[q].conn /\ proc[p].conn # NoConn
        /\ proc[p].pc # "forked" /\ proc[q].pc # "forked" => p = q
    /\ \A p \in Tracees :
        /\ proc[p].pc \in {"none", "gone", "connect"} => proc[p].conn = NoConn
        /\ proc[p].pc \in {"askmap", "askdep", "judge"} => proc[p].conn # NoConn

\* The slave closes a connection when nobody has it open.
ReadyIsOpen ==
    \A c \in slave.ready :
        /\ conn[c].state = "open"
        /\ \A p \in Tracees : conn[c].reqs = <<>> => proc[p].conn # c

\* A process of the target that runs, which can use its connection.
Talking(p) ==
    /\ main.pc = "target" /\ proc[p].target = main.target
    /\ proc[p].conn # NoConn /\ proc[p].pc # "forked"
Violations(s) == \A i \in 1 .. Len(s) : s[i].kind = "sandbox_violation"
\* Its connection holds the one question it waits with, or the answer to it.
MapAsked(p, ch) ==
    \/ ch.ans = <<>> /\ Len(ch.reqs) = 1 /\ ch.reqs[1].kind = "filemap"
    \/ ch.reqs = <<>> /\ Len(ch.ans) = 1 /\ (Tr!Target.fence => ch.ans[1] = "fenced")
DepAsked(p, ch) ==
    \/ /\ ch.ans = <<>> /\ Len(ch.reqs) > 0
       /\ \A i \in 1 .. Len(ch.reqs) - 1 : ch.reqs[i].kind = "sandbox_violation"
       /\ ch.reqs[Len(ch.reqs)].kind = "dep_check"
       /\ ch.reqs[Len(ch.reqs)].path = proc[p].path
    \/ /\ ch.reqs = <<>> /\ Len(ch.ans) = 1
       /\ ch.ans[1] = "+" => proc[p].path \in Tr!Target.deps
Talks(p) ==
    LET ch == conn[proc[p].conn]
    IN  /\ ch.state \in {"pending", "open"}
        /\ proc[p].pc = "askmap" => MapAsked(p, ch)
        /\ proc[p].pc = "askdep" => DepAsked(p, ch)
        /\ proc[p].pc \notin {"askmap", "askdep"} => ch.ans = <<>> /\ Violations(ch.reqs)
        /\ proc[p].pc # "askmap" /\ Tr!Target.fence => proc[p].map = "fenced"
AllTalk == \A p \in Tracees : Talking(p) => Talks(p)

TraceInv ==
    /\ TraceTypes /\ Stages /\ FenceIsUp /\ TargetsOf /\ Connected /\ ReadyIsOpen /\ AllTalk

\* The fields of records that are read one at a time below.
LEMMA ChannelFields ==
    ASSUME NEW ch \in Channels
    PROVE  /\ ch.state \in {"unused", "pending", "open", "closed"}
           /\ ch.reqs \in Seq(Requests) /\ ch.ans \in Seq(Answers)
BY DEF Channels

\* A process q goes on with its own connection, or takes one nobody has, or is a
\* child that has another's until its execve.
LEMMA ProcessGoesOn ==
    ASSUME TraceInv, UNCHANGED <<lib, main, slave, plan>>,
           NEW q \in Tracees, NEW r \in Traced, proc' = [proc EXCEPT ![q] = r],
           r.target <= main.target,
           main.pc \in {"prepare", "deps"} => r.target < main.target,
           r.pc \in {"none", "gone", "connect"} => r.conn = NoConn,
           r.pc \in {"askmap", "askdep", "judge"} => r.conn # NoConn,
           \/ r.conn = NoConn
           \/ r.conn = proc[q].conn /\ (r.pc # "forked" => proc[q].pc # "forked")
           \/ conn[r.conn].state = "unused" /\ conn'[r.conn].state = "pending"
           \/ r.pc = "forked" /\ \E p \in Tracees : proc[p].conn = r.conn,
           conn' \in [Conns -> Channels],
           \A c \in Conns :
               \/ conn'[c] = conn[c]
               \/ /\ c = r.conn /\ r.pc # "forked"
                  /\ conn'[c].state = IF conn[c].state = "unused" THEN "pending" ELSE conn[c].state
                  /\ conn[c].reqs # <<>> => conn'[c].reqs # <<>>,
           (Talking(q) => Talks(q))'
    PROVE  TraceInv'
<1> USE DEF TraceInv
<1>1. proc'[q] = r /\ \A p \in Tracees : p # q => proc'[p] = proc[p]
  BY DEF TraceTypes
<1>2. TraceTypes'
  BY DEF TraceTypes
<1>3. Stages' /\ FenceIsUp'
  BY DEF Stages, FenceIsUp, Tr!Target
<1>4. TargetsOf'
  BY <1>1 DEF TargetsOf
<1>5. Connected'
  <2>1. \A c \in Conns, p \in Tracees : conn'[c].state = "unused" => proc'[p].conn # c
    <3> SUFFICES ASSUME NEW c \in Conns, NEW p \in Tracees, conn'[c].state = "unused",
                        proc'[p].conn = c
                 PROVE  FALSE
      OBVIOUS
    <3>1. conn[c].state = "unused" /\ conn'[c] = conn[c]
      OBVIOUS
    <3>2. \A o \in Tracees : proc[o].conn # c
      BY <3>1 DEF Connected
    <3>3. p = q /\ r.conn = c /\ c # NoConn
      BY <1>1, <3>2, TraceAssumption DEF Tr!TraceAssumption
    <3> QED BY <3>1, <3>2, <3>3
  <2>2. ASSUME NEW p \in Tracees, p # q, proc'[p].conn = r.conn, r.conn # NoConn,
               proc'[p].pc # "forked", r.pc # "forked"
        PROVE  FALSE
    <3>1. proc[p].conn = r.conn /\ r.conn \in Conns
      BY <1>1, <2>2 DEF Traced
    <3>2. conn[r.conn].state # "unused"
      BY <3>1 DEF Connected
    <3>3. r.conn = proc[q].conn /\ proc[q].pc # "forked"
      BY <2>2, <3>2
    <3> QED BY <1>1, <2>2, <3>1, <3>3 DEF Connected
  <2>3. \A p \in Tracees :
          /\ proc'[p].pc \in {"none", "gone", "connect"} => proc'[p].conn = NoConn
          /\ proc'[p].pc \in {"askmap", "askdep", "judge"} => proc'[p].conn # NoConn
    BY <1>1 DEF Connected
  <2>4. ASSUME NEW p1 \in Tracees, NEW p2 \in Tracees, proc'[p1].conn = proc'[p2].conn,
               proc'[p1].conn # NoConn, proc'[p1].pc # "forked", proc'[p2].pc # "forked"
        PROVE  p1 = p2
    <3>1. CASE p1 = q \/ p2 = q
      BY <1>1, <2>2, <2>4, <3>1
    <3>2. CASE p1 # q /\ p2 # q
      BY <1>1, <2>4, <3>2 DEF Connected
    <3> QED BY <3>1, <3>2
  <2> QED BY <2>1, <2>3, <2>4 DEF Connected
<1>6. ReadyIsOpen'
  <2> SUFFICES ASSUME NEW c \in slave.ready
               PROVE  /\ conn'[c].state = "open"
                      /\ \A p \in Tracees : conn'[c].reqs = <<>> => proc'[p].conn # c
    BY DEF ReadyIsOpen
  <2>1. c \in Conns /\ conn[c].state = "open"
    BY DEF ReadyIsOpen, TraceTypes
  <2>2. conn'[c].state = "open" /\ (conn'[c].reqs = <<>> => conn[c].reqs = <<>>)
    BY <2>1
  <2>3. ASSUME NEW p \in Tracees, conn[c].reqs = <<>> PROVE proc'[p].conn # c
    <3>1. \A o \in Tracees : proc[o].conn # c
      BY <2>3 DEF ReadyIsOpen
    <3>2. c # NoConn
      BY <2>1, TraceAssumption DEF Tr!TraceAssumption
    <3> QED BY <1>1, <2>1, <3>1, <3>2
  <2> QED BY <2>2, <2>3
<1>7. AllTalk'
  <2> SUFFICES ASSUME NEW p \in Tracees PROVE (Talking(p) => Talks(p))'
    BY DEF AllTalk
  <2>1. CASE p = q
    BY <2>1
  <2>2. CASE p # q
    <3> SUFFICES ASSUME Talking(p)' PROVE Talks(p)'
      OBVIOUS
    <3>1. Talking(p) /\ proc'[p] = proc[p] /\ proc[p].conn \in Conns
      BY <1>1, <2>2 DEF Talking, TraceTypes, Traced
    <3>2. conn'[proc[p].conn] = conn[proc[p].conn]
      <4>1. r.pc = "forked" \/ r.conn # proc[p].conn
        BY <1>1, <1>5, <2>2, <3>1 DEF Connected, Talking
      <4> QED BY <3>1, <4>1
    <3>3. Talks(p)
      BY <3>1 DEF AllTalk
    <3>4. UNCHANGED <<main, plan>>
      OBVIOUS
    <3> HIDE DEF TraceInv
    <3> QED BY ONLY <3>1, <3>2, <3>3, <3>4 DEF Talks, MapAsked, DepAsked, Tr!Target
  <2> QED BY <2>1, <2>2
<1> QED BY <1>2, <1>3, <1>4, <1>5, <1>6, <1>7

LEMMA TracedFields ==
    ASSUME NEW r \in Traced
    PROVE  /\ r.pc \in ProcPcs /\ r.target \in Nat /\ r.conn \in Conns \cup {NoConn}
           /\ r.map \in Answers /\ r.path \in TracedPaths
           /\ r.verdict \in {"", "allowed", "refused"}
BY DEF Traced

\* The one answer on a connection is the first, and none is left after it.
LEMMA OneAnswer ==
    ASSUME NEW s \in Seq(Answers), Len(s) = 1
    PROVE  s # <<>> /\ Tail(s) = <<>> /\ Head(s) = s[1]
<1>1. s # <<>>
  BY EmptySeq
<1>2. Tail(s) \in Seq(Answers) /\ Len(Tail(s)) = 0
  BY <1>1, HeadTailProperties
<1>3. \A t \in Seq(Answers) : t # <<>> => Len(t) \in Nat \ {0}
  BY EmptySeq
<1>4. Head(s) = s[1]
  OBVIOUS
<1>5. Tail(s) = <<>>
  BY <1>2, <1>3
<1> QED BY <1>1, <1>4, <1>5

LEMMA OneRequest ==
    ASSUME NEW S, NEW x \in S PROVE <<x>> \in Seq(S)
OBVIOUS

\* The actions of the processes.
LEMMA Trace_Run == ASSUME TraceInv, NEW p \in Tracees, Tr!Run(p) PROVE TraceInv'
<1> USE DEF TraceInv
<1> DEFINE r == [proc[p] EXCEPT !.pc = "run", !.target = main.target]
<1>0. proc[p] \in Traced /\ main.target \in Nat
  BY DEF TraceTypes
<1>1. proc' = [proc EXCEPT ![p] = r] /\ main.pc = "target"
  BY <1>0 DEF Tr!Run
<1>2. r \in Traced /\ r.pc = "run" /\ r.target = main.target /\ r.conn = NoConn
  <2>1. proc[p].conn = NoConn
    BY DEF Connected, Tr!Run
  <2> QED BY <1>0, <2>1 DEF Traced, ProcPcs
<1>3. proc'[p].conn = NoConn
  BY <1>1, <1>2 DEF TraceTypes
<1>4. (Talking(p) => Talks(p))'
  BY <1>3 DEF Talking
<1>5. UNCHANGED <<lib, main, slave, plan, conn>> /\ conn \in [Conns -> Channels]
  BY DEF Tr!Run, TraceTypes
<1>6. r.target <= main.target /\ main.pc \notin {"prepare", "deps"}
  BY <1>0, <1>1, <1>2
<1> HIDE DEF TraceInv, r
<1> QED BY <1>6, <1>1, <1>2, <1>4, <1>5, ProcessGoesOn

LEMMA Trace_Access == ASSUME TraceInv, NEW p \in Tracees, Tr!Access(p) PROVE TraceInv'
<1> USE DEF TraceInv
<1>0. proc[p] \in Traced /\ proc[p].pc = "run" /\ main.target \in Nat
  BY DEF TraceTypes, Tr!Access, Tr!Acts
<1>u. UNCHANGED <<lib, main, slave, plan, conn>> /\ conn \in [Conns -> Channels]
  BY DEF Tr!Access, Tr!Acts, TraceTypes
<1>p. PICK path \in plan.paths :
        proc' = [proc EXCEPT ![p].pc = IF proc[p].conn = NoConn THEN "connect" ELSE "judge",
                             ![p].path = path, ![p].verdict = ""]
  BY DEF Tr!Access
<1>q. path \in TracedPaths
  BY TraceAssumption DEF Tr!TraceAssumption, TraceTypes, TracedPaths
<1> DEFINE r == [proc[p] EXCEPT !.pc = IF proc[p].conn = NoConn THEN "connect" ELSE "judge",
                                !.path = path, !.verdict = ""]
<1>1. proc' = [proc EXCEPT ![p] = r]
  BY <1>p DEF TraceTypes
<1>2. /\ r \in Traced /\ r.target = proc[p].target /\ r.conn = proc[p].conn
      /\ r.map = proc[p].map
      /\ r.pc = IF proc[p].conn = NoConn THEN "connect" ELSE "judge"
  BY <1>0, <1>q DEF Traced, ProcPcs
<1>3. proc'[p] = r
  BY <1>1, <1>2 DEF TraceTypes
<1>4. (Talking(p) => Talks(p))'
  <2> SUFFICES ASSUME Talking(p)' PROVE Talks(p)'
    OBVIOUS
  <2>1. Talking(p) /\ r.pc = "judge"
    BY <1>0, <1>2, <1>3, <1>u DEF Talking
  <2>2. Talks(p)
    BY <2>1 DEF AllTalk
  <2> HIDE DEF TraceInv, r
  <2> QED BY <1>0, <1>2, <1>3, <1>u, <2>1, <2>2 DEF Talks, Tr!Target
<1>5. r.target <= main.target /\ (main.pc \in {"prepare", "deps"} => r.target < main.target)
  BY <1>2 DEF TargetsOf
<1> HIDE DEF TraceInv, r
<1> QED BY <1>0, <1>1, <1>2, <1>4, <1>5, <1>u, ProcessGoesOn

LEMMA Trace_Fork == ASSUME TraceInv, NEW p \in Tracees, Tr!Fork(p) PROVE TraceInv'
<1> USE DEF TraceInv
<1>0. proc[p] \in Traced /\ proc[p].pc = "run" /\ main.target \in Nat
  BY DEF TraceTypes, Tr!Fork, Tr!Acts
<1>u. UNCHANGED <<lib, main, slave, plan, conn>> /\ conn \in [Conns -> Channels]
  BY DEF Tr!Fork, Tr!Acts, TraceTypes
<1>s. "share" \notin plan.does
  BY TraceLimits DEF Tr!WithinLimits, TraceTypes
<1>p. PICK q \in Tracees :
        proc' = [proc EXCEPT ![q] = [proc[p] EXCEPT !.pc = "forked", !.verdict = ""]]
  BY <1>s DEF Tr!Fork
<1> DEFINE r == [proc[p] EXCEPT !.pc = "forked", !.verdict = ""]
<1>2. /\ r \in Traced /\ r.target = proc[p].target /\ r.conn = proc[p].conn /\ r.pc = "forked"
  BY <1>0 DEF Traced, ProcPcs
<1>3. proc'[q] = r
  BY <1>p, <1>2 DEF TraceTypes
<1>4. (Talking(q) => Talks(q))'
  BY <1>2, <1>3 DEF Talking
<1>5. r.target <= main.target /\ (main.pc \in {"prepare", "deps"} => r.target < main.target)
  BY <1>2 DEF TargetsOf
<1>6. proc' = [proc EXCEPT ![q] = r]
  BY <1>p
<1> HIDE DEF TraceInv, r
<1> QED BY <1>6, <1>2, <1>4, <1>5, <1>u, ProcessGoesOn

LEMMA Trace_Exec == ASSUME TraceInv, NEW p \in Tracees, Tr!Exec(p) PROVE TraceInv'
<1> USE DEF TraceInv
<1>0. proc[p] \in Traced /\ main.target \in Nat
  BY DEF TraceTypes
<1>u. UNCHANGED <<lib, main, slave, plan, conn>> /\ conn \in [Conns -> Channels]
  BY DEF Tr!Exec, Tr!Acts, TraceTypes
<1> DEFINE r == [proc[p] EXCEPT !.pc = "run", !.conn = NoConn, !.map = "none", !.verdict = ""]
<1>1. proc' = [proc EXCEPT ![p] = r]
  BY DEF Tr!Exec
<1>2. /\ r \in Traced /\ r.target = proc[p].target /\ r.conn = NoConn /\ r.pc = "run"
  BY <1>0 DEF Traced, ProcPcs, Answers, Maps
<1>3. proc'[p] = r
  BY <1>1, <1>2 DEF TraceTypes
<1>4. (Talking(p) => Talks(p))'
  BY <1>2, <1>3 DEF Talking
<1>5. r.target <= main.target /\ (main.pc \in {"prepare", "deps"} => r.target < main.target)
  BY <1>2 DEF TargetsOf
<1> HIDE DEF TraceInv, r
<1> QED BY <1>1, <1>2, <1>4, <1>5, <1>u, ProcessGoesOn

LEMMA Trace_Exit == ASSUME TraceInv, NEW p \in Tracees, Tr!Exit(p) PROVE TraceInv'
<1> USE DEF TraceInv
<1>0. proc[p] \in Traced /\ main.target \in Nat
  BY DEF TraceTypes
<1>u. UNCHANGED <<lib, main, slave, plan, conn>> /\ conn \in [Conns -> Channels]
  BY DEF Tr!Exit, TraceTypes
<1> DEFINE r == [proc[p] EXCEPT !.pc = "gone", !.conn = NoConn]
<1>1. proc' = [proc EXCEPT ![p] = r]
  BY DEF Tr!Exit, TraceTypes
<1>2. /\ r \in Traced /\ r.target = proc[p].target /\ r.conn = NoConn /\ r.pc = "gone"
  BY <1>0 DEF Traced, ProcPcs
<1>3. proc'[p] = r
  BY <1>1, <1>2 DEF TraceTypes
<1>4. (Talking(p) => Talks(p))'
  BY <1>2, <1>3 DEF Talking
<1>5. r.target <= main.target /\ (main.pc \in {"prepare", "deps"} => r.target < main.target)
  BY <1>2 DEF TargetsOf
<1> HIDE DEF TraceInv, r
<1> QED BY <1>1, <1>2, <1>4, <1>5, <1>u, ProcessGoesOn

LEMMA Trace_Connect == ASSUME TraceInv, NEW p \in Tracees, Tr!Connect(p) PROVE TraceInv'
<1> USE DEF TraceInv
<1>0. proc[p] \in Traced /\ proc[p].pc = "connect" /\ proc[p].conn = NoConn /\ main.target \in Nat
  BY DEF TraceTypes, Tr!Connect, Connected
<1>u. UNCHANGED <<lib, main, slave, plan>> /\ conn \in [Conns -> Channels]
  BY DEF Tr!Connect, TraceTypes
<1>t. /\ proc[p].target <= main.target
      /\ main.pc \in {"prepare", "deps"} => proc[p].target < main.target
  BY DEF TargetsOf
<1>g. CASE proc' = [proc EXCEPT ![p].pc = "gone"] /\ conn' = conn
  <2> DEFINE r == [proc[p] EXCEPT !.pc = "gone"]
  <2>1. proc' = [proc EXCEPT ![p] = r]
    BY <1>g DEF TraceTypes
  <2>2. r \in Traced /\ r.target = proc[p].target /\ r.conn = NoConn /\ r.pc = "gone"
    BY <1>0 DEF Traced, ProcPcs
  <2>3. proc'[p] = r
    BY <2>1, <2>2 DEF TraceTypes
  <2>4. (Talking(p) => Talks(p))'
    BY <2>2, <2>3 DEF Talking
  <2> HIDE DEF TraceInv, r
  <2> QED BY <1>t, <1>u, <1>g, <2>1, <2>2, <2>4, ProcessGoesOn
<1>c. ASSUME NEW c \in Conns, conn[c].state = "unused",
             conn' = [conn EXCEPT ![c] = [state |-> "pending", ans |-> <<>>,
                        reqs |-> <<[kind |-> "filemap", path |-> "", by |-> p]>>]],
             proc' = [proc EXCEPT ![p].pc = "askmap", ![p].conn = c]
      PROVE  TraceInv'
  <2> DEFINE r == [proc[p] EXCEPT !.pc = "askmap", !.conn = c]
  <2> DEFINE ch == [state |-> "pending", ans |-> <<>>,
                    reqs |-> <<[kind |-> "filemap", path |-> "", by |-> p]>>]
  <2>1. proc' = [proc EXCEPT ![p] = r]
    BY <1>c DEF TraceTypes
  <2>2. r \in Traced /\ r.target = proc[p].target /\ r.conn = c /\ r.pc = "askmap"
    BY <1>0 DEF Traced, ProcPcs
  <2>3. proc'[p] = r
    BY <2>1, <2>2 DEF TraceTypes
  <2>4. ch \in Channels
    <3>1. [kind |-> "filemap", path |-> "", by |-> p] \in Requests
      BY DEF Requests, TracedPaths
    <3>2. <<[kind |-> "filemap", path |-> "", by |-> p]>> \in Seq(Requests)
      BY <3>1, OneRequest
    <3>3. <<>> \in Seq(Answers)
      OBVIOUS
    <3> QED BY <3>2, <3>3 DEF Channels
  <2>5. /\ conn' \in [Conns -> Channels] /\ conn'[c] = ch
        /\ \A d \in Conns : d # c => conn'[d] = conn[d]
    BY <1>c, <1>u, <2>4
  <2>6. /\ ch.state = "pending" /\ ch.ans = <<>> /\ ch.reqs # <<>>
        /\ Len(ch.reqs) = 1 /\ ch.reqs[1].kind = "filemap"
    OBVIOUS
  <2>7. c # NoConn
    BY TraceAssumption DEF Tr!TraceAssumption
  <2> HIDE DEF TraceInv, r, ch
  <2>8. (Talking(p) => Talks(p))'
    BY <2>2, <2>3, <2>5, <2>6 DEF Talking, Talks, MapAsked
  <2> QED BY <1>c, <1>t, <1>u, <2>1, <2>2, <2>5, <2>6, <2>7, <2>8, ProcessGoesOn
<1> QED BY <1>g, <1>c DEF Tr!Connect

LEMMA Trace_Answer == ASSUME TraceInv, NEW p \in Tracees, Tr!Answer(p) PROVE TraceInv'
<1> USE DEF TraceInv
<1> DEFINE c == proc[p].conn
<1>0. /\ proc[p] \in Traced /\ proc[p].pc \in {"askmap", "askdep"} /\ c \in Conns /\ c # NoConn
      /\ main.target \in Nat
  BY DEF TraceTypes, Tr!Answer, Connected, Traced
<1>u. UNCHANGED <<lib, main, slave, plan>> /\ conn \in [Conns -> Channels]
  BY DEF Tr!Answer, TraceTypes
<1>t. /\ proc[p].target <= main.target
      /\ main.pc \in {"prepare", "deps"} => proc[p].target < main.target
  BY DEF TargetsOf
<1>a. conn[c].ans \in Seq(Answers) /\ conn[c].reqs \in Seq(Requests)
  BY <1>0, <1>u, ChannelFields
<1>1. /\ conn' \in [Conns -> Channels] /\ \A d \in Conns : d # c => conn'[d] = conn[d]
      /\ conn'[c].state = conn[c].state /\ conn'[c].reqs = conn[c].reqs
      /\ conn'[c].ans = IF conn[c].ans = <<>> THEN <<>> ELSE Tail(conn[c].ans)
  <2>1. CASE conn[c].ans = <<>>
    BY <1>u, <2>1 DEF Tr!Answer
  <2>2. CASE conn[c].ans # <<>>
    <3>1. conn' = [conn EXCEPT ![c] = [conn[c] EXCEPT !.ans = Tail(conn[c].ans)]]
      BY <2>2, <1>u DEF Tr!Answer, Tr!Taken
    <3>2. Tail(conn[c].ans) \in Seq(Answers)
      BY <1>a, <2>2
    <3>3. /\ [conn[c] EXCEPT !.ans = Tail(conn[c].ans)] \in Channels
          /\ [conn[c] EXCEPT !.ans = Tail(conn[c].ans)].state = conn[c].state
          /\ [conn[c] EXCEPT !.ans = Tail(conn[c].ans)].reqs = conn[c].reqs
          /\ [conn[c] EXCEPT !.ans = Tail(conn[c].ans)].ans = Tail(conn[c].ans)
      BY <1>0, <1>u, <3>2 DEF Channels
    <3> QED BY <1>0, <1>u, <2>2, <3>1, <3>3
  <2> QED BY <2>1, <2>2
<1>2. PICK r \in Traced :
        /\ proc' = [proc EXCEPT ![p] = r] /\ r.target = proc[p].target /\ r.conn = c
        /\ r.pc = IF proc[p].pc = "askmap" THEN "judge" ELSE "run"
        /\ r.map = IF proc[p].pc = "askmap"
                   THEN IF conn[c].ans = <<>> THEN "none" ELSE Head(conn[c].ans)
                   ELSE proc[p].map
  <2>1. CASE proc[p].pc = "askmap"
    <3> DEFINE m == IF conn[c].ans = <<>> THEN "none" ELSE Head(conn[c].ans)
    <3>1. m \in Answers
      BY <1>a DEF Answers, Maps
    <3>2. proc' = [proc EXCEPT ![p] = [proc[p] EXCEPT !.pc = "judge", !.map = m]]
      BY <2>1 DEF Tr!Answer, TraceTypes
    <3> HIDE DEF m
    <3>3. [proc[p] EXCEPT !.pc = "judge", !.map = m] \in Traced
      BY <1>0, <3>1 DEF Traced, ProcPcs
    <3>4. /\ [proc[p] EXCEPT !.pc = "judge", !.map = m].target = proc[p].target
          /\ [proc[p] EXCEPT !.pc = "judge", !.map = m].conn = c
          /\ [proc[p] EXCEPT !.pc = "judge", !.map = m].pc = "judge"
          /\ [proc[p] EXCEPT !.pc = "judge", !.map = m].map = m
      BY <1>0 DEF Traced
    <3> QED BY <2>1, <3>2, <3>3, <3>4 DEF m
  <2>2. CASE proc[p].pc = "askdep"
    <3>1. PICK v \in {"allowed", "refused"} :
            proc' = [proc EXCEPT ![p].pc = "run", ![p].verdict = v]
      BY <2>2 DEF Tr!Answer
    <3>2. proc' = [proc EXCEPT ![p] = [proc[p] EXCEPT !.pc = "run", !.verdict = v]]
      BY <3>1 DEF TraceTypes
    <3>3. [proc[p] EXCEPT !.pc = "run", !.verdict = v] \in Traced
      BY <1>0 DEF Traced, ProcPcs
    <3>4. /\ [proc[p] EXCEPT !.pc = "run", !.verdict = v].target = proc[p].target
          /\ [proc[p] EXCEPT !.pc = "run", !.verdict = v].conn = c
          /\ [proc[p] EXCEPT !.pc = "run", !.verdict = v].pc = "run"
          /\ [proc[p] EXCEPT !.pc = "run", !.verdict = v].map = proc[p].map
      BY <1>0 DEF Traced
    <3> QED BY <2>2, <3>2, <3>3, <3>4
  <2> QED BY <1>0, <2>1, <2>2
<1>3. proc'[p] = r
  BY <1>2 DEF TraceTypes
<1>4. (Talking(p) => Talks(p))'
  <2> SUFFICES ASSUME Talking(p)' PROVE Talks(p)'
    OBVIOUS
  <2>1. Talking(p) /\ Talks(p)
    BY <1>0, <1>2, <1>3, <1>u DEF Talking, AllTalk
  <2>2. conn[c].ans # <<>>
    BY <1>0, <2>1 DEF Talks, Tr!Answer
  <2>3. conn[c].reqs = <<>> /\ Len(conn[c].ans) = 1
    BY <1>0, <2>1, <2>2 DEF Talks, MapAsked, DepAsked
  <2>4. conn'[c].ans = <<>> /\ conn'[c].reqs = <<>>
    BY <1>1, <1>a, <2>2, <2>3, OneAnswer
  <2>5. r.map = IF proc[p].pc = "askmap" THEN conn[c].ans[1] ELSE proc[p].map
    BY <1>2, <1>a, <2>2, <2>3, OneAnswer
  <2>6. Tr!Target.fence => r.map = "fenced"
    BY <1>0, <2>1, <2>2, <2>5 DEF Talks, MapAsked
  <2>7. Violations(<<>>)
    BY DEF Violations
  <2>8. conn[c].state \in {"pending", "open"}
    BY <2>1 DEF Talks
  <2> HIDE DEF TraceInv, c
  <2> QED BY <1>0, <1>1, <1>2, <1>3, <1>u, <2>4, <2>6, <2>7, <2>8 DEF Talks, Tr!Target
<1>5. conn[c].state # "unused" /\ r.pc # "forked" /\ proc[p].pc # "forked"
  BY <1>0, <1>2 DEF Connected
<1>6. \A d \in Conns :
        \/ conn'[d] = conn[d]
        \/ /\ d = r.conn /\ r.pc # "forked"
           /\ conn'[d].state = IF conn[d].state = "unused" THEN "pending" ELSE conn[d].state
           /\ conn[d].reqs # <<>> => conn'[d].reqs # <<>>
  BY <1>1, <1>2, <1>5
<1> HIDE DEF TraceInv
<1> QED BY <1>0, <1>1, <1>2, <1>4, <1>5, <1>6, <1>t, <1>u, ProcessGoesOn

\* A process that asks sends one request more.
LEMMA RequestSent ==
    ASSUME TraceInv, NEW p \in Tracees, proc[p].conn \in Conns,
           NEW kind \in {"dep_check", "sandbox_violation"}, NEW path \in TracedPaths,
           Tr!Sends(p, kind, path)
    PROVE  LET c == proc[p].conn
           IN  /\ conn' \in [Conns -> Channels] /\ \A d \in Conns : d # c => conn'[d] = conn[d]
               /\ conn'[c].state = conn[c].state /\ conn'[c].ans = conn[c].ans
               /\ conn'[c].reqs = Append(conn[c].reqs, [kind |-> kind, path |-> path, by |-> p])
               /\ Len(conn'[c].reqs) = Len(conn[c].reqs) + 1 /\ Len(conn[c].reqs) \in Nat
               /\ \A i \in 1 .. Len(conn[c].reqs) : conn'[c].reqs[i] = conn[c].reqs[i]
               /\ conn'[c].reqs[Len(conn[c].reqs) + 1].kind = kind
               /\ conn'[c].reqs[Len(conn[c].reqs) + 1].path = path
<1> DEFINE c == proc[p].conn
<1> DEFINE r == [kind |-> kind, path |-> path, by |-> p]
<1>1. conn \in [Conns -> Channels]
  BY DEF TraceInv, TraceTypes
<1>2. conn[c].reqs \in Seq(Requests) /\ conn[c].ans \in Seq(Answers)
  BY <1>1, ChannelFields
<1>3. r \in Requests /\ r.kind = kind /\ r.path = path
  BY DEF Requests
<1> HIDE DEF r
<1>4. /\ Append(conn[c].reqs, r) \in Seq(Requests)
      /\ Len(Append(conn[c].reqs, r)) = Len(conn[c].reqs) + 1 /\ Len(conn[c].reqs) \in Nat
      /\ \A i \in 1 .. Len(conn[c].reqs) : Append(conn[c].reqs, r)[i] = conn[c].reqs[i]
      /\ Append(conn[c].reqs, r)[Len(conn[c].reqs) + 1] = r
  <2>1. PICK s \in Seq(Requests) : s = conn[c].reqs
    BY <1>2
  <2>2. /\ Append(s, r) \in Seq(Requests) /\ Len(Append(s, r)) = Len(s) + 1
        /\ \A i \in 1 .. Len(s) : Append(s, r)[i] = s[i]
        /\ Append(s, r)[Len(s) + 1] = r
    BY ONLY <1>3, s \in Seq(Requests), AppendProperties
  <2>3. Len(s) \in Nat
    BY ONLY s \in Seq(Requests)
  <2> QED BY ONLY <2>1, <2>2, <2>3
<1>5. conn' = [conn EXCEPT ![c] = [conn[c] EXCEPT !.reqs = Append(conn[c].reqs, r)]]
  BY <1>1 DEF Tr!Sends, r
<1>6. /\ [conn[c] EXCEPT !.reqs = Append(conn[c].reqs, r)] \in Channels
      /\ [conn[c] EXCEPT !.reqs = Append(conn[c].reqs, r)].reqs = Append(conn[c].reqs, r)
      /\ [conn[c] EXCEPT !.reqs = Append(conn[c].reqs, r)].state = conn[c].state
      /\ [conn[c] EXCEPT !.reqs = Append(conn[c].reqs, r)].ans = conn[c].ans
  BY <1>1, <1>4 DEF Channels
<1>7. /\ conn' \in [Conns -> Channels] /\ \A d \in Conns : d # c => conn'[d] = conn[d]
      /\ conn'[c].state = conn[c].state /\ conn'[c].ans = conn[c].ans
      /\ conn'[c].reqs = Append(conn[c].reqs, r)
  BY <1>1, <1>5, <1>6
<1> QED BY <1>3, <1>4, <1>7 DEF r

LEMMA Trace_JudgeAgain == ASSUME TraceInv, NEW p \in Tracees, Tr!JudgeAgain(p) PROVE TraceInv'
<1> USE DEF TraceInv
<1> DEFINE c == proc[p].conn
<1>0. /\ proc[p] \in Traced /\ proc[p].pc = "judge" /\ c \in Conns /\ c # NoConn
      /\ main.target \in Nat /\ proc[p].path \in TracedPaths
  BY DEF TraceTypes, Tr!JudgeAgain, Connected, Traced
<1>u. UNCHANGED <<lib, main, slave, plan>> /\ conn \in [Conns -> Channels]
  BY DEF Tr!JudgeAgain, TraceTypes
<1>t. /\ proc[p].target <= main.target
      /\ main.pc \in {"prepare", "deps"} => proc[p].target < main.target
  BY DEF TargetsOf
<1>n. conn[c].state # "unused"
  BY <1>0 DEF Connected
<1>v. ASSUME NEW v \in {"allowed", "refused"},
             proc' = [proc EXCEPT ![p].pc = "run", ![p].verdict = v, ![p].map = proc[p].map],
             \/ conn' = conn
             \/ Tr!Sends(p, "sandbox_violation", proc[p].path)
      PROVE  TraceInv'
  <2> DEFINE r == [proc[p] EXCEPT !.pc = "run", !.verdict = v, !.map = proc[p].map]
  <2>1. proc' = [proc EXCEPT ![p] = r]
    BY <1>v DEF TraceTypes
  <2>2. /\ r \in Traced /\ r.target = proc[p].target /\ r.conn = c /\ r.pc = "run"
        /\ r.map = proc[p].map
    BY <1>0 DEF Traced, ProcPcs
  <2>3. proc'[p] = r
    BY <2>1, <2>2 DEF TraceTypes
  <2>4. /\ conn' \in [Conns -> Channels] /\ \A d \in Conns : d # c => conn'[d] = conn[d]
        /\ conn'[c].state = conn[c].state /\ conn'[c].ans = conn[c].ans
        /\ conn[c].reqs # <<>> => conn'[c].reqs # <<>>
        /\ Violations(conn[c].reqs) => Violations(conn'[c].reqs)
    <3>1. CASE conn' = conn
      BY <1>u, <3>1
    <3>2. CASE Tr!Sends(p, "sandbox_violation", proc[p].path)
      <4>1. /\ conn' \in [Conns -> Channels] /\ \A d \in Conns : d # c => conn'[d] = conn[d]
            /\ conn'[c].state = conn[c].state /\ conn'[c].ans = conn[c].ans
            /\ Len(conn'[c].reqs) = Len(conn[c].reqs) + 1 /\ Len(conn[c].reqs) \in Nat
            /\ \A i \in 1 .. Len(conn[c].reqs) : conn'[c].reqs[i] = conn[c].reqs[i]
            /\ conn'[c].reqs[Len(conn[c].reqs) + 1].kind = "sandbox_violation"
        BY <1>0, <3>2, RequestSent
      <4>2. conn'[c].reqs # <<>>
        <5>1. Len(<<>>) = 0
          OBVIOUS
        <5> QED BY <4>1, <5>1
      <4>3. ASSUME Violations(conn[c].reqs) PROVE Violations(conn'[c].reqs)
        <5>1. \A i \in 1 .. Len(conn[c].reqs) : conn[c].reqs[i].kind = "sandbox_violation"
          BY <4>3 DEF Violations
        <5>2. ASSUME NEW i \in 1 .. Len(conn[c].reqs) + 1
              PROVE  conn'[c].reqs[i].kind = "sandbox_violation"
          <6> HIDE DEF TraceInv, c
          <6>1. CASE i = Len(conn[c].reqs) + 1
            BY <4>1, <6>1
          <6>2. CASE i \in 1 .. Len(conn[c].reqs)
            BY <4>1, <5>1, <6>2
          <6>3. i = Len(conn[c].reqs) + 1 \/ i \in 1 .. Len(conn[c].reqs)
            BY ONLY <4>1, i \in 1 .. Len(conn[c].reqs) + 1
          <6> QED BY <6>1, <6>2, <6>3
        <5> QED BY <4>1, <5>2 DEF Violations
      <4> QED BY <4>1, <4>2, <4>3
    <3> QED BY <1>v, <3>1, <3>2
  <2>5. (Talking(p) => Talks(p))'
    <3> SUFFICES ASSUME Talking(p)' PROVE Talks(p)'
      OBVIOUS
    <3>1. Talking(p) /\ Talks(p)
      BY <1>0, <2>2, <2>3, <1>u DEF Talking, AllTalk
    <3> HIDE DEF TraceInv, r, c
    <3> QED BY <1>0, <1>u, <2>2, <2>3, <2>4, <3>1 DEF Talks, Tr!Target, c
  <2> HIDE DEF TraceInv, r
  <2> QED BY <1>0, <1>n, <1>t, <1>u, <2>1, <2>2, <2>4, <2>5, ProcessGoesOn
<1>d. ASSUME proc' = [proc EXCEPT ![p].pc = "askdep", ![p].map = proc[p].map],
             Tr!Sends(p, "dep_check", proc[p].path)
      PROVE  TraceInv'
  <2> DEFINE r == [proc[p] EXCEPT !.pc = "askdep", !.map = proc[p].map]
  <2>1. proc' = [proc EXCEPT ![p] = r]
    BY <1>d DEF TraceTypes
  <2>2. /\ r \in Traced /\ r.target = proc[p].target /\ r.conn = c /\ r.pc = "askdep"
        /\ r.map = proc[p].map /\ r.path = proc[p].path
    BY <1>0 DEF Traced, ProcPcs
  <2>3. proc'[p] = r
    BY <2>1, <2>2 DEF TraceTypes
  <2>4. /\ conn' \in [Conns -> Channels] /\ \A d \in Conns : d # c => conn'[d] = conn[d]
        /\ conn'[c].state = conn[c].state /\ conn'[c].ans = conn[c].ans
        /\ Len(conn'[c].reqs) = Len(conn[c].reqs) + 1 /\ Len(conn[c].reqs) \in Nat
        /\ \A i \in 1 .. Len(conn[c].reqs) : conn'[c].reqs[i] = conn[c].reqs[i]
        /\ conn'[c].reqs[Len(conn[c].reqs) + 1].kind = "dep_check"
        /\ conn'[c].reqs[Len(conn[c].reqs) + 1].path = proc[p].path
    BY <1>0, <1>d, RequestSent
  <2>5. conn'[c].reqs # <<>>
    <3>1. Len(<<>>) = 0
      OBVIOUS
    <3>2. PICK s, k : s = conn'[c].reqs /\ k = Len(conn[c].reqs)
      OBVIOUS
    <3>3. k \in Nat /\ Len(s) = k + 1
      BY <2>4, <3>2
    <3>4. s # <<>>
      BY ONLY <3>1, <3>3
    <3> QED BY <3>2, <3>4
  <2>6. (Talking(p) => Talks(p))'
    <3> SUFFICES ASSUME Talking(p)' PROVE Talks(p)'
      OBVIOUS
    <3>1. Talking(p) /\ Talks(p)
      BY <1>0, <2>2, <2>3, <1>u DEF Talking, AllTalk
    <3>2. conn[c].ans = <<>> /\ Violations(conn[c].reqs)
      BY <1>0, <3>1 DEF Talks
    <3>3. DepAsked(p, conn[c])'
      <4> HIDE DEF TraceInv, r, c
      <4>1. proc'[p].path = proc[p].path /\ proc'[p].conn = c
        BY <2>2, <2>3
      <4>2. c' = proc'[p].conn
        BY DEF c
      <4>3. /\ conn'[c].ans = <<>> /\ Len(conn'[c].reqs) > 0
            /\ conn'[c].reqs[Len(conn'[c].reqs)].kind = "dep_check"
            /\ conn'[c].reqs[Len(conn'[c].reqs)].path = proc[p].path
        BY ONLY <2>4, <3>2
      <4>4. \A i \in 1 .. Len(conn'[c].reqs) - 1 : conn'[c].reqs[i].kind = "sandbox_violation"
        <5>1. Len(conn'[c].reqs) - 1 = Len(conn[c].reqs)
          BY ONLY <2>4
        <5> QED BY ONLY <2>4, <3>2, <5>1 DEF Violations
      <4> QED BY ONLY <4>1, <4>2, <4>3, <4>4 DEF DepAsked
    <3>4. conn[c].state \in {"pending", "open"} /\ (Tr!Target.fence => proc[p].map = "fenced")
      BY <1>0, <3>1 DEF Talks
    <3> HIDE DEF TraceInv, r
    <3> QED BY <1>u, <2>2, <2>3, <2>4, <3>3, <3>4 DEF Talks, Tr!Target
  <2> HIDE DEF TraceInv, r
  <2> QED BY <1>0, <1>n, <1>t, <1>u, <2>1, <2>2, <2>4, <2>5, <2>6, ProcessGoesOn
<1> QED BY <1>v, <1>d DEF Tr!JudgeAgain, Tr!Judge, Tr!Verdict

\* The main thread and the slave move on, and leave the connections alone.
LEMMA ConnectionsStay ==
    ASSUME TraceInv, UNCHANGED <<conn, proc>>, slave'.ready = slave.ready, TraceTypes'
    PROVE  Connected' /\ ReadyIsOpen'
<1>1. Connected'
  BY DEF TraceInv, Connected
<1>2. ReadyIsOpen'
  BY DEF TraceInv, ReadyIsOpen
<1> QED BY <1>1, <1>2

\* The actions of the main thread.
LEMMA Trace_Start == ASSUME TraceInv, Tr!Start PROVE TraceInv'
<1> USE DEF TraceInv
<1>0. /\ plan \in TracePlans /\ main.target \in Nat /\ main.target + 1 \in DOMAIN plan.targets
      /\ main.pc = "idle" /\ main.target < Len(plan.targets)
      /\ lib = Tr!NoLib /\ slave.pc = "none" /\ UNCHANGED <<plan, conn, proc>>
  <2>1. main.target \in Nat /\ main.target < Len(plan.targets) /\ plan \in TracePlans
    BY DEF TraceTypes, Tr!Start
  <2>2. plan.targets \in Seq([fence : BOOLEAN, deps : SUBSET Tr!Paths, fails : BOOLEAN])
    BY <2>1, TraceAssumption DEF Tr!TraceAssumption
  <2>3. DOMAIN plan.targets = 1 .. Len(plan.targets) /\ Len(plan.targets) \in Nat
    BY <2>2
  <2> QED BY <2>1, <2>3 DEF Tr!Start, Stages
<1>1. main' \in [pc : {"close", "prepare"}, target : {main.target + 1}]
  BY DEF Tr!Start
<1>2. \/ lib' = lib /\ slave' = slave /\ main'.pc = "close"
         /\ plan.targets[main.target + 1].fails
      \/ /\ lib' = [lib EXCEPT !.sock = TRUE] /\ slave' = [slave EXCEPT !.pc = "loop"]
         /\ main'.pc = "prepare"
  BY <1>0 DEF Tr!Start, Tr!NoLib
<1>3. main'.target = main.target + 1 /\ main'.pc \in {"close", "prepare"}
  BY <1>1
<1>4. TraceTypes'
  <2>1. main' \in [pc : MainPcs, target : Nat]
    BY <1>0, <1>1 DEF MainPcs
  <2>2. slave' \in [pc : SlavePcs, ready : SUBSET Conns, listen : BOOLEAN]
    BY <1>2 DEF TraceTypes, SlavePcs
  <2>3. /\ lib'.sock \in BOOLEAN /\ lib'.cleanup \in BOOLEAN /\ lib'.fence \in BOOLEAN
        /\ lib'.map \in Maps
        /\ lib' = [sock |-> lib'.sock, cleanup |-> lib'.cleanup, fence |-> lib'.fence,
                   deps |-> lib'.deps, map |-> lib'.map]
    <3>1. CASE lib' = lib
      BY <3>1 DEF TraceTypes
    <3>2. CASE lib' = [lib EXCEPT !.sock = TRUE]
      BY <3>2 DEF TraceTypes
    <3> QED BY <1>2, <3>1, <3>2
  <2> QED BY <1>0, <2>1, <2>2, <2>3 DEF TraceTypes
<1>5. Stages'
  <2>1. CASE main'.pc = "close"
    <3>1. slave' = slave /\ plan.targets[main.target + 1].fails
      BY <1>2, <2>1
    <3>2. ~(main.target + 1 < Len(plan.targets))
      BY <1>0, <3>1, TraceLimits DEF Tr!WithinLimits
    <3> QED BY <1>0, <1>3, <2>1, <3>1, <3>2 DEF Stages
  <2>2. CASE main'.pc = "prepare"
    <3>1. lib'.sock /\ ~lib'.cleanup /\ slave'.pc = "loop"
      BY <1>0, <1>2, <2>2 DEF Tr!NoLib, TraceTypes
    <3> QED BY <2>2, <3>1 DEF Stages
  <2> QED BY <1>3, <2>1, <2>2
<1>6. FenceIsUp' /\ AllTalk'
  BY <1>3 DEF FenceIsUp, AllTalk, Talking
<1>7. TargetsOf'
  <2> SUFFICES ASSUME NEW p \in Tracees
               PROVE  proc'[p].target < main'.target
    <3>1. \A p \in Tracees : proc[p].target \in Nat
      BY DEF TraceTypes, Traced
    <3>2. \A p \in Tracees : proc'[p].target < main'.target => proc'[p].target <= main'.target
      BY <1>0, <1>3, <3>1
    <3> QED BY <3>2 DEF TargetsOf
  <2>1. proc[p].target <= main.target /\ proc[p].target \in Nat
    BY DEF TargetsOf, TraceTypes, Traced
  <2> QED BY <1>0, <1>3, <2>1
<1>8. slave'.ready = slave.ready
  BY <1>2 DEF TraceTypes
<1> QED BY <1>0, <1>4, <1>5, <1>6, <1>7, <1>8, ConnectionsStay

LEMMA Trace_Main ==
    ASSUME TraceInv, Tr!EnableFence \/ Tr!SetDeps \/ Tr!CloseFlag \/ Tr!Check \/ Tr!Clean
    PROVE  TraceInv'
<1> USE DEF TraceInv, Tr!EnableFence, Tr!SetDeps, Tr!CloseFlag, Tr!Check, Tr!Clean, Tr!MainAt,
            Tr!TargetEnds, Tr!NoLib
<1>0. UNCHANGED <<plan, conn, proc>>
  OBVIOUS
<1>1. main' \in [pc : MainPcs, target : Nat] /\ main'.target = main.target
  BY DEF TraceTypes, MainPcs
<1>2. slave' \in [pc : SlavePcs, ready : SUBSET Conns, listen : BOOLEAN] /\ slave'.ready = slave.ready
  BY DEF TraceTypes, SlavePcs
<1>l. /\ lib'.sock \in BOOLEAN /\ lib'.cleanup \in BOOLEAN /\ lib'.fence \in BOOLEAN
      /\ lib'.map \in Maps
      /\ lib' = [sock |-> lib'.sock, cleanup |-> lib'.cleanup, fence |-> lib'.fence,
                 deps |-> lib'.deps, map |-> lib'.map]
  <2>1. CASE Tr!EnableFence
    <3>1. CASE lib' = [lib EXCEPT !.fence = TRUE, !.map = "none"]
      BY <3>1 DEF TraceTypes, Maps
    <3>2. CASE lib' = lib
      BY <3>2 DEF TraceTypes
    <3> QED BY <2>1, <3>1, <3>2
  <2>2. CASE Tr!SetDeps
    BY <2>2 DEF TraceTypes
  <2>3. CASE Tr!CloseFlag
    BY <2>3 DEF TraceTypes
  <2>4. CASE Tr!Check
    BY <2>4 DEF TraceTypes
  <2>5. CASE Tr!Clean
    BY <2>5 DEF TraceTypes, Maps
  <2> QED BY <2>1, <2>2, <2>3, <2>4, <2>5
<1>3. TraceTypes'
  BY <1>0, <1>1, <1>2, <1>l DEF TraceTypes
<1>4. Stages'
  BY DEF TraceTypes, Stages, MainPcs
<1>5. FenceIsUp'
  BY DEF TraceTypes, FenceIsUp, Tr!Target
<1>6. TargetsOf'
  BY <1>1 DEF TraceTypes, TargetsOf, MainPcs
<1>7. AllTalk'
  <2>1. CASE main'.pc # "target"
    BY <2>1 DEF AllTalk, Talking
  <2>2. CASE main'.pc = "target"
    <3>1. main.pc = "deps"
      BY <2>2 DEF TraceTypes
    <3>2. \A p \in Tracees : proc[p].target < main.target
      BY <3>1 DEF TargetsOf
    <3>3. ASSUME NEW p \in Tracees PROVE proc'[p].target # main'.target
      <4>1. proc[p].target \in Nat /\ main.target \in Nat
        BY DEF TraceTypes, Traced
      <4> HIDE DEF TraceInv
      <4> QED BY ONLY <1>0, <1>1, <3>2, <4>1
    <3>4. \A p \in Tracees : ~Talking(p)'
      BY <3>3 DEF Talking
    <3> QED BY <3>4 DEF AllTalk
  <2> QED BY <2>1, <2>2
<1> QED BY <1>0, <1>2, <1>3, <1>4, <1>5, <1>6, <1>7, ConnectionsStay

LEMMA Trace_CloseSocket == ASSUME TraceInv, Tr!CloseSocket PROVE TraceInv'
<1> USE DEF TraceInv, Tr!CloseSocket, Tr!MainAt
<1>0. UNCHANGED <<plan, slave, proc>> /\ main.pc = "closing"
  OBVIOUS
<1>1. main' \in [pc : MainPcs, target : Nat] /\ main'.target = main.target /\ main'.pc = "check"
  BY DEF TraceTypes, MainPcs
<1>2. Tr!Closed \in Channels /\ Tr!Closed.state = "closed"
  BY DEF Channels, Tr!Closed
<1>3. /\ conn' \in [Conns -> Channels]
      /\ \A c \in Conns : conn'[c] = conn[c] \/ (conn[c].state = "pending" /\ conn'[c].state = "closed")
  BY <1>2 DEF TraceTypes
<1>4. TraceTypes'
  BY <1>0, <1>1, <1>3 DEF TraceTypes
<1>5. Stages'
  BY DEF TraceTypes, Stages
<1>6. FenceIsUp' /\ AllTalk'
  BY <1>1 DEF FenceIsUp, AllTalk, Talking
<1>7. TargetsOf'
  BY <1>0, <1>1 DEF TargetsOf
<1>8. Connected'
  <2>1. \A c \in Conns : conn'[c].state = "unused" => conn[c].state = "unused"
    BY <1>3
  <2> QED BY <1>0, <2>1 DEF Connected
<1>9. ReadyIsOpen'
  <2>1. \A c \in slave.ready : c \in Conns /\ conn'[c] = conn[c]
    BY <1>3 DEF ReadyIsOpen, TraceTypes
  <2> QED BY <1>0, <2>1 DEF ReadyIsOpen
<1> QED BY <1>4, <1>5, <1>6, <1>7, <1>8, <1>9

\* The actions of the slave.
LEMMA Trace_Loop == ASSUME TraceInv, Tr!Loop PROVE TraceInv'
<1> USE DEF TraceInv, Tr!Loop, Tr!SlaveAt
<1>0. UNCHANGED <<lib, main, plan, conn, proc>>
  OBVIOUS
<1>1. slave' \in [pc : SlavePcs, ready : SUBSET Conns, listen : BOOLEAN] /\ slave'.ready = slave.ready
  BY DEF TraceTypes, SlavePcs
<1>2. TraceTypes'
  BY <1>0, <1>1 DEF TraceTypes
<1>3. Stages'
  BY DEF TraceTypes, Stages
<1>4. FenceIsUp' /\ TargetsOf' /\ AllTalk'
  <2>1. FenceIsUp'
    BY <1>0 DEF FenceIsUp, Tr!Target
  <2>2. TargetsOf'
    BY <1>0 DEF TargetsOf
  <2>3. AllTalk
    OBVIOUS
  <2>4. AllTalk'
    BY ONLY ZenonT(60), <1>0, <2>3 DEF AllTalk, Talking, Talks, MapAsked, DepAsked, Tr!Target
  <2> QED BY ONLY <2>1, <2>2, <2>4
<1> QED BY <1>0, <1>1, <1>2, <1>3, <1>4, ConnectionsStay

LEMMA Trace_Select == ASSUME TraceInv, Tr!Select PROVE TraceInv'
<1> USE DEF TraceInv
<1>0. UNCHANGED <<lib, main, plan, conn, proc>>
  BY DEF Tr!Select
<1>1. \/ slave' = [slave EXCEPT !.pc = "loop"]
      \/ slave' = [pc |-> "accept", ready |-> {c \in Tr!Open : Tr!Readable(c)},
                   listen |-> Tr!Pending # {}]
  BY DEF Tr!Select, Tr!SlaveAt
<1>2. slave' \in [pc : SlavePcs, ready : SUBSET Conns, listen : BOOLEAN]
  <2>1. ASSUME NEW ready \in SUBSET Conns, NEW listen \in BOOLEAN
        PROVE  [pc |-> "accept", ready |-> ready, listen |-> listen]
                 \in [pc : SlavePcs, ready : SUBSET Conns, listen : BOOLEAN]
    BY DEF SlavePcs
  <2>2. {c \in Tr!Open : Tr!Readable(c)} \in SUBSET Conns /\ (Tr!Pending # {}) \in BOOLEAN
    BY DEF Tr!Open
  <2>3. CASE slave' = [slave EXCEPT !.pc = "loop"]
    BY <2>3 DEF TraceTypes, SlavePcs
  <2>4. CASE slave' = [pc |-> "accept", ready |-> {c \in Tr!Open : Tr!Readable(c)},
                      listen |-> Tr!Pending # {}]
    BY <2>1, <2>2, <2>4, Zenon
  <2> QED BY <1>1, <2>3, <2>4
<1>3. TraceTypes'
  BY <1>0, <1>2 DEF TraceTypes
<1>4. Stages'
  <2>1. slave.pc = "select" /\ slave'.pc \in {"loop", "accept"}
    BY <1>1 DEF TraceTypes, Tr!Select
  <2> QED BY <1>0, <2>1 DEF Stages
<1>5. FenceIsUp' /\ TargetsOf' /\ AllTalk'
  BY ZenonT(60), <1>0 DEF FenceIsUp, TargetsOf, AllTalk, Talking, Talks, MapAsked, DepAsked, Tr!Target
<1>6. Connected'
  BY <1>0 DEF Connected
<1>7. ReadyIsOpen'
  <2>1. slave'.ready = slave.ready \/ slave'.ready = {c \in Tr!Open : Tr!Readable(c)}
    BY <1>1 DEF TraceTypes
  <2> QED BY <1>0, <2>1 DEF ReadyIsOpen, Tr!Open, Tr!Readable, Tr!Users
<1> QED BY <1>3, <1>4, <1>5, <1>6, <1>7

LEMMA Trace_End == ASSUME TraceInv, Tr!End PROVE TraceInv'
<1> USE DEF TraceInv
<1>0. UNCHANGED <<lib, main, plan, proc>> /\ slave.pc = "end"
  BY DEF Tr!End
<1>1. slave' = [pc |-> "done", ready |-> {}, listen |-> FALSE]
  BY DEF Tr!End
<1>2. conn' \in [Conns -> Channels]
      /\ \A c \in Conns : conn'[c] = conn[c] \/ conn'[c].state = "closed"
  <2>1. ASSUME NEW ch \in Channels
        PROVE  /\ [ch EXCEPT !.state = "closed", !.reqs = <<>>] \in Channels
               /\ [ch EXCEPT !.state = "closed", !.reqs = <<>>].state = "closed"
    <3>1. ASSUME NEW none \in Seq(Requests)
          PROVE  /\ [ch EXCEPT !.state = "closed", !.reqs = none] \in Channels
                 /\ [ch EXCEPT !.state = "closed", !.reqs = none].state = "closed"
      BY DEF Channels
    <3>2. <<>> \in Seq(Requests)
      OBVIOUS
    <3> QED BY <3>1, <3>2
  <2> QED BY <2>1 DEF Tr!End, TraceTypes
<1>3. TraceTypes'
  BY <1>0, <1>1, <1>2 DEF TraceTypes, SlavePcs
<1>4. Stages' /\ main.pc \notin {"prepare", "deps", "target"}
  BY <1>0, <1>1 DEF Stages
<1>5. FenceIsUp' /\ TargetsOf' /\ AllTalk'
  BY <1>0, <1>4 DEF FenceIsUp, TargetsOf, AllTalk, Talking
<1>6. Connected'
  <2>1. \A c \in Conns : conn'[c].state = "unused" => conn[c].state = "unused"
    BY <1>2
  <2> QED BY <1>0, <2>1 DEF Connected
<1>7. ReadyIsOpen'
  BY <1>1 DEF ReadyIsOpen
<1> QED BY <1>3, <1>4, <1>5, <1>6, <1>7

\* There is a place for every connection that is accepted.
LEMMA PlaceForEach ==
    ASSUME NEW c \in Conns, conn[c].state = "pending" PROVE Tr!Cardinality(Tr!Open) < Slots
<1>1. Tr!Open \in SUBSET Conns /\ Tr!Open # Conns
  BY DEF Tr!Open
<1> QED BY <1>1, TraceLimits DEF Tr!WithinLimits

LEMMA Trace_Accept == ASSUME TraceInv, Tr!Accept PROVE TraceInv'
<1> USE DEF TraceInv
<1>0. UNCHANGED <<lib, main, plan, proc>> /\ slave.pc = "accept"
  BY DEF Tr!Accept
<1>1. /\ slave' \in [pc : SlavePcs, ready : SUBSET Conns, listen : BOOLEAN]
      /\ slave'.ready = slave.ready
      /\ slave'.pc = IF lib.sock THEN "serve" ELSE "end"
  BY DEF Tr!Accept, Tr!SlaveAt, TraceTypes, SlavePcs
<1>2. /\ conn' \in [Conns -> Channels]
      /\ \A c \in Conns :
            \/ conn'[c] = conn[c]
            \/ /\ conn[c].state = "pending" /\ conn'[c].state = "open"
               /\ conn'[c].reqs = conn[c].reqs /\ conn'[c].ans = conn[c].ans
  <2>1. CASE conn' = conn
    BY <2>1 DEF TraceTypes
  <2>2. ASSUME NEW c \in Tr!Pending, conn' = [conn EXCEPT ![c].state = "open"]
        PROVE  /\ conn' \in [Conns -> Channels]
               /\ \A d \in Conns :
                    \/ conn'[d] = conn[d]
                    \/ /\ conn[d].state = "pending" /\ conn'[d].state = "open"
                       /\ conn'[d].reqs = conn[d].reqs /\ conn'[d].ans = conn[d].ans
    <3>1. c \in Conns /\ conn[c].state = "pending" /\ conn[c] \in Channels
      BY <2>2 DEF Tr!Pending, TraceTypes
    <3>2. conn' = [conn EXCEPT ![c] = [conn[c] EXCEPT !.state = "open"]]
      BY <2>2, <3>1 DEF TraceTypes
    <3>3. /\ [conn[c] EXCEPT !.state = "open"] \in Channels
          /\ [conn[c] EXCEPT !.state = "open"].state = "open"
          /\ [conn[c] EXCEPT !.state = "open"].reqs = conn[c].reqs
          /\ [conn[c] EXCEPT !.state = "open"].ans = conn[c].ans
      BY <3>1 DEF Channels
    <3> QED BY <3>1, <3>2, <3>3 DEF TraceTypes
  <2>3. \A c \in Tr!Pending : Tr!Cardinality(Tr!Open) < Slots
    BY PlaceForEach DEF Tr!Pending
  <2>4. conn' = conn \/ \E c \in Tr!Pending : conn' = [conn EXCEPT ![c].state = "open"]
    BY <2>3 DEF Tr!Accept
  <2> QED BY <2>1, <2>2, <2>4
<1>3. TraceTypes'
  BY <1>0, <1>1, <1>2 DEF TraceTypes
<1>4. Stages'
  BY <1>0, <1>1 DEF Stages, TraceTypes
<1>5. FenceIsUp' /\ TargetsOf'
  BY <1>0 DEF FenceIsUp, TargetsOf, Tr!Target
<1>6. Connected'
  <2>1. \A c \in Conns : conn'[c].state = "unused" => conn[c].state = "unused"
    BY <1>2
  <2> QED BY <1>0, <2>1 DEF Connected
<1>7. ReadyIsOpen'
  <2>1. \A c \in slave.ready : c \in Conns /\ conn'[c] = conn[c]
    BY <1>2 DEF ReadyIsOpen, TraceTypes
  <2> QED BY <1>0, <1>1, <2>1 DEF ReadyIsOpen
<1>8. AllTalk'
  <2> SUFFICES ASSUME NEW p \in Tracees, Talking(p)' PROVE Talks(p)'
    BY DEF AllTalk
  <2>1. Talking(p) /\ Talks(p) /\ proc[p].conn \in Conns
    BY <1>0 DEF Talking, AllTalk, TraceTypes, Traced
  <2>2. /\ conn'[proc[p].conn].state \in {conn[proc[p].conn].state, "open"}
        /\ conn'[proc[p].conn].reqs = conn[proc[p].conn].reqs
        /\ conn'[proc[p].conn].ans = conn[proc[p].conn].ans
    BY <1>2, <2>1
  <2> HIDE DEF TraceInv
  <2> QED BY ONLY ZenonT(60), <1>0, <2>1, <2>2 DEF Talks, MapAsked, DepAsked, Violations, Tr!Target
<1> QED BY <1>3, <1>4, <1>5, <1>6, <1>7, <1>8

\* What is left of a queue when the first of it has been taken.
LEMMA TailOf ==
    ASSUME NEW s \in Seq(Requests), s # <<>>
    PROVE  /\ Tail(s) \in Seq(Requests) /\ Len(Tail(s)) = Len(s) - 1 /\ Len(s) \in Nat \ {0}
           /\ Head(s) = s[1] /\ s[1] \in Requests
           /\ \A i \in 1 .. Len(s) - 1 : Tail(s)[i] = s[i + 1]
           /\ Len(s) = 1 => Tail(s) = <<>>
           /\ Len(s) > 1 => Tail(s) # <<>>
<1>1. /\ Tail(s) \in Seq(Requests) /\ Len(Tail(s)) = Len(s) - 1
      /\ \A i \in 1 .. Len(Tail(s)) : Tail(s)[i] = s[i + 1]
      /\ Head(s) \in Requests
  BY HeadTailProperties
<1>2. Len(s) \in Nat \ {0}
  BY EmptySeq
<1>3. Head(s) = s[1]
  OBVIOUS
<1>4. Len(Tail(s)) = 0 <=> Tail(s) = <<>>
  BY <1>1, EmptySeq
<1> QED BY <1>1, <1>2, <1>3, <1>4

\* An answer after none.
LEMMA FirstAnswer ==
    ASSUME NEW s \in Seq(Answers), NEW a \in Answers
    PROVE  /\ Append(s, a) \in Seq(Answers)
           /\ s = <<>> => Len(Append(s, a)) = 1 /\ Append(s, a)[1] = a
<1>1. /\ Append(s, a) \in Seq(Answers) /\ Len(Append(s, a)) = Len(s) + 1
      /\ Append(s, a)[Len(s) + 1] = a
  BY AppendProperties
<1>2. Len(<<>>) = 0
  OBVIOUS
<1> QED BY <1>1, <1>2

\* The slave takes a request off one connection, or closes it.
LEMMA ServiceGoesOn ==
    ASSUME TraceInv, UNCHANGED <<main, plan, proc>>, slave.pc = "serve",
           NEW c \in slave.ready, NEW R \in SUBSET slave.ready, NEW new \in Channels,
           NEW map \in Maps, lib' = [lib EXCEPT !.map = map],
           slave' = [slave EXCEPT !.ready = R], conn' = [conn EXCEPT ![c] = new],
           new.state \in {"open", "closed"},
           c \in R => new.state = "open" /\ new.reqs # <<>>,
           main.pc \in {"deps", "target"} /\ Tr!Target.fence => map \in {"none", "fenced"},
           \A p \in Tracees : Talking(p) /\ proc[p].conn = c => Talks(p)'
    PROVE  TraceInv'
<1> USE DEF TraceInv
<1>0. c \in Conns /\ conn[c].state = "open"
  BY DEF TraceTypes, ReadyIsOpen
<1>1. /\ conn' \in [Conns -> Channels] /\ conn'[c] = new
      /\ \A d \in Conns : d # c => conn'[d] = conn[d]
  BY <1>0 DEF TraceTypes
<1>2. /\ slave' \in [pc : SlavePcs, ready : SUBSET Conns, listen : BOOLEAN]
      /\ slave'.ready = R /\ slave'.pc = "serve"
  BY DEF TraceTypes
<1>3. /\ lib'.sock = lib.sock /\ lib'.cleanup = lib.cleanup /\ lib'.fence = lib.fence
      /\ lib'.deps = lib.deps /\ lib'.map = map
      /\ lib' = [sock |-> lib'.sock, cleanup |-> lib'.cleanup, fence |-> lib'.fence,
                 deps |-> lib'.deps, map |-> lib'.map]
  BY DEF TraceTypes
<1>4. TraceTypes'
  BY <1>1, <1>2, <1>3 DEF TraceTypes
<1>5. Stages'
  BY <1>2, <1>3 DEF Stages
<1>6. FenceIsUp' /\ TargetsOf'
  BY <1>3 DEF FenceIsUp, TargetsOf, Tr!Target
<1>7. Connected'
  <2>1. \A d \in Conns : conn'[d].state = "unused" => conn[d].state = "unused"
    BY <1>1
  <2> QED BY <2>1 DEF Connected
<1>8. ReadyIsOpen'
  <2> SUFFICES ASSUME NEW d \in R
               PROVE  /\ conn'[d].state = "open"
                      /\ \A p \in Tracees : conn'[d].reqs = <<>> => proc[p].conn # d
    BY <1>2 DEF ReadyIsOpen
  <2>1. CASE d = c
    BY <1>1, <2>1
  <2>2. CASE d # c
    <3>1. d \in Conns /\ conn'[d] = conn[d] /\ d \in slave.ready
      BY <1>1, <2>2 DEF TraceTypes
    <3> QED BY <3>1 DEF ReadyIsOpen
  <2> QED BY <2>1, <2>2
<1>9. AllTalk'
  <2> SUFFICES ASSUME NEW p \in Tracees, Talking(p)' PROVE Talks(p)'
    BY DEF AllTalk
  <2>1. Talking(p) /\ Talks(p) /\ proc[p].conn \in Conns
    BY DEF Talking, AllTalk, TraceTypes, Traced
  <2>2. CASE proc[p].conn # c
    <3>1. conn'[proc[p].conn] = conn[proc[p].conn]
      BY <1>1, <2>1, <2>2
    <3>2. UNCHANGED <<main, plan, proc>>
      OBVIOUS
    <3> HIDE DEF TraceInv
    <3> QED BY ONLY ZenonT(60), <2>1, <3>1, <3>2 DEF Talks, MapAsked, DepAsked, Violations, Tr!Target
  <2> QED BY <2>1, <2>2
<1> QED BY <1>4, <1>5, <1>6, <1>7, <1>8, <1>9

LEMMA Trace_Serve == ASSUME TraceInv, NEW c \in Conns, Tr!Serve(c) PROVE TraceInv'
<1> USE DEF TraceInv
<1> DEFINE s == conn[c].reqs
<1> DEFINE R == IF Len(s) <= 1 THEN slave.ready \ {c} ELSE slave.ready
<1>0. /\ c \in slave.ready /\ slave.pc = "serve" /\ UNCHANGED <<main, plan, proc>>
      /\ slave' = [slave EXCEPT !.ready = R]
  BY DEF Tr!Serve
<1>1. /\ conn \in [Conns -> Channels] /\ conn[c] \in Channels /\ conn[c].state = "open"
      /\ s \in Seq(Requests) /\ conn[c].ans \in Seq(Answers)
  <2>1. conn \in [Conns -> Channels] /\ conn[c].state = "open"
    BY <1>0 DEF TraceTypes, ReadyIsOpen
  <2> QED BY <2>1, ChannelFields
<1>2. R \in SUBSET slave.ready /\ (c \in R => ~(Len(s) <= 1))
  OBVIOUS
<1>3. lib.map \in Maps /\ lib = [lib EXCEPT !.map = lib.map]
  BY DEF TraceTypes
<1>4. main.pc \in {"deps", "target"} /\ Tr!Target.fence =>
        lib.map \in {"none", "fenced"} /\ Tr!FileMap = "fenced"
  BY DEF FenceIsUp, Tr!FileMap
<1>5. Tr!FileMap \in Maps \ {"none"}
  BY <1>3 DEF Tr!FileMap, Maps
<1> HIDE DEF R
<1>a. CASE s = <<>> /\ conn' = [conn EXCEPT ![c] = Tr!Closed] /\ lib' = lib
  <2>1. Tr!Closed \in Channels /\ Tr!Closed.state = "closed"
    BY DEF Channels, Tr!Closed
  <2>2. \A p \in Tracees : proc[p].conn # c
    BY <1>a, <1>0 DEF ReadyIsOpen
  <2>3. c \notin R
    <3>1. Len(<<>>) = 0
      OBVIOUS
    <3> QED BY <1>2, <1>a, <3>1
  <2> HIDE DEF TraceInv, s
  <2> QED BY <1>0, <1>2, <1>3, <1>4, <1>a, <2>1, <2>2, <2>3, ServiceGoesOn
<1>b. ASSUME s # <<>>, NEW new \in Channels, NEW map \in Maps,
             conn' = [conn EXCEPT ![c] = new], lib' = [lib EXCEPT !.map = map],
             map \in {lib.map, Tr!FileMap},
             new.state = "open", new.reqs = Tail(s),
             \A p \in Tracees : Talking(p) /\ proc[p].conn = c => Talks(p)'
      PROVE  TraceInv'
  <2>1. c \in R => new.reqs # <<>>
    <3>1. Len(s) \in Nat /\ (Len(s) > 1 => Tail(s) # <<>>)
      BY <1>1, <1>b, TailOf
    <3> HIDE DEF TraceInv, s
    <3>2. c \in R => Len(s) > 1
      BY <1>2, <3>1
    <3> QED BY <1>b, <3>1, <3>2
  <2>2. main.pc \in {"deps", "target"} /\ Tr!Target.fence => map \in {"none", "fenced"}
    BY <1>4, <1>b
  <2> HIDE DEF TraceInv, s
  <2> QED BY <1>0, <1>2, <1>b, <2>1, <2>2, ServiceGoesOn
<1>c. ASSUME s # <<>>, NEW p \in Tracees, Talking(p), proc[p].conn = c
      PROVE  /\ Talks(p) /\ main.pc = "target" /\ s[1] = Head(s)
             /\ Head(s).kind = "filemap" =>
                    proc[p].pc = "askmap" /\ conn[c].ans = <<>> /\ Tail(s) = <<>>
             /\ Head(s).kind = "dep_check" =>
                    /\ proc[p].pc = "askdep" /\ conn[c].ans = <<>> /\ Tail(s) = <<>>
                    /\ Head(s).path = proc[p].path
             /\ Head(s).kind = "sandbox_violation" =>
                    /\ proc[p].pc # "askmap" /\ conn[c].ans = <<>>
                    /\ proc[p].pc = "askdep" => Len(s) > 1
  <2>1. Talks(p) /\ main.pc = "target"
    BY <1>c DEF AllTalk, Talking
  <2>2. Len(s) \in Nat \ {0} /\ s[1] = Head(s) /\ (Len(s) = 1 => Tail(s) = <<>>)
    BY <1>1, <1>c, TailOf
  <2>3. CASE proc[p].pc = "askmap"
    <3>1. conn[c].ans = <<>> /\ Len(s) = 1 /\ s[1].kind = "filemap"
      BY <1>c, <2>1, <2>3 DEF Talks, MapAsked
    <3> QED BY <2>1, <2>2, <2>3, <3>1
  <2>4. CASE proc[p].pc = "askdep"
    <3>1. DepAsked(p, conn[c])
      BY <1>c, <2>1, <2>4 DEF Talks
    <3> HIDE DEF TraceInv
    <3>2. /\ conn[c].ans = <<>> /\ s[Len(s)].kind = "dep_check" /\ s[Len(s)].path = proc[p].path
          /\ \A i \in 1 .. Len(s) - 1 : s[i].kind = "sandbox_violation"
      BY <1>c, <3>1 DEF DepAsked
    <3> HIDE DEF s
    <3>3. Len(s) # 1 => 1 \in 1 .. Len(s) - 1 /\ Len(s) > 1
      <4> DEFINE n == Len(s)
      <4>1. n \in Nat \ {0}
        BY <2>2
      <4> HIDE DEF n
      <4>2. n # 1 => 1 \in 1 .. n - 1 /\ n > 1
        BY ONLY <4>1
      <4> QED BY <4>2 DEF n
    <3> QED BY <2>1, <2>2, <2>4, <3>2, <3>3
  <2>5. CASE proc[p].pc \notin {"askmap", "askdep"}
    <3>1. conn[c].ans = <<>> /\ Violations(s)
      BY <1>c, <2>1, <2>5 DEF Talks
    <3>2. s[1].kind = "sandbox_violation"
      BY <2>2, <3>1 DEF Violations
    <3> QED BY <2>1, <2>2, <2>5, <3>1, <3>2
  <2> QED BY <2>3, <2>4, <2>5
<1>d. ASSUME s # <<>>, NEW a \in Answers,
             conn' = [conn EXCEPT ![c].reqs = Tail(@), ![c].ans = Append(@, a)]
      PROVE  \E new \in Channels :
                /\ conn' = [conn EXCEPT ![c] = new] /\ conn'[c] = new
                /\ new.state = "open" /\ new.reqs = Tail(s)
                /\ new.ans \in Seq(Answers)
                /\ conn[c].ans = <<>> => Len(new.ans) = 1 /\ new.ans[1] = a
  <2> DEFINE new == [conn[c] EXCEPT !.reqs = Tail(s), !.ans = Append(conn[c].ans, a)]
  <2>1. conn' = [conn EXCEPT ![c] = new]
    BY <1>d, <1>1
  <2>2. Tail(s) \in Seq(Requests)
    BY <1>1, <1>d, TailOf
  <2>3. Append(conn[c].ans, a) \in Seq(Answers)
    BY <1>1, FirstAnswer
  <2>4. /\ new \in Channels /\ new.state = "open" /\ new.reqs = Tail(s)
        /\ new.ans = Append(conn[c].ans, a)
    <3>1. ASSUME NEW rq \in Seq(Requests), NEW an \in Seq(Answers)
          PROVE  /\ [conn[c] EXCEPT !.reqs = rq, !.ans = an] \in Channels
                 /\ [conn[c] EXCEPT !.reqs = rq, !.ans = an].state = "open"
                 /\ [conn[c] EXCEPT !.reqs = rq, !.ans = an].reqs = rq
                 /\ [conn[c] EXCEPT !.reqs = rq, !.ans = an].ans = an
      BY <1>1 DEF Channels
    <3> QED BY ZenonT(60), <2>2, <2>3, <3>1
  <2> HIDE DEF new
  <2>5. conn'[c] = new
    BY <1>1, <2>1
  <2>6. conn[c].ans = <<>> => Len(new.ans) = 1 /\ new.ans[1] = a
    BY <1>1, <2>4, FirstAnswer
  <2> QED BY <2>1, <2>3, <2>4, <2>5, <2>6
<1>u. UNCHANGED <<main, plan, proc>>
  BY <1>0
<1>e. CASE s # <<>> /\ Head(s).kind = "filemap" /\ lib' = [lib EXCEPT !.map = Tr!FileMap]
           /\ conn' = [conn EXCEPT ![c].reqs = Tail(@), ![c].ans = Append(@, Tr!FileMap)]
  <2>1. PICK new \in Channels :
                /\ conn' = [conn EXCEPT ![c] = new] /\ conn'[c] = new
                /\ new.state = "open" /\ new.reqs = Tail(s)
                /\ conn[c].ans = <<>> => Len(new.ans) = 1 /\ new.ans[1] = Tr!FileMap
    BY <1>d, <1>e, <1>5 DEF Answers
  <2>2. ASSUME NEW p \in Tracees, Talking(p), proc[p].conn = c PROVE Talks(p)'
    <3>1. /\ Talks(p) /\ main.pc = "target" /\ proc[p].pc = "askmap" /\ conn[c].ans = <<>>
          /\ Tail(s) = <<>>
      BY <1>c, <1>e, <2>2
    <3>2. Tr!Target.fence => Tr!FileMap = "fenced"
      BY <1>4, <3>1
    <3> HIDE DEF TraceInv, s
    <3> QED BY ONLY <1>u, <2>1, <2>2, <3>1, <3>2 DEF Talks, MapAsked, Tr!Target
  <2> HIDE DEF TraceInv, s
  <2> QED BY <1>b, <1>e, <1>5, <2>1, <2>2
<1>f. CASE s # <<>> /\ Head(s).kind = "dep_check" /\ lib' = lib
           /\ conn' = [conn EXCEPT ![c].reqs = Tail(@),
                         ![c].ans = Append(@, IF Head(s).path \in lib.deps THEN "+" ELSE "!")]
  <2> DEFINE a == IF Head(s).path \in lib.deps THEN "+" ELSE "!"
  <2>1. PICK new \in Channels :
                /\ conn' = [conn EXCEPT ![c] = new] /\ conn'[c] = new
                /\ new.state = "open" /\ new.reqs = Tail(s)
                /\ conn[c].ans = <<>> => Len(new.ans) = 1 /\ new.ans[1] = a
    BY <1>d, <1>f DEF Answers
  <2>2. ASSUME NEW p \in Tracees, Talking(p), proc[p].conn = c PROVE Talks(p)'
    <3>1. /\ Talks(p) /\ main.pc = "target" /\ proc[p].pc = "askdep" /\ conn[c].ans = <<>>
          /\ Tail(s) = <<>> /\ Head(s).path = proc[p].path
      BY <1>c, <1>f, <2>2
    <3>2. a = "+" => proc[p].path \in Tr!Target.deps
      BY <3>1 DEF FenceIsUp
    <3>3. (Tr!Target.fence => proc[p].map = "fenced")
      BY <3>1 DEF Talks
    <3> HIDE DEF TraceInv, s, a
    <3> QED BY ONLY <1>u, <2>1, <2>2, <3>1, <3>2, <3>3 DEF Talks, DepAsked, Tr!Target
  <2> HIDE DEF TraceInv, s
  <2> QED BY <1>b, <1>f, <1>3, <2>1, <2>2
<1>g. CASE s # <<>> /\ Head(s).kind = "sandbox_violation" /\ lib' = lib
           /\ conn' = [conn EXCEPT ![c].reqs = Tail(@)]
  <2> DEFINE new == [conn[c] EXCEPT !.reqs = Tail(s)]
  <2>1. /\ Tail(s) \in Seq(Requests) /\ Len(Tail(s)) = Len(s) - 1 /\ Len(s) \in Nat \ {0}
        /\ \A i \in 1 .. Len(s) - 1 : Tail(s)[i] = s[i + 1]
    BY <1>1, <1>g, TailOf
  <2>2. conn' = [conn EXCEPT ![c] = new]
    BY <1>1, <1>g
  <2>3. new \in Channels /\ new.state = "open" /\ new.reqs = Tail(s) /\ new.ans = conn[c].ans
    BY <1>1, <2>1 DEF Channels
  <2> HIDE DEF new
  <2>4. conn'[c] = new
    BY <1>1, <2>2
  <2>5. ASSUME NEW p \in Tracees, Talking(p), proc[p].conn = c PROVE Talks(p)'
    <3>1. /\ Talks(p) /\ main.pc = "target" /\ proc[p].pc # "askmap" /\ conn[c].ans = <<>>
          /\ proc[p].pc = "askdep" => Len(s) > 1
      BY <1>c, <1>g, <2>5
    <3>2. CASE proc[p].pc = "askdep"
      <4>1. /\ \A i \in 1 .. Len(s) - 1 : s[i].kind = "sandbox_violation"
            /\ s[Len(s)].kind = "dep_check" /\ s[Len(s)].path = proc[p].path
        <5>1. DepAsked(p, conn[c])
          BY <2>5, <3>1, <3>2 DEF Talks
        <5> HIDE DEF TraceInv
        <5> QED BY <1>g, <5>1 DEF DepAsked
      <4> DEFINE t == Tail(s)
      <4> DEFINE n == Len(s)
      <4>2. /\ n \in Nat /\ n > 1 /\ Len(t) = n - 1
            /\ \A i \in 1 .. n - 1 : t[i] = s[i + 1]
        BY <2>1, <3>1, <3>2
      <4>3. t[n - 1] = s[n] /\ \A i \in 1 .. n - 2 : t[i].kind = "sandbox_violation"
        <5> HIDE DEF TraceInv, t
        <5>1. n - 1 \in 1 .. n - 1 /\ (n - 1) + 1 = n
          BY <4>2
        <5>2. ASSUME NEW i \in 1 .. n - 2 PROVE t[i].kind = "sandbox_violation"
          <6>1. i \in 1 .. n - 1 /\ i + 1 \in 1 .. n - 1
            BY <4>2
          <6> QED BY <4>1, <4>2, <6>1
        <5> QED BY <4>2, <5>1, <5>2
      <4>4. /\ new.ans = <<>> /\ Len(new.reqs) > 0
            /\ \A i \in 1 .. Len(new.reqs) - 1 : new.reqs[i].kind = "sandbox_violation"
            /\ new.reqs[Len(new.reqs)].kind = "dep_check"
            /\ new.reqs[Len(new.reqs)].path = proc[p].path
        <5> HIDE DEF TraceInv, t
        <5>1. new.reqs = t /\ Len(t) = n - 1 /\ n - 1 > 0 /\ n - 1 - 1 = n - 2
          BY <2>3, <4>2 DEF t
        <5> HIDE DEF n, s
        <5> QED BY <2>3, <3>1, <4>1, <4>3, <5>1 DEF n
      <4>5. DepAsked(p, new) /\ (Tr!Target.fence => proc[p].map = "fenced")
        BY <3>1, <3>2, <4>4 DEF DepAsked, Talks
      <4> HIDE DEF TraceInv, s, t, n
      <4> QED BY ONLY <1>u, <2>3, <2>4, <2>5, <3>1, <3>2, <4>5 DEF Talks, DepAsked, Tr!Target
    <3>3. CASE proc[p].pc # "askdep"
      <4>1. \A i \in 1 .. Len(s) : s[i].kind = "sandbox_violation"
        BY <2>5, <3>1, <3>3 DEF Talks, Violations
      <4>2. Violations(new.reqs)
        <5> HIDE DEF TraceInv, s
        <5>1. ASSUME NEW i \in 1 .. Len(s) - 1 PROVE Tail(s)[i].kind = "sandbox_violation"
          <6>1. i + 1 \in 1 .. Len(s)
            BY <2>1
          <6> QED BY <2>1, <4>1, <6>1
        <5> QED BY <2>1, <2>3, <5>1 DEF Violations
      <4>3. Tr!Target.fence => proc[p].map = "fenced"
        BY <3>1, <3>3 DEF Talks
      <4> HIDE DEF TraceInv, s
      <4> QED BY ONLY <1>u, <2>3, <2>4, <2>5, <3>1, <3>3, <4>2, <4>3 DEF Talks, Tr!Target
    <3> QED BY <3>2, <3>3
  <2> HIDE DEF TraceInv, s
  <2> QED BY <1>b, <1>g, <1>3, <2>2, <2>3, <2>5
<1> QED BY <1>a, <1>e, <1>f, <1>g DEF Tr!Serve

\* Trace mode begins without socket, slave, connections or processes.
LEMMA TraceInitially == ASSUME Tr!Init PROVE TraceInv
<1>1. /\ plan \in TracePlans /\ main = [pc |-> "idle", target |-> 0] /\ lib = Tr!NoLib
      /\ slave = [pc |-> "none", ready |-> {}, listen |-> FALSE]
  BY DEF Tr!Init
<1>2. slave.ready = {} /\ slave.pc = "none" /\ main.pc = "idle" /\ main.target = 0
  BY <1>1
<1>4. conn \in [Conns -> Channels] /\ \A c \in Conns : conn[c].state = "unused"
  <2>1. ASSUME NEW ch \in Channels
        PROVE  /\ [ch EXCEPT !.state = "unused"] \in Channels
               /\ [ch EXCEPT !.state = "unused"].state = "unused"
    BY DEF Channels
  <2>2. Tr!Closed \in Channels
    BY DEF Channels, Tr!Closed
  <2> DEFINE new == [Tr!Closed EXCEPT !.state = "unused"]
  <2>3. conn = [c \in Conns |-> new]
    BY DEF Tr!Init
  <2>4. new \in Channels /\ new.state = "unused"
    BY <2>1, <2>2
  <2> HIDE DEF new
  <2> QED BY <2>3, <2>4
<1>5. proc \in [Tracees -> Traced]
      /\ \A p \in Tracees : proc[p].conn = NoConn /\ proc[p].pc = "none" /\ proc[p].target = 0
  <2>1. [pc |-> "none", target |-> 0, conn |-> NoConn, map |-> "none", path |-> "",
         verdict |-> ""] \in Traced
    BY DEF Traced, ProcPcs, Answers, Maps, TracedPaths
  <2> QED BY <2>1 DEF Tr!Init
<1>6. TraceTypes
  <2>1. main \in [pc : MainPcs, target : Nat]
    BY <1>1 DEF MainPcs
  <2>2. slave \in [pc : SlavePcs, ready : SUBSET Conns, listen : BOOLEAN]
    BY <1>1 DEF SlavePcs
  <2> QED BY <1>1, <1>4, <1>5, <2>1, <2>2 DEF TraceTypes, Tr!NoLib, Maps
<1>7. Stages /\ FenceIsUp /\ AllTalk
  BY <1>1, <1>2 DEF Stages, FenceIsUp, AllTalk, Talking
<1>8. TargetsOf
  BY <1>1, <1>5 DEF TargetsOf
<1>9. Connected
  <2>1. NoConn \notin Conns
    BY TraceAssumption DEF Tr!TraceAssumption
  <2> QED BY <1>5, <2>1 DEF Connected
<1>10. ReadyIsOpen
  BY <1>2 DEF ReadyIsOpen
<1> QED BY <1>6, <1>7, <1>8, <1>9, <1>10 DEF TraceInv

\* Every step of the threads and the processes keeps the invariant.
LEMMA TraceStep == ASSUME TraceInv, Tr!Next PROVE TraceInv'
<1>1. CASE Tr!Main
  BY <1>1, Trace_Start, Trace_Main, Trace_CloseSocket DEF Tr!Main
<1>2. CASE Tr!Slave
  BY <1>2, Trace_Loop, Trace_Select, Trace_Accept, Trace_End, Trace_Serve DEF Tr!Slave
<1>3. ASSUME NEW p \in Tracees, Tr!Run(p) \/ Tr!Proceed(p) \/ Tr!Process(p) PROVE TraceInv'
  BY <1>3, Trace_Run, Trace_JudgeAgain, Trace_Connect, Trace_Answer, Trace_Access, Trace_Fork,
     Trace_Exec, Trace_Exit DEF Tr!Proceed, Tr!Process
<1> QED BY <1>1, <1>2, <1>3 DEF Tr!Next

\* Only a map without the fence, a file of the sandbox and the answer "+" allow.
LEMMA AllowedIsPermitted ==
    ASSUME TraceInv, Tr!Next, NEW p \in Tracees, main.pc = "target",
           proc[p].target = main.target,
           proc'[p].verdict = "allowed", proc[p].verdict # "allowed"
    PROVE  Tr!Permitted(p)
<1> USE DEF TraceInv
<1>0. proc \in [Tracees -> Traced] /\ main.target \in Nat
  BY DEF TraceTypes
<1>1. Tr!JudgeAgain(p) \/ Tr!Answer(p)
  <2>1. proc' # proc
    OBVIOUS
  <2>2. PICK q \in Tracees : Tr!Run(q) \/ Tr!Proceed(q) \/ Tr!Process(q)
    BY <2>1 DEF Tr!Next, Tr!Main, Tr!Slave, Tr!Start, Tr!EnableFence, Tr!SetDeps, Tr!CloseFlag,
                Tr!CloseSocket, Tr!Check, Tr!Clean, Tr!Loop, Tr!Select, Tr!Accept, Tr!End, Tr!Serve
  <2>3. CASE Tr!Run(q)
    <3>1. proc' = [proc EXCEPT ![q] = [proc[q] EXCEPT !.pc = "run", !.target = main.target]]
      BY <1>0, <2>3 DEF Tr!Run
    <3>2. [proc[q] EXCEPT !.pc = "run", !.target = main.target].verdict = proc[q].verdict
      BY <1>0 DEF Traced
    <3> QED BY <1>0, <3>1, <3>2
  <2>4. CASE Tr!Connect(q)
    <3>1. \A o \in Tracees : proc'[o].verdict = proc[o].verdict
      <4>1. CASE proc' = [proc EXCEPT ![q].pc = "gone"]
        BY <1>0, <4>1 DEF Traced
      <4>2. ASSUME NEW c, proc' = [proc EXCEPT ![q].pc = "askmap", ![q].conn = c]
            PROVE  \A o \in Tracees : proc'[o].verdict = proc[o].verdict
        BY <1>0, <4>2 DEF Traced
      <4> QED BY <2>4, <4>1, <4>2 DEF Tr!Connect
    <3> QED BY <3>1
  <2>5. CASE Tr!Process(q)
    <3>1. ASSUME NEW v \in Tracees, NEW r, proc' = [proc EXCEPT ![v] = r], r.verdict = ""
          PROVE  FALSE
      BY <1>0, <3>1
    <3>2. CASE Tr!Access(q)
      <4>1. PICK path : proc' = [proc EXCEPT ![q] = [proc[q] EXCEPT
                !.pc = IF proc[q].conn = NoConn THEN "connect" ELSE "judge",
                !.path = path, !.verdict = ""]]
        BY ZenonT(60), <1>0, <3>2 DEF Tr!Access
      <4>2. ASSUME NEW a PROVE [proc[q] EXCEPT !.pc = a, !.path = path, !.verdict = ""].verdict = ""
        BY <1>0 DEF Traced
      <4> QED BY <3>1, <4>1, <4>2
    <3>3. CASE Tr!Fork(q)
      <4>1. PICK o \in Tracees, a \in {"run", "forked"} : proc' = [proc EXCEPT ![o] =
                [proc[q] EXCEPT !.pc = a, !.verdict = ""]]
        BY <3>3 DEF Tr!Fork
      <4>2. [proc[q] EXCEPT !.pc = a, !.verdict = ""].verdict = ""
        BY <1>0 DEF Traced
      <4> QED BY <3>1, <4>1, <4>2
    <3>4. CASE Tr!Exec(q)
      <4>1. proc' = [proc EXCEPT ![q] = [proc[q] EXCEPT !.pc = "run", !.conn = NoConn,
                                         !.map = "none", !.verdict = ""]]
        BY <3>4 DEF Tr!Exec
      <4>2. [proc[q] EXCEPT !.pc = "run", !.conn = NoConn, !.map = "none", !.verdict = ""].verdict
             = ""
        BY <1>0 DEF Traced
      <4> QED BY <3>1, <4>1, <4>2
    <3>5. CASE Tr!Exit(q)
      BY <1>0, <3>5 DEF Tr!Exit, Traced
    <3> QED BY <2>5, <3>2, <3>3, <3>4, <3>5 DEF Tr!Process
  <2>6. CASE Tr!JudgeAgain(q)
    <3>1. \A o \in Tracees : o # q => proc'[o] = proc[o]
      BY <1>0, <2>6 DEF Tr!JudgeAgain, Tr!Judge, Tr!Verdict
    <3> QED BY <2>6, <3>1
  <2>7. CASE Tr!Answer(q)
    <3>1. \A o \in Tracees : o # q => proc'[o] = proc[o]
      BY <1>0, <2>7 DEF Tr!Answer
    <3> QED BY <2>7, <3>1
  <2> QED BY <2>2, <2>3, <2>4, <2>5, <2>6, <2>7 DEF Tr!Proceed
<1>2. CASE Tr!JudgeAgain(p)
  <2>1. Talking(p) /\ proc[p].pc = "judge"
    BY <1>2 DEF Talking, Connected, Tr!JudgeAgain
  <2>2. Tr!Target.fence => proc[p].map = "fenced"
    BY <2>1 DEF AllTalk, Talks
  <2>3. Tr!Target.fence => proc[p].path = "sandbox"
    <3>1. CASE proc[p].map # "fenced" \/ proc[p].path = "sandbox"
      BY <2>2, <3>1
    <3>2. CASE ~(proc[p].map # "fenced" \/ proc[p].path = "sandbox")
      <4>1. \/ proc' = [proc EXCEPT ![p].pc = "run", ![p].verdict = "refused", ![p].map = proc[p].map]
            \/ proc' = [proc EXCEPT ![p].pc = "askdep", ![p].map = proc[p].map]
        BY <1>2, <3>2 DEF Tr!JudgeAgain, Tr!Judge, Tr!Verdict
      <4>2. proc'[p].verdict \in {"refused", proc[p].verdict}
        BY <1>0, <4>1 DEF Traced
      <4> QED BY <4>2
    <3> QED BY <3>1, <3>2
  <2> QED BY <2>3 DEF Tr!Permitted, Tr!Target
<1>3. CASE Tr!Answer(p)
  <2> DEFINE c == proc[p].conn
  <2>0. proc[p].pc \in {"askmap", "askdep"} /\ c # NoConn /\ c \in Conns
    BY <1>0, <1>3 DEF Connected, Tr!Answer, Traced
  <2>1. CASE proc[p].pc = "askmap"
    <3>1. \E m : proc' = [proc EXCEPT ![p].pc = "judge", ![p].map = m]
      BY <1>3, <2>1 DEF Tr!Answer
    <3>2. proc'[p].verdict = proc[p].verdict
      BY <1>0, <3>1 DEF Traced
    <3> QED BY <3>2
  <2>2. CASE proc[p].pc = "askdep"
    <3>1. Talking(p) /\ DepAsked(p, conn[c])
      BY <2>0, <2>2 DEF Talking, AllTalk, Talks
    <3>2. conn[c].ans # <<>> /\ Head(conn[c].ans) = "+"
      <4>1. CASE ~(conn[c].ans # <<>> /\ Head(conn[c].ans) = "+")
        <5>1. proc' = [proc EXCEPT ![p].pc = "run", ![p].verdict = "refused"]
          BY <1>3, <2>2, <4>1 DEF Tr!Answer
        <5>2. proc'[p].verdict = "refused"
          BY <1>0, <5>1 DEF Traced
        <5> QED BY <5>2
      <4> QED BY <4>1
    <3>3. Len(conn[c].ans) = 1 /\ (conn[c].ans[1] = "+" => proc[p].path \in Tr!Target.deps)
      BY <3>1, <3>2 DEF DepAsked
    <3>4. conn[c].ans \in Seq(Answers)
      BY <2>0, ChannelFields DEF TraceTypes
    <3>5. conn[c].ans[1] = "+"
      BY <3>2, <3>3, <3>4, OneAnswer
    <3> QED BY <3>3, <3>5 DEF Tr!Permitted, Tr!Target
  <2> QED BY <2>0, <2>1, <2>2
<1> QED BY <1>1, <1>2, <1>3

\* While a target runs its socket is open.
LEMMA SocketIsOpen == ASSUME TraceInv PROVE Tr!SocketOpened
BY DEF TraceInv, Stages, Tr!SocketOpened

-----------------------------------------------------------------------------
(* The files table *)

CallType ==
    [op : Own!ListOps \cup {"none"}, entry : Entries \cup {None},
     list : Seq(FilePaths \X FilePaths), i : Nat, ok : BOOLEAN]
AllRows == Entries \X FilePaths

OwnerTypes ==
    /\ Own!IsBook(db) /\ Own!IsBook(work)
    /\ writer \in FileProcs \cup {None}
    /\ writer = None => work = db
    /\ pc \in [FileProcs -> {"script", "file", "update"}]
    /\ call \in [FileProcs -> CallType]
    /\ handles \in [FileProcs -> SUBSET AllRows]

\* What one turn of a call's loop has done.
FileDone(book, c, j) ==
    LET row == book.rows[<<c.entry, c.list[j][1]>>] IN
    CASE c.op = "map" -> row.there
      [] c.op = "unmap" -> ~row.there
      [] c.op = "activate" -> row.active /\ row.at = c.list[j][2]
      [] c.op = "deactivate" -> c.list[j][2] \notin Own!Files(book, c.entry)

\* A file that is being mapped is nowhere yet.
Unplaced(c, j) ==
    LET row == work.rows[<<c.entry, c.list[j][1]>>] IN row.there => ~row.active /\ ~row.binary

\* A call in its loop: where files are mapped or activated it is in a transaction;
\* an entry that gets files is there, and they are nowhere; a path that is about to be
\* taken is free; and in a transaction the turns so far have done what they were to do.
InLoop(p) ==
    LET c == call[p] IN
    /\ c.op \in Own!ListOps /\ c.list \in Lists[c.op]
    /\ c.i \in DOMAIN c.list /\ c.entry \in Entries
    /\ c.op \notin Bare => writer = p
    /\ c.op = "map" => Own!There(work, c.entry) /\ \A j \in DOMAIN c.list : Unplaced(c, j)
    /\ pc[p] = "update" => c.op = "activate" /\ Own!Active(work, c.list[c.i][2]) = {}
    /\ writer = p => \A j \in 1 .. c.i - 1 : FileDone(work, c, j)

OwnersInv == OwnerTypes /\ \A p \in FileProcs : pc[p] # "script" => InLoop(p)

\* The registry a run starts from is one.
LEMMA OwnersInitially ==
    ASSUME Own!Init, Own!FilesAssumption
    PROVE  OwnersInv
<1> USE DEF Own!Init, Own!FilesAssumption
<1>1. Own!IsBook(db) /\ Own!IsBook(work)
  OBVIOUS
<1>2. Own!NoCall \in CallType
  BY DEF Own!NoCall, CallType
<1>3. call \in [FileProcs -> CallType]
  BY <1>2
<1>4. handles \in [FileProcs -> SUBSET AllRows]
  OBVIOUS
<1>5. pc \in [FileProcs -> {"script", "file", "update"}] /\ \A p \in FileProcs : pc[p] = "script"
  OBVIOUS
<1> QED BY <1>1, <1>3, <1>4, <1>5 DEF OwnersInv, OwnerTypes

\* Who may write sees the working copy, and what it stores is one registry for all
\* while nobody writes.
LEMMA Stores ==
    ASSUME OwnersInv, None \notin FileProcs, NEW p \in FileProcs, NEW new, Own!Store(p, new),
           Own!IsBook(new)
    PROVE  /\ Own!View(p) = work /\ work' = new /\ writer' = writer /\ writer \in {p, None}
           /\ Own!IsBook(db') /\ Own!IsBook(work')
           /\ writer' = None => work' = db'
           /\ writer = p => db' = db
           /\ writer # p => db' = new
BY DEF OwnersInv, OwnerTypes, Own!Store, Own!View

\* The calls of others are not touched by a step of p.
LEMMA OthersLoop ==
    ASSUME OwnersInv, NEW p \in FileProcs, NEW q \in FileProcs, q # p,
           None \notin FileProcs,
           writer \in {p, None} \/ UNCHANGED <<work, writer>>,
           writer' = writer \/ writer' \in {p, None},
           pc'[q] = pc[q], call'[q] = call[q], pc[q] # "script", Own!WithinLimits
    PROVE  InLoop(q)'
<1>1. InLoop(q)
  BY DEF OwnersInv
<1>2. CASE writer \in {p, None}
  <2>1. writer # q /\ writer' # q
    BY <1>2
  <2>2. call[q].op \notin {"map", "activate"}
    BY <2>1, <1>1 DEF InLoop, Own!WithinLimits
  <2> QED BY <1>1, <2>1, <2>2 DEF InLoop
<1>3. CASE UNCHANGED <<work, writer>>
  <2>1. ASSUME NEW j PROVE FileDone(work, call[q], j)' <=> FileDone(work, call[q], j)
    BY <1>3 DEF FileDone, Own!Files, Own!Rows
  <2>2. /\ \A e : Own!There(work, e)' <=> Own!There(work, e)
        /\ \A f : Own!Active(work, f)' = Own!Active(work, f)
    BY <1>3 DEF Own!There, Own!Active, Own!Rows
  <2>3. ASSUME NEW j PROVE Unplaced(call[q], j)' <=> Unplaced(call[q], j)
    BY <1>3 DEF Unplaced
  <2> QED BY <1>1, <1>3, <2>1, <2>2, <2>3, Zenon DEF InLoop
<1> QED BY <1>2, <1>3

RowType == [there : BOOLEAN, at : FilePaths \cup {None}, active : BOOLEAN, binary : BOOLEAN]

\* What UPDATE and DELETE statements do to the rows they meet.
LEMMA WhereRows ==
    ASSUME NEW b \in Own!BookType, NEW S \in SUBSET AllRows, NEW row, \A r \in S : row[r] \in RowType
    PROVE  LET n == Own!Where(b, S, row) IN
           /\ n \in Own!BookType /\ n.state = b.state /\ n.deps = b.deps
           /\ \A r \in AllRows : n.rows[r] = IF r \in S THEN row[r] ELSE b.rows[r]
<1> DEFINE rs == [r \in AllRows |-> IF r \in S THEN row[r] ELSE b.rows[r]]
           n == Own!Where(b, S, row)
<1>1. b.rows \in [AllRows -> RowType] /\ DOMAIN b.rows = AllRows
  BY DEF Own!BookType, AllRows, RowType
<1>2. n = [b EXCEPT !.rows = rs]
  BY <1>1 DEF Own!Where
<1>3. rs \in [AllRows -> RowType]
  BY <1>1
<1>4. n \in Own!BookType /\ n.state = b.state /\ n.deps = b.deps /\ n.rows = rs
  <2> HIDE DEF n, rs
  <2> QED BY <1>2, <1>3 DEF Own!BookType, AllRows, RowType
<1> QED BY <1>4

\* The parts of a registry as its users see it.
LEMMA BookParts ==
    ASSUME NEW b \in Own!BookType
    PROVE  /\ Own!Book(b).state = b.state /\ Own!Book(b).deps = b.deps
           /\ \A r : r \in Own!Book(b).image <=> r \in AllRows /\ b.rows[r].there
           /\ \A r : r \in Own!Book(b).binary <=> r \in AllRows /\ b.rows[r].there /\ b.rows[r].binary
           /\ \A h : h \in Own!Book(b).held <=>
                \E r \in AllRows : b.rows[r].there /\ b.rows[r].active
                                   /\ h = <<r[1], r[2], b.rows[r].at>>
           /\ Own!Book(b) = [state |-> b.state, image |-> Own!Book(b).image,
                             held |-> Own!Book(b).held, binary |-> Own!Book(b).binary,
                             deps |-> b.deps]
BY DEF Own!Book, Own!Rows, AllRows

\* A row is its entry and its file.
LEMMA RowIsPair ==
    ASSUME NEW r \in AllRows
    PROVE  r = <<r[1], r[2]>> /\ r[1] \in Entries /\ r[2] \in FilePaths
BY DEF AllRows

LEMMA HeldParts ==
    ASSUME NEW b \in Own!BookType, NEW h \in Own!Book(b).held
    PROVE  /\ <<h[1], h[2]>> \in AllRows
           /\ b.rows[<<h[1], h[2]>>].there /\ b.rows[<<h[1], h[2]>>].active
           /\ h[3] = b.rows[<<h[1], h[2]>>].at
           /\ h = <<h[1], h[2], h[3]>>
<1>1. PICK r \in AllRows : /\ b.rows[r].there /\ b.rows[r].active
                           /\ h = <<r[1], r[2], b.rows[r].at>>
  BY BookParts
<1>2. h[1] = r[1] /\ h[2] = r[2] /\ h[3] = b.rows[r].at
  BY <1>1
<1>3. <<h[1], h[2]>> = r
  BY <1>2, RowIsPair
<1> QED BY <1>1, <1>2, <1>3

LEMMA HeldRow ==
    ASSUME NEW b \in Own!BookType, NEW e, NEW f, <<e, f>> \in AllRows, NEW q,
           b.rows[<<e, f>>].there, b.rows[<<e, f>>].active, q = b.rows[<<e, f>>].at
    PROVE  <<e, f, q>> \in Own!Book(b).held
<1>1. <<e, f>>[1] = e /\ <<e, f>>[2] = f
  OBVIOUS
<1> QED BY <1>1, BookParts

\* What is not changed in the rows is not changed in the parts.
LEMMA SameParts ==
    ASSUME NEW b \in Own!BookType, NEW n \in Own!BookType,
           \A r \in AllRows : n.rows[r].there = b.rows[r].there
    PROVE  /\ Own!Book(n).image = Own!Book(b).image
           /\ (\A r \in AllRows : b.rows[r].there => n.rows[r].binary = b.rows[r].binary)
                => Own!Book(n).binary = Own!Book(b).binary
           /\ (\A r \in AllRows : b.rows[r].there => n.rows[r].active = b.rows[r].active
                                                   /\ n.rows[r].at = b.rows[r].at)
                => Own!Book(n).held = Own!Book(b).held
<1>1. Own!Book(n).image = Own!Book(b).image
  <2>1. \A r \in AllRows : r \in Own!Rows(n) <=> r \in Own!Rows(b)
    BY DEF Own!Rows, AllRows
  <2>2. Own!Rows(n) = Own!Rows(b)
    BY <2>1 DEF Own!Rows, AllRows
  <2> QED BY <2>2 DEF Own!Book
<1>2. ASSUME \A r \in AllRows : b.rows[r].there => n.rows[r].binary = b.rows[r].binary
      PROVE  Own!Book(n).binary = Own!Book(b).binary
  <2>1. Own!Book(n).binary = {r \in AllRows : n.rows[r].there /\ n.rows[r].binary}
    BY DEF Own!Book, Own!Rows, AllRows
  <2>2. Own!Book(b).binary = {r \in AllRows : b.rows[r].there /\ b.rows[r].binary}
    BY DEF Own!Book, Own!Rows, AllRows
  <2> QED BY <2>1, <2>2, <1>2
<1>3. ASSUME \A r \in AllRows : b.rows[r].there => n.rows[r].active = b.rows[r].active
                                                 /\ n.rows[r].at = b.rows[r].at
      PROVE  Own!Book(n).held = Own!Book(b).held
  <2>1. ASSUME NEW h \in Own!Book(n).held PROVE h \in Own!Book(b).held
    <3>1. /\ <<h[1], h[2]>> \in AllRows /\ n.rows[<<h[1], h[2]>>].there
          /\ n.rows[<<h[1], h[2]>>].active /\ h[3] = n.rows[<<h[1], h[2]>>].at
          /\ h = <<h[1], h[2], h[3]>>
      BY HeldParts
    <3>2. <<h[1], h[2], h[3]>> \in Own!Book(b).held
      BY <3>1, <1>3, HeldRow
    <3> QED BY <3>1, <3>2
  <2>2. ASSUME NEW h \in Own!Book(b).held PROVE h \in Own!Book(n).held
    <3>1. /\ <<h[1], h[2]>> \in AllRows /\ b.rows[<<h[1], h[2]>>].there
          /\ b.rows[<<h[1], h[2]>>].active /\ h[3] = b.rows[<<h[1], h[2]>>].at
          /\ h = <<h[1], h[2], h[3]>>
      BY HeldParts
    <3>2. <<h[1], h[2], h[3]>> \in Own!Book(n).held
      BY <3>1, <1>3, HeldRow
    <3> QED BY <3>1, <3>2
  <2> QED BY <2>1, <2>2
<1> QED BY <1>1, <1>2, <1>3

\* activate takes a path for a row that nobody holds.
IsTaken(b, n, e, f, q) ==
    /\ Own!IsBook(n) /\ n.state = b.state
    /\ n.rows[<<e, f>>].active /\ n.rows[<<e, f>>].at = q
    /\ \A r \in AllRows \ {<<e, f>>} : n.rows[r] = b.rows[r]
    /\ <<e, f>> \in Own!Book(b).image
    /\ \A h \in Own!Book(b).held : h[3] # q
    /\ Own!Book(n) = [Own!Book(b) EXCEPT
            !.held = {h \in @ : <<h[1], h[2]>> # <<e, f>>} \cup {<<e, f, q>>}]
LEMMA BookTaken ==
    ASSUME NEW b, Own!IsBook(b), NEW e, NEW f, <<e, f>> \in AllRows, NEW q \in FilePaths,
           b.rows[<<e, f>>].there, Own!Active(b, q) = {}, None \notin FilePaths,
           NEW S, S = {<<e, f>>}, NEW n, n = Own!Where(b, S, Own!Placed(b, S, q))
    PROVE  IsTaken(b, n, e, f, q)
<1> DEFINE row == Own!Placed(b, S, q)
           X == {h \in Own!Book(b).held : <<h[1], h[2]>> # <<e, f>>} \cup {<<e, f, q>>}
<1>b. b \in Own!BookType /\ b.rows \in [AllRows -> RowType]
  BY DEF Own!IsBook, Own!BookType, AllRows, RowType
<1>1. row[<<e, f>>] = [b.rows[<<e, f>>] EXCEPT !.at = q, !.active = TRUE]
  BY DEF Own!Placed
<1>2. /\ row[<<e, f>>] \in RowType /\ row[<<e, f>>].active /\ row[<<e, f>>].at = q
      /\ row[<<e, f>>].there /\ row[<<e, f>>].binary = b.rows[<<e, f>>].binary
  <2>1. b.rows[<<e, f>>] \in RowType
    BY <1>b
  <2> QED BY <1>1, <2>1 DEF RowType
<1>0. n = Own!Where(b, S, row)
  OBVIOUS
<1> HIDE DEF row
<1>3. /\ n \in Own!BookType /\ n.state = b.state /\ n.deps = b.deps
      /\ \A r \in AllRows : n.rows[r] = IF r \in S THEN row[r] ELSE b.rows[r]
  <2>1. b \in Own!BookType
    BY <1>b
  <2>2. S \in SUBSET AllRows
    OBVIOUS
  <2>3. \A r \in S : row[r] \in RowType
    BY <1>2
  <2> QED BY ONLY <2>1, <2>2, <2>3, <1>0, WhereRows
<1>s. S \subseteq AllRows /\ <<e, f>> \in S /\ n.rows[<<e, f>>] = row[<<e, f>>]
      /\ \A r \in AllRows : r # <<e, f>> => n.rows[r] = b.rows[r]
  BY <1>3
<1>4. Own!IsBook(n)
  <2>1. \A r \in AllRows : n.rows[r].active => n.rows[r].at # None
    <3>1. None \notin FilePaths
      OBVIOUS
    <3>2. \A r \in AllRows : b.rows[r].active => b.rows[r].at # None
      BY DEF Own!IsBook, AllRows
    <3> QED BY <1>2, <1>s, <3>1, <3>2
  <2>2. \A d \in n.deps : Own!There(n, d[1])
    BY <1>3 DEF Own!IsBook, Own!There
  <2> QED BY <1>3, <2>1, <2>2 DEF Own!IsBook, AllRows
<1>5. <<e, f>> \in Own!Book(b).image
  BY <1>b, BookParts
<1>6. ASSUME NEW h \in Own!Book(b).held PROVE h[3] # q
  <2>1. <<h[1], h[2]>> \in Own!Rows(b) /\ h[3] = b.rows[<<h[1], h[2]>>].at
        /\ b.rows[<<h[1], h[2]>>].active
    BY <1>b, HeldParts DEF Own!Rows, AllRows
  <2> QED BY <2>1 DEF Own!Active
<1>7. Own!Book(n).image = Own!Book(b).image /\ Own!Book(n).binary = Own!Book(b).binary
  <2>1. \A r \in AllRows : n.rows[r].there = b.rows[r].there /\ n.rows[r].binary = b.rows[r].binary
    BY <1>2, <1>3, <1>b DEF RowType
  <2> QED BY <2>1, <1>b, <1>3, SameParts
<1>8. Own!Book(n).held = X
  <2>1. ASSUME NEW h \in Own!Book(n).held PROVE h \in X
    <3>1. /\ <<h[1], h[2]>> \in AllRows /\ n.rows[<<h[1], h[2]>>].there
          /\ n.rows[<<h[1], h[2]>>].active /\ h[3] = n.rows[<<h[1], h[2]>>].at
          /\ h = <<h[1], h[2], h[3]>>
      BY <1>3, HeldParts
    <3>2. CASE <<h[1], h[2]>> = <<e, f>>
      BY <3>1, <3>2, <1>2, <1>s
    <3>3. CASE <<h[1], h[2]>> # <<e, f>>
      <4>1. <<h[1], h[2], h[3]>> \in Own!Book(b).held
        BY <3>1, <3>3, <1>3, <1>b, HeldRow
      <4> QED BY <4>1, <3>1, <3>3
    <3> QED BY <3>2, <3>3
  <2>2. ASSUME NEW h \in X PROVE h \in Own!Book(n).held
    <3>1. CASE h = <<e, f, q>>
      BY <3>1, <1>2, <1>3, HeldRow
    <3>2. CASE h \in Own!Book(b).held /\ <<h[1], h[2]>> # <<e, f>>
      <4>1. /\ <<h[1], h[2]>> \in AllRows /\ b.rows[<<h[1], h[2]>>].there
            /\ b.rows[<<h[1], h[2]>>].active /\ h[3] = b.rows[<<h[1], h[2]>>].at
            /\ h = <<h[1], h[2], h[3]>>
        BY <3>2, <1>b, HeldParts
      <4>2. <<h[1], h[2], h[3]>> \in Own!Book(n).held
        BY <4>1, <3>2, <1>3, HeldRow
      <4> QED BY <4>1, <4>2
    <3> QED BY <3>1, <3>2
  <2> QED BY <2>1, <2>2
<1>9. Own!Book(n) = [Own!Book(b) EXCEPT !.held = X]
  <2> HIDE DEF X
  <2>1. Own!Book(n) = [state |-> b.state, image |-> Own!Book(b).image, held |-> X,
                       binary |-> Own!Book(b).binary, deps |-> b.deps]
    BY <1>3, <1>7, <1>8, BookParts
  <2>2. Own!Book(b) = [state |-> b.state, image |-> Own!Book(b).image,
                       held |-> Own!Book(b).held, binary |-> Own!Book(b).binary, deps |-> b.deps]
    BY <1>b, BookParts
  <2> QED BY <2>1, <2>2
<1> QED BY <1>2, <1>3, <1>s, <1>4, <1>5, <1>6, <1>9 DEF IsTaken

\* Rows that are no longer held, while the others stay as they were.
LEMMA HeldKept ==
    ASSUME NEW b \in Own!BookType, NEW n \in Own!BookType, NEW K \in SUBSET AllRows,
           \A r \in K : /\ n.rows[r].there = b.rows[r].there
                        /\ n.rows[r].active = b.rows[r].active
                        /\ n.rows[r].at = b.rows[r].at,
           \A r \in AllRows \ K : ~(n.rows[r].there /\ n.rows[r].active)
    PROVE  \A h : h \in Own!Book(n).held <=> h \in Own!Book(b).held /\ <<h[1], h[2]>> \in K
<1>1. ASSUME NEW h \in Own!Book(n).held PROVE h \in Own!Book(b).held /\ <<h[1], h[2]>> \in K
  <2>1. /\ <<h[1], h[2]>> \in AllRows /\ n.rows[<<h[1], h[2]>>].there
        /\ n.rows[<<h[1], h[2]>>].active /\ h[3] = n.rows[<<h[1], h[2]>>].at
        /\ h = <<h[1], h[2], h[3]>>
    BY HeldParts
  <2>2. <<h[1], h[2]>> \in K
    BY <2>1
  <2>3. <<h[1], h[2], h[3]>> \in Own!Book(b).held
    BY <2>1, <2>2, HeldRow
  <2> QED BY <2>1, <2>2, <2>3
<1>2. ASSUME NEW h \in Own!Book(b).held, <<h[1], h[2]>> \in K PROVE h \in Own!Book(n).held
  <2>1. /\ <<h[1], h[2]>> \in AllRows /\ b.rows[<<h[1], h[2]>>].there
        /\ b.rows[<<h[1], h[2]>>].active /\ h[3] = b.rows[<<h[1], h[2]>>].at
        /\ h = <<h[1], h[2], h[3]>>
    BY HeldParts
  <2>2. <<h[1], h[2], h[3]>> \in Own!Book(n).held
    BY <2>1, <1>2, HeldRow
  <2> QED BY <2>1, <2>2
<1> QED BY <1>1, <1>2

\* Rows that are deleted, while the others stay as they were.
LEMMA RowsKept ==
    ASSUME NEW b \in Own!BookType, NEW n \in Own!BookType, NEW K \in SUBSET AllRows,
           \A r \in K : n.rows[r] = b.rows[r],
           \A r \in AllRows \ K : ~n.rows[r].there
    PROVE  /\ \A x : x \in Own!Book(n).image <=> x \in Own!Book(b).image /\ x \in K
           /\ \A x : x \in Own!Book(n).binary <=> x \in Own!Book(b).binary /\ x \in K
           /\ \A h : h \in Own!Book(n).held <=> h \in Own!Book(b).held /\ <<h[1], h[2]>> \in K
<1>1. Own!Book(n).image = {r \in AllRows : n.rows[r].there}
      /\ Own!Book(b).image = {r \in AllRows : b.rows[r].there}
  BY DEF Own!Book, Own!Rows, AllRows
<1>2. Own!Book(n).binary = {r \in AllRows : n.rows[r].there /\ n.rows[r].binary}
      /\ Own!Book(b).binary = {r \in AllRows : b.rows[r].there /\ b.rows[r].binary}
  BY DEF Own!Book, Own!Rows, AllRows
<1>3. \A h : h \in Own!Book(n).held <=> h \in Own!Book(b).held /\ <<h[1], h[2]>> \in K
  <2>1. \A r \in AllRows \ K : ~(n.rows[r].there /\ n.rows[r].active)
    OBVIOUS
  <2>2. \A r \in K : /\ n.rows[r].there = b.rows[r].there
                     /\ n.rows[r].active = b.rows[r].active /\ n.rows[r].at = b.rows[r].at
    OBVIOUS
  <2> QED BY <2>1, <2>2, HeldKept
<1>4. \A x : x \in Own!Book(n).image <=> x \in Own!Book(b).image /\ x \in K
  BY <1>1
<1>5. \A x : x \in Own!Book(n).binary <=> x \in Own!Book(b).binary /\ x \in K
  BY <1>2
<1> QED BY <1>3, <1>4, <1>5

\* map enters a file that is nowhere.
LEMMA NewRowIs == Own!NewRow = [there |-> TRUE, at |-> None, active |-> FALSE, binary |-> FALSE]
<1>1. ASSUME NEW x, NEW y
      PROVE  [[there |-> x, at |-> None, active |-> x, binary |-> x] EXCEPT !.there = y]
              = [there |-> y, at |-> None, active |-> x, binary |-> x]
  OBVIOUS
<1>2. Own!NewRow = [[there |-> FALSE, at |-> None, active |-> FALSE, binary |-> FALSE]
                      EXCEPT !.there = TRUE]
  BY DEF Own!NewRow, Own!NoRow
<1>3. [[there |-> FALSE, at |-> None, active |-> FALSE, binary |-> FALSE] EXCEPT !.there = TRUE]
        = [there |-> TRUE, at |-> None, active |-> FALSE, binary |-> FALSE]
  BY <1>1, Zenon
<1> QED BY <1>2, <1>3, Zenon

\* map enters a file, unless that is entered already and nowhere.
LEMMA BookMapped ==
    ASSUME NEW b, Own!IsBook(b), NEW r \in AllRows,
           b.rows[r].there => ~b.rows[r].active /\ ~b.rows[r].binary
    PROVE  LET n == Own!Where(b, {r}, [x \in {r} |-> Own!NewRow]) IN
           /\ Own!IsBook(n) /\ n.state = b.state
           /\ n.rows[r] = Own!NewRow /\ \A x \in AllRows \ {r} : n.rows[x] = b.rows[x]
           /\ Own!Book(n) = [Own!Book(b) EXCEPT !.image = @ \cup {r}]
<1> DEFINE row == [x \in {r} |-> Own!NewRow]
           n == Own!Where(b, {r}, row)
<1>b. b \in Own!BookType /\ b.rows \in [AllRows -> RowType]
  BY DEF Own!IsBook, Own!BookType, AllRows, RowType
<1>1. row[r] = Own!NewRow
  OBVIOUS
<1>2. Own!NewRow = [there |-> TRUE, at |-> None, active |-> FALSE, binary |-> FALSE]
  BY NewRowIs
<1>2a. Own!NewRow \in RowType
  BY <1>2 DEF RowType
<1> HIDE DEF row
<1>3. /\ n \in Own!BookType /\ n.state = b.state /\ n.deps = b.deps
      /\ \A x \in AllRows : n.rows[x] = IF x \in {r} THEN row[x] ELSE b.rows[x]
  <2>1. b \in Own!BookType /\ {r} \in SUBSET AllRows
    BY <1>b
  <2>2. \A x \in {r} : row[x] \in RowType
    BY <1>1, <1>2a
  <2>3. n = Own!Where(b, {r}, row)
    OBVIOUS
  <2> HIDE DEF n
  <2> QED BY ONLY <2>1, <2>2, <2>3, WhereRows
<1>0. n = Own!Where(b, {r}, row)
  OBVIOUS
<1> HIDE DEF n
<1>4. n.rows[r] = Own!NewRow /\ \A x \in AllRows \ {r} : n.rows[x] = b.rows[x]
  BY <1>1, <1>3
<1>5. Own!IsBook(n)
  BY <1>2, <1>3, <1>4 DEF Own!IsBook, Own!There, AllRows
<1>6. Own!Book(n).image = Own!Book(b).image \cup {r}
  <2>1. Own!Book(n).image = {x \in AllRows : n.rows[x].there}
        /\ Own!Book(b).image = {x \in AllRows : b.rows[x].there}
    BY DEF Own!Book, Own!Rows, AllRows
  <2>2. n.rows[r].there
    BY <1>2, <1>4
  <2> QED BY <1>4, <2>1, <2>2
<1>7. Own!Book(n).binary = Own!Book(b).binary
  <2>1. Own!Book(n).binary = {x \in AllRows : n.rows[x].there /\ n.rows[x].binary}
        /\ Own!Book(b).binary = {x \in AllRows : b.rows[x].there /\ b.rows[x].binary}
    BY DEF Own!Book, Own!Rows, AllRows
  <2>2. ~n.rows[r].binary
    BY <1>2, <1>4
  <2> QED BY <1>4, <2>1, <2>2
<1>8. Own!Book(n).held = Own!Book(b).held
  <2>1. ~n.rows[r].active
    BY <1>2, <1>4
  <2>2. \A h : h \in Own!Book(n).held
              <=> h \in Own!Book(b).held /\ <<h[1], h[2]>> \in AllRows \ {r}
    <3> DEFINE K == AllRows \ {r}
    <3>1. \A x \in AllRows \ K : ~(n.rows[x].there /\ n.rows[x].active)
      BY <2>1
    <3>2. K \in SUBSET AllRows /\ \A x \in K : n.rows[x] = b.rows[x]
      BY <1>4
    <3>4. \A x \in K : /\ n.rows[x].there = b.rows[x].there
                       /\ n.rows[x].active = b.rows[x].active /\ n.rows[x].at = b.rows[x].at
      BY <3>2
    <3>5. n \in Own!BookType /\ b \in Own!BookType /\ K \in SUBSET AllRows
      BY <1>b, <1>3, <3>2
    <3> HIDE DEF K
    <3>3. \A h : h \in Own!Book(n).held <=> h \in Own!Book(b).held /\ <<h[1], h[2]>> \in K
      BY ONLY <3>1, <3>4, <3>5, HeldKept
    <3> QED BY <3>3 DEF K
  <2>3. \A h \in Own!Book(b).held : <<h[1], h[2]>> \in AllRows \ {r}
    BY <1>b, HeldParts
  <2> QED BY <2>2, <2>3
<1>9. Own!Book(n) = [Own!Book(b) EXCEPT !.image = @ \cup {r}]
  <2> DEFINE I == Own!Book(b).image \cup {r}
  <2>0. Own!Book(n).image = I
    BY <1>6
  <2> SUFFICES Own!Book(n) = [Own!Book(b) EXCEPT !.image = I]
    OBVIOUS
  <2> HIDE DEF I
  <2>1. Own!Book(n) = [state |-> b.state, image |-> I, held |-> Own!Book(b).held,
                       binary |-> Own!Book(b).binary, deps |-> b.deps]
    BY <1>3, <2>0, <1>7, <1>8, BookParts
  <2>2. Own!Book(b) = [state |-> b.state, image |-> Own!Book(b).image,
                       held |-> Own!Book(b).held, binary |-> Own!Book(b).binary, deps |-> b.deps]
    BY <1>b, BookParts
  <2> QED BY <2>1, <2>2
<1> QED BY <1>3, <1>4, <1>5, <1>9 DEF n, row

\* unmap takes the file of an entry away, wherever it is.
LEMMA BookUnmapped ==
    ASSUME NEW b, Own!IsBook(b), NEW r \in AllRows
    PROVE  LET n == Own!Where(b, {r}, Own!Deleted({r})) IN
           /\ Own!IsBook(n) /\ n.state = b.state
           /\ ~n.rows[r].there /\ \A x \in AllRows \ {r} : n.rows[x] = b.rows[x]
           /\ Own!Book(n) = [Own!Book(b) EXCEPT
                !.image = @ \ {r}, !.binary = @ \ {r},
                !.held = {h \in @ : <<h[1], h[2]>> # r}]
<1> DEFINE row == Own!Deleted({r})
           n == Own!Where(b, {r}, row)
           X == {h \in Own!Book(b).held : <<h[1], h[2]>> # r}
<1>b. b \in Own!BookType /\ b.rows \in [AllRows -> RowType]
  BY DEF Own!IsBook, Own!BookType, AllRows, RowType
<1>2. row[r] \in RowType /\ ~row[r].there /\ ~row[r].active
  <2> DEFINE z == [there |-> FALSE, at |-> None, active |-> FALSE, binary |-> FALSE]
  <2>1. row[r] = z
    BY DEF Own!Deleted, Own!NoRow
  <2>2. z \in RowType /\ ~z.there /\ ~z.active
    BY DEF RowType
  <2> HIDE DEF z, row
  <2> QED BY <2>1, <2>2
<1>0. row = Own!Deleted({r}) /\ n = Own!Where(b, {r}, row)
  OBVIOUS
<1> HIDE DEF row
<1>3. /\ n \in Own!BookType /\ n.state = b.state /\ n.deps = b.deps
      /\ \A x \in AllRows : n.rows[x] = IF x \in {r} THEN row[x] ELSE b.rows[x]
  BY <1>2, <1>b, WhereRows
<1> HIDE DEF n
<1>4. ~n.rows[r].there /\ ~n.rows[r].active /\ \A x \in AllRows \ {r} : n.rows[x] = b.rows[x]
  BY <1>2, <1>3
<1>5. Own!IsBook(n)
  BY <1>3, <1>4 DEF Own!IsBook, Own!There, AllRows
<1>6. /\ \A x : x \in Own!Book(n).image <=> x \in Own!Book(b).image /\ x \in AllRows \ {r}
      /\ \A x : x \in Own!Book(n).binary <=> x \in Own!Book(b).binary /\ x \in AllRows \ {r}
      /\ \A h : h \in Own!Book(n).held
              <=> h \in Own!Book(b).held /\ <<h[1], h[2]>> \in AllRows \ {r}
  <2> DEFINE K == AllRows \ {r}
  <2>1. \A x \in AllRows \ K : ~n.rows[x].there
    BY <1>4
  <2>2. K \in SUBSET AllRows /\ \A x \in K : n.rows[x] = b.rows[x]
    BY <1>4
  <2>4. n \in Own!BookType /\ b \in Own!BookType /\ K \in SUBSET AllRows
    BY <1>b, <1>3, <2>2
  <2>5. \A x \in K : n.rows[x] = b.rows[x]
    BY <2>2
  <2> HIDE DEF K
  <2>3. /\ \A x : x \in Own!Book(n).image <=> x \in Own!Book(b).image /\ x \in K
        /\ \A x : x \in Own!Book(n).binary <=> x \in Own!Book(b).binary /\ x \in K
        /\ \A h : h \in Own!Book(n).held <=> h \in Own!Book(b).held /\ <<h[1], h[2]>> \in K
    BY ONLY ZenonT(60), <2>1, <2>4, <2>5, RowsKept
  <2> QED BY <2>3 DEF K
<1>7. /\ Own!Book(n).image = Own!Book(b).image \ {r}
      /\ Own!Book(n).binary = Own!Book(b).binary \ {r}
  <2>1. Own!Book(b).image \subseteq AllRows /\ Own!Book(b).binary \subseteq AllRows
    BY <1>b, BookParts
  <2> QED BY <1>6, <2>1
<1>8. Own!Book(n).held = X
  <2>1. \A h \in Own!Book(b).held : <<h[1], h[2]>> \in AllRows
    BY <1>b, HeldParts
  <2> QED BY <1>6, <2>1
<1>9. Own!Book(n) = [Own!Book(b) EXCEPT !.image = @ \ {r}, !.binary = @ \ {r}, !.held = X]
  <2> DEFINE I == Own!Book(b).image \ {r}
             C == Own!Book(b).binary \ {r}
  <2>0. Own!Book(n).image = I /\ Own!Book(n).binary = C
    BY <1>7
  <2> SUFFICES Own!Book(n) = [Own!Book(b) EXCEPT !.image = I, !.binary = C, !.held = X]
    OBVIOUS
  <2> HIDE DEF I, C, X
  <2>1. Own!Book(n) = [state |-> b.state, image |-> I, held |-> X, binary |-> C, deps |-> b.deps]
    BY <1>3, <2>0, <1>8, BookParts
  <2> DEFINE bk == Own!Book(b)
  <2>2. bk = [state |-> bk.state, image |-> bk.image, held |-> bk.held, binary |-> bk.binary,
              deps |-> bk.deps]
    BY <1>b, BookParts
  <2>3. bk.state = b.state /\ bk.deps = b.deps
    BY <1>b, BookParts
  <2> HIDE DEF bk
  <2>4. [bk EXCEPT !.image = I, !.binary = C, !.held = X]
          = [state |-> bk.state, image |-> I, held |-> X, binary |-> C, deps |-> bk.deps]
    <3> DEFINE b1 == [bk EXCEPT !.image = I]
               b2 == [b1 EXCEPT !.binary = C]
               b3 == [b2 EXCEPT !.held = X]
    <3>1. b1 = [state |-> bk.state, image |-> I, held |-> bk.held, binary |-> bk.binary,
                deps |-> bk.deps]
      BY ONLY <2>2
    <3> HIDE DEF b1
    <3>2. b2 = [state |-> bk.state, image |-> I, held |-> bk.held, binary |-> C, deps |-> bk.deps]
      BY ONLY <3>1
    <3> HIDE DEF b2
    <3>3. b3 = [state |-> bk.state, image |-> I, held |-> X, binary |-> C, deps |-> bk.deps]
      BY ONLY <3>2
    <3>4. [bk EXCEPT !.image = I, !.binary = C, !.held = X] = b3
      BY ONLY DEF b1, b2
    <3> QED BY <3>3, <3>4
  <2> QED BY <2>1, <2>3, <2>4 DEF bk
<1> QED BY <1>0, <1>3, <1>4, <1>5, <1>9

\* A statement that meets no row changes nothing.
LEMMA NoRowsMet ==
    ASSUME NEW b \in Own!BookType, NEW row
    PROVE  Own!Where(b, {}, row) = b
<1>1. b.rows \in [AllRows -> RowType] /\ DOMAIN b.rows = AllRows
  BY DEF Own!BookType, AllRows, RowType
<1> DEFINE rs == [r \in AllRows |-> IF r \in {} THEN row[r] ELSE b.rows[r]]
<1>2. rs = b.rows
  BY <1>1
<1>3. Own!Where(b, {}, row) = [b EXCEPT !.rows = rs]
  BY <1>1 DEF Own!Where
<1> HIDE DEF rs
<1>4. [b EXCEPT !.rows = b.rows] = b
  BY DEF Own!BookType
<1> QED BY <1>2, <1>3, <1>4

\* deactivate: the entry has no file at the path any more.
IsReleased(b, n, e, q) ==
    /\ Own!IsBook(n) /\ n.state = b.state
    /\ q \notin Own!Files(n, e) /\ Own!Files(n, e) \subseteq Own!Files(b, e)
    /\ Own!Book(n) = [Own!Book(b) EXCEPT !.held = {h \in @ : h[1] # e \/ h[3] # q}]
LEMMA BookReleased ==
    ASSUME NEW b, Own!IsBook(b), NEW e, NEW q,
           NEW S, \A r : r \in S <=> r \in Own!Rows(b) /\ r[1] = e /\ b.rows[r].at = q,
           NEW n, n = Own!Where(b, S, Own!Unplaced(b, S))
    PROVE  IsReleased(b, n, e, q)
<1> DEFINE row == Own!Unplaced(b, S)
           X == {h \in Own!Book(b).held : h[1] # e \/ h[3] # q}
<1>b. b \in Own!BookType /\ b.rows \in [AllRows -> RowType]
  BY DEF Own!IsBook, Own!BookType, AllRows, RowType
<1>1. S \in SUBSET AllRows /\ \A r : r \in S <=> r \in AllRows /\ b.rows[r].there
                                                  /\ r[1] = e /\ b.rows[r].at = q
  BY DEF Own!Rows, AllRows
<1>2. ASSUME NEW r \in S
      PROVE  /\ row[r] \in RowType /\ ~row[r].active /\ row[r].there = b.rows[r].there
             /\ row[r].at = b.rows[r].at /\ row[r].binary = b.rows[r].binary
  <2>1. row[r] = [b.rows[r] EXCEPT !.active = FALSE]
    BY DEF Own!Unplaced
  <2>2. b.rows[r] \in RowType
    BY <1>b, <1>1
  <2> QED BY <2>1, <2>2 DEF RowType
<1>0. n = Own!Where(b, S, row)
  OBVIOUS
<1> HIDE DEF row
<1>3. /\ n \in Own!BookType /\ n.state = b.state /\ n.deps = b.deps
      /\ \A r \in AllRows : n.rows[r] = IF r \in S THEN row[r] ELSE b.rows[r]
  <2>1. b \in Own!BookType
    BY <1>b
  <2>2. S \in SUBSET AllRows
    BY <1>1
  <2>3. \A r \in S : row[r] \in RowType
    BY <1>2
  <2> QED BY ONLY <2>1, <2>2, <2>3, <1>0, WhereRows
<1>4. \A r \in AllRows : /\ n.rows[r].there = b.rows[r].there /\ n.rows[r].at = b.rows[r].at
                         /\ n.rows[r].binary = b.rows[r].binary
                         /\ r \in S => ~n.rows[r].active
                         /\ r \notin S => n.rows[r].active = b.rows[r].active
  BY <1>2, <1>3
<1>5. Own!IsBook(n)
  BY <1>3, <1>4 DEF Own!IsBook, Own!There, AllRows
<1>6. Own!Book(n).image = Own!Book(b).image /\ Own!Book(n).binary = Own!Book(b).binary
  BY <1>4, <1>b, <1>3, SameParts
<1>7. \A h : h \in Own!Book(n).held
        <=> h \in Own!Book(b).held /\ <<h[1], h[2]>> \in AllRows \ S
  <2>0. PICK K \in SUBSET AllRows : K = AllRows \ S
    OBVIOUS
  <2>1. \A r \in K : /\ n.rows[r].there = b.rows[r].there /\ n.rows[r].active = b.rows[r].active
                     /\ n.rows[r].at = b.rows[r].at
    BY <1>4, <2>0
  <2>2. \A r \in AllRows \ K : ~(n.rows[r].there /\ n.rows[r].active)
    BY <1>4, <2>0
  <2>3. b \in Own!BookType /\ n \in Own!BookType
    BY <1>b, <1>3
  <2>4. \A h : h \in Own!Book(n).held <=> h \in Own!Book(b).held /\ <<h[1], h[2]>> \in K
    <3>1. PICK m \in Own!BookType : m = n
      BY <2>3
    <3>2. \A r \in K : /\ m.rows[r].there = b.rows[r].there
                       /\ m.rows[r].active = b.rows[r].active
                       /\ m.rows[r].at = b.rows[r].at
      BY <2>1, <3>1
    <3>3. \A r \in AllRows \ K : ~(m.rows[r].there /\ m.rows[r].active)
      BY <2>2, <3>1
    <3>4. \A h : h \in Own!Book(m).held <=> h \in Own!Book(b).held /\ <<h[1], h[2]>> \in K
      BY ZenonT(60), <2>3, <3>2, <3>3, HeldKept
    <3> QED BY <3>1, <3>4
  <2> QED BY <2>4, <2>0
<1>8. Own!Book(n).held = X
  <2>1. ASSUME NEW h \in Own!Book(b).held
        PROVE  <<h[1], h[2]>> \in AllRows \ S <=> h[1] # e \/ h[3] # q
    <3>1. /\ <<h[1], h[2]>> \in AllRows /\ b.rows[<<h[1], h[2]>>].there
          /\ h[3] = b.rows[<<h[1], h[2]>>].at
      BY <1>b, HeldParts
    <3>2. <<h[1], h[2]>>[1] = h[1]
      OBVIOUS
    <3> QED BY <3>1, <3>2, <1>1
  <2> QED BY <1>7, <2>1
<1>9. Own!Book(n) = [Own!Book(b) EXCEPT !.held = X]
  <2> HIDE DEF X
  <2>1. Own!Book(n) = [state |-> b.state, image |-> Own!Book(b).image, held |-> X,
                       binary |-> Own!Book(b).binary, deps |-> b.deps]
    BY <1>3, <1>6, <1>8, BookParts
  <2>2. Own!Book(b) = [state |-> b.state, image |-> Own!Book(b).image,
                       held |-> Own!Book(b).held, binary |-> Own!Book(b).binary, deps |-> b.deps]
    BY <1>b, BookParts
  <2> QED BY <2>1, <2>2
<1>10. q \notin Own!Files(n, e) /\ Own!Files(n, e) \subseteq Own!Files(b, e)
  <2>1. ASSUME NEW f \in Own!Files(n, e) PROVE f # q /\ f \in Own!Files(b, e)
    <3>1. PICK r \in Own!Rows(n) : r[1] = e /\ n.rows[r].active /\ f = n.rows[r].at
      BY DEF Own!Files
    <3>2. r \in AllRows /\ n.rows[r].there
      BY <3>1 DEF Own!Rows, AllRows
    <3>3. r \notin S
      BY <3>1, <3>2, <1>4
    <3>4. b.rows[r].there /\ b.rows[r].active /\ f = b.rows[r].at /\ f # q
      BY <1>1, <1>4, <3>1, <3>2, <3>3
    <3>5. r \in Own!Rows(b)
      BY <3>2, <3>4 DEF Own!Rows, AllRows
    <3> QED BY <3>1, <3>4, <3>5 DEF Own!Files
  <2> QED BY <2>1
<1> QED BY <1>3, <1>5, <1>9, <1>10 DEF IsReleased

\* registry::file binary: the row of the object, where it is still there.
LEMMA BookClassified ==
    ASSUME NEW b, Own!IsBook(b), NEW r \in AllRows
    PROVE  LET n == Own!FilePropset(b, r) IN
           /\ Own!IsBook(n) /\ n.state = b.state
           /\ \/ Own!Book(n) = Own!Book(b)
              \/ /\ r \in Own!Book(b).image
                 /\ Own!Book(n) = [Own!Book(b) EXCEPT !.binary = @ \cup {r}]
<1>b. b \in Own!BookType /\ b.rows \in [AllRows -> RowType]
  BY DEF Own!IsBook, Own!BookType, AllRows, RowType
<1>1. CASE r \notin Own!Rows(b)
  <2>1. {r} \cap Own!Rows(b) = {}
    BY <1>1
  <2>2. Own!FilePropset(b, r) = b
    BY <2>1, <1>b, NoRowsMet DEF Own!FilePropset
  <2> QED BY <2>2
<1>2. CASE r \in Own!Rows(b)
  <2> DEFINE row == [s \in {r} |-> [b.rows[s] EXCEPT !.binary = TRUE]]
             n == Own!Where(b, {r}, row)
  <2>0. Own!FilePropset(b, r) = n
    <3>1. {r} \cap Own!Rows(b) = {r}
      BY <1>2
    <3> QED BY <3>1 DEF Own!FilePropset
  <2>1. /\ row[r] \in RowType /\ row[r].binary /\ row[r].there = b.rows[r].there
        /\ row[r].at = b.rows[r].at /\ row[r].active = b.rows[r].active
    <3>1. row[r] = [b.rows[r] EXCEPT !.binary = TRUE]
      OBVIOUS
    <3>2. b.rows[r] \in RowType
      BY <1>b
    <3> QED BY <3>1, <3>2 DEF RowType
  <2> HIDE DEF row
  <2>3. /\ n \in Own!BookType /\ n.state = b.state /\ n.deps = b.deps
        /\ \A x \in AllRows : n.rows[x] = IF x \in {r} THEN row[x] ELSE b.rows[x]
    <3>1. b \in Own!BookType
      BY <1>b
    <3>2. {r} \in SUBSET AllRows
      OBVIOUS
    <3>3. \A x \in {r} : row[x] \in RowType
      BY <2>1
    <3> QED BY <3>1, <3>2, <3>3, WhereRows
  <2> HIDE DEF n
  <2>4. \A x \in AllRows : /\ n.rows[x].there = b.rows[x].there /\ n.rows[x].at = b.rows[x].at
                           /\ n.rows[x].active = b.rows[x].active
                           /\ x # r => n.rows[x].binary = b.rows[x].binary
    BY <2>1, <2>3
  <2>5. Own!IsBook(n)
    BY <2>3, <2>4 DEF Own!IsBook, Own!There, AllRows
  <2>6. Own!Book(n).image = Own!Book(b).image /\ Own!Book(n).held = Own!Book(b).held
    BY <2>4, <1>b, <2>3, SameParts
  <2>7. r \in Own!Book(b).image /\ b.rows[r].there
    BY <1>2 DEF Own!Book, Own!Rows
  <2>8. Own!Book(n).binary = Own!Book(b).binary \cup {r}
    <3>1. n.rows[r].binary
      BY <2>1, <2>3
    <3>2. \A x : x \in Own!Book(n).binary <=> x \in Own!Book(b).binary \cup {r}
      BY <3>1, <2>3, <2>4, <2>7, <1>b, BookParts
    <3> QED BY <3>2
  <2>9. Own!Book(n) = [Own!Book(b) EXCEPT !.binary = @ \cup {r}]
    <3> DEFINE C == Own!Book(b).binary \cup {r}
    <3>1. Own!Book(n).binary = C
      BY <2>8
    <3> SUFFICES Own!Book(n) = [Own!Book(b) EXCEPT !.binary = C]
      OBVIOUS
    <3> HIDE DEF C
    <3>2. Own!Book(n) = [state |-> b.state, image |-> Own!Book(b).image,
                         held |-> Own!Book(b).held, binary |-> C, deps |-> b.deps]
      BY <2>3, <2>6, <3>1, BookParts
    <3>3. Own!Book(b) = [state |-> b.state, image |-> Own!Book(b).image,
                         held |-> Own!Book(b).held, binary |-> Own!Book(b).binary, deps |-> b.deps]
      BY <1>b, BookParts
    <3> QED BY <3>2, <3>3
  <2> QED BY <2>0, <2>3, <2>5, <2>7, <2>9
<1> QED BY <1>1, <1>2

\* The state of an entry is changed, and no file of it.
LEMMA BookState ==
    ASSUME NEW b, Own!IsBook(b), NEW e \in Entries, NEW s \in {"imaged", "installed"}
    PROVE  LET n == [b EXCEPT !.state[e] = s] IN
           /\ Own!IsBook(n) /\ \A x \in Entries : Own!There(b, x) => Own!There(n, x)
           /\ n.rows = b.rows
           /\ Own!Book(n) = [Own!Book(b) EXCEPT !.state[e] = s]
<1> DEFINE st == [b.state EXCEPT ![e] = s]
           n == [b EXCEPT !.state[e] = s]
<1>b. b \in Own!BookType
  BY DEF Own!IsBook
<1>1. b.state \in [Entries -> {"unmade", "imaged", "installed", "gone"}]
  BY <1>b DEF Own!BookType
<1>2. /\ st \in [Entries -> {"unmade", "imaged", "installed", "gone"}]
      /\ \A x \in Entries : x # e => st[x] = b.state[x]
      /\ st[e] = s
  BY <1>1
<1>3. n = [b EXCEPT !.state = st]
  OBVIOUS
<1> HIDE DEF st, n
<1>4. n \in Own!BookType /\ n.state = st /\ n.rows = b.rows /\ n.deps = b.deps
  BY <1>2, <1>3, <1>b DEF Own!BookType
<1>5. \A x \in Entries : Own!There(b, x) => Own!There(n, x)
  BY <1>2, <1>4 DEF Own!There
<1>6. Own!IsBook(n)
  <2>1. \A d \in b.deps : d[1] \in Entries /\ Own!There(b, d[1])
    BY <1>b DEF Own!IsBook, Own!BookType
  <2> QED BY <1>4, <1>5, <2>1 DEF Own!IsBook
<1>8. Own!Book(n) = [Own!Book(b) EXCEPT !.state = st]
  <2>1. /\ Own!Book(n).image = Own!Book(b).image /\ Own!Book(n).held = Own!Book(b).held
        /\ Own!Book(n).binary = Own!Book(b).binary
    BY <1>4, <1>b, SameParts
  <2>2. Own!Book(n) = [state |-> st, image |-> Own!Book(b).image, held |-> Own!Book(b).held,
                       binary |-> Own!Book(b).binary, deps |-> b.deps]
    BY <1>4, <2>1, BookParts
  <2>3. Own!Book(b) = [state |-> b.state, image |-> Own!Book(b).image,
                       held |-> Own!Book(b).held, binary |-> Own!Book(b).binary, deps |-> b.deps]
    BY <1>b, BookParts
  <2> QED BY <2>2, <2>3
<1>9. Own!Book(b).state = b.state
  BY <1>b, BookParts
<1>10. [Own!Book(b) EXCEPT !.state[e] = s] = [Own!Book(b) EXCEPT !.state = st]
  BY <1>9 DEF st
<1> QED BY <1>4, <1>5, <1>6, <1>8, <1>10 DEF n

\* A dependency is entered for an entry that is there.
LEMMA BookDepends ==
    ASSUME NEW b, Own!IsBook(b), NEW e \in Entries, NEW x \in Entries, Own!There(b, e)
    PROVE  LET n == [b EXCEPT !.deps = @ \cup {<<e, Name[x]>>}] IN
           /\ Own!IsBook(n) /\ n.state = b.state /\ n.rows = b.rows
           /\ Own!Book(n) = [Own!Book(b) EXCEPT !.deps = @ \cup {<<e, Name[x]>>}]
<1> DEFINE ds == b.deps \cup {<<e, Name[x]>>}
           n == [b EXCEPT !.deps = @ \cup {<<e, Name[x]>>}]
<1>b. b \in Own!BookType
  BY DEF Own!IsBook
<1>1. n = [b EXCEPT !.deps = ds]
  OBVIOUS
<1>2. ds \in SUBSET (Entries \X {Name[y] : y \in Entries})
  BY <1>b DEF Own!BookType
<1>3. \A d \in ds : Own!There(b, d[1])
  BY DEF Own!IsBook
<1> HIDE DEF ds, n
<1>4. n \in Own!BookType /\ n.state = b.state /\ n.rows = b.rows /\ n.deps = ds
  BY <1>1, <1>2, <1>b DEF Own!BookType
<1>5. Own!IsBook(n)
  BY <1>3, <1>4 DEF Own!IsBook, Own!There
<1>8. Own!Book(n) = [Own!Book(b) EXCEPT !.deps = ds]
  <2>1. /\ Own!Book(n).image = Own!Book(b).image /\ Own!Book(n).held = Own!Book(b).held
        /\ Own!Book(n).binary = Own!Book(b).binary
    BY <1>4, <1>b, SameParts
  <2>2. Own!Book(n) = [state |-> b.state, image |-> Own!Book(b).image, held |-> Own!Book(b).held,
                       binary |-> Own!Book(b).binary, deps |-> ds]
    BY <1>4, <2>1, BookParts
  <2>3. Own!Book(b) = [state |-> b.state, image |-> Own!Book(b).image,
                       held |-> Own!Book(b).held, binary |-> Own!Book(b).binary, deps |-> b.deps]
    BY <1>b, BookParts
  <2> QED BY <2>2, <2>3
<1>9. Own!Book(b).deps = b.deps
  BY <1>b, BookParts
<1>10. [Own!Book(b) EXCEPT !.deps = @ \cup {<<e, Name[x]>>}] = [Own!Book(b) EXCEPT !.deps = ds]
  BY <1>9 DEF ds
<1> QED BY <1>4, <1>5, <1>8, <1>10 DEF n

\* An entry is deleted with all its files and dependencies.
LEMMA BookDeleted ==
    ASSUME NEW b, Own!IsBook(b), NEW e \in Entries
    PROVE  LET n == [state |-> [b.state EXCEPT ![e] = "gone"],
                     rows |-> [r \in DOMAIN b.rows |-> IF r[1] = e THEN Own!NoRow ELSE b.rows[r]],
                     deps |-> {d \in b.deps : d[1] # e}]
               o == Own!Book(b) IN
           /\ Own!IsBook(n)
           /\ Own!Book(n) =
                [state |-> [o.state EXCEPT ![e] = "gone"],
                 image |-> {f \in o.image : f[1] # e}, held |-> {h \in o.held : h[1] # e},
                 binary |-> {f \in o.binary : f[1] # e}, deps |-> {d \in o.deps : d[1] # e}]
<1> DEFINE st == [b.state EXCEPT ![e] = "gone"]
           rs == [r \in AllRows |-> IF r[1] = e THEN Own!NoRow ELSE b.rows[r]]
           ds == {d \in b.deps : d[1] # e}
           n == [state |-> st, rows |-> rs, deps |-> ds]
           o == Own!Book(b)
<1>b. b \in Own!BookType /\ b.rows \in [AllRows -> RowType]
  BY DEF Own!IsBook, Own!BookType, AllRows, RowType
<1>0. [r \in DOMAIN b.rows |-> IF r[1] = e THEN Own!NoRow ELSE b.rows[r]] = rs
  BY <1>b
<1>1. b.state \in [Entries -> {"unmade", "imaged", "installed", "gone"}]
  BY <1>b DEF Own!BookType
<1>2. /\ st \in [Entries -> {"unmade", "imaged", "installed", "gone"}]
      /\ \A x \in Entries : x # e => st[x] = b.state[x]
  BY <1>1
<1>3. Own!NoRow \in RowType /\ ~Own!NoRow.there /\ ~Own!NoRow.active
  BY DEF Own!NoRow, RowType
<1>4. rs \in [AllRows -> RowType]
  BY <1>b, <1>3
<1>5. \A r \in AllRows : rs[r] = IF r[1] = e THEN Own!NoRow ELSE b.rows[r]
  OBVIOUS
<1>6. ds \in SUBSET (Entries \X {Name[y] : y \in Entries})
  BY <1>b DEF Own!BookType
<1>7. \A d \in ds : d[1] \in Entries /\ d[1] # e /\ Own!There(b, d[1])
  BY <1>6 DEF Own!IsBook
<1>8. n.state = st /\ n.rows = rs /\ n.deps = ds
  OBVIOUS
<1>9. n \in Own!BookType
  BY <1>2, <1>4, <1>6 DEF Own!BookType, AllRows, RowType
<1>10. o.state = b.state /\ o.deps = b.deps
  BY <1>b, BookParts
<1> HIDE DEF n, st, rs
<1>11. Own!IsBook(n)
  <2>1. \A r \in AllRows : n.rows[r].active => n.rows[r].at # None
    BY <1>3, <1>5, <1>8 DEF Own!IsBook, AllRows
  <2>2. \A d \in n.deps : Own!There(n, d[1])
    BY <1>2, <1>7, <1>8 DEF Own!There
  <2> QED BY <2>1, <2>2, <1>9 DEF Own!IsBook, AllRows
<1>12. PICK K \in SUBSET AllRows : K = {r \in AllRows : r[1] # e}
  OBVIOUS
<1>13. PICK m \in Own!BookType : m = n
  BY <1>9
<1>14. \A r \in K : m.rows[r] = b.rows[r]
  BY <1>5, <1>8, <1>12, <1>13
<1>15. \A r \in AllRows \ K : ~m.rows[r].there
  BY <1>3, <1>5, <1>8, <1>12, <1>13
<1>16. /\ \A x : x \in Own!Book(m).image <=> x \in Own!Book(b).image /\ x \in K
       /\ \A x : x \in Own!Book(m).binary <=> x \in Own!Book(b).binary /\ x \in K
       /\ \A h : h \in Own!Book(m).held <=> h \in Own!Book(b).held /\ <<h[1], h[2]>> \in K
  BY ZenonT(60), <1>b, <1>14, <1>15, RowsKept
<1>17. /\ o.image \subseteq AllRows /\ o.binary \subseteq AllRows
       /\ \A h \in o.held : <<h[1], h[2]>> \in AllRows
  BY <1>b, BookParts, HeldParts
<1>18. Own!Book(n).image = {f \in o.image : f[1] # e}
  BY <1>12, <1>13, <1>16, <1>17
<1>19. Own!Book(n).binary = {f \in o.binary : f[1] # e}
  BY <1>12, <1>13, <1>16, <1>17
<1>20. Own!Book(n).held = {h \in o.held : h[1] # e}
  <2>1. \A h \in o.held : <<h[1], h[2]>> \in K <=> h[1] # e
    <3>1. ASSUME NEW h \in o.held PROVE <<h[1], h[2]>> \in K <=> h[1] # e
      <4>1. <<h[1], h[2]>>[1] = h[1] /\ <<h[1], h[2]>> \in AllRows
        BY <1>17
      <4> QED BY <4>1, <1>12
    <3> QED BY <3>1
  <2> QED BY <1>13, <1>16, <2>1
<1>21. Own!Book(n) = [state |-> n.state, image |-> Own!Book(n).image,
                      held |-> Own!Book(n).held, binary |-> Own!Book(n).binary, deps |-> n.deps]
  BY <1>9, BookParts
<1>22. Own!Book(n) =
         [state |-> st, image |-> {f \in o.image : f[1] # e}, held |-> {h \in o.held : h[1] # e},
          binary |-> {f \in o.binary : f[1] # e}, deps |-> ds]
  BY <1>21, <1>18, <1>19, <1>20, <1>8, Zenon
<1> QED BY <1>0, <1>10, <1>11, <1>22 DEF n, st, rs

\* A question is answered from the parts of the registry.
LEMMA OwnerFound ==
    ASSUME NEW b, Own!IsBook(b), NEW q
    PROVE  Own!Owner(b, q) = Own!Owners!Found(Own!Book(b), "owner", q)
<1>b. b \in Own!BookType
  BY DEF Own!IsBook
<1>1. ASSUME NEW x \in Own!Owner(b, q) PROVE \E h \in Own!Book(b).held : h[3] = q /\ x = h[1]
  <2>1. PICK r \in AllRows : b.rows[r].there /\ b.rows[r].active /\ b.rows[r].at = q /\ x = r[1]
    BY DEF Own!Owner, Own!Active, Own!Rows, AllRows
  <2>2. <<r[1], r[2], q>> \in Own!Book(b).held
    BY <1>b, <2>1, RowIsPair, HeldRow
  <2>3. <<r[1], r[2], q>>[3] = q /\ <<r[1], r[2], q>>[1] = x
    BY <2>1
  <2> QED BY <2>2, <2>3
<1>2. ASSUME NEW h \in Own!Book(b).held, h[3] = q PROVE h[1] \in Own!Owner(b, q)
  <2>1. /\ <<h[1], h[2]>> \in AllRows /\ b.rows[<<h[1], h[2]>>].there
        /\ b.rows[<<h[1], h[2]>>].active /\ q = b.rows[<<h[1], h[2]>>].at
    BY <1>b, <1>2, HeldParts
  <2>2. <<h[1], h[2]>> \in Own!Active(b, q)
    BY <2>1 DEF Own!Active, Own!Rows, AllRows
  <2>3. <<h[1], h[2]>>[1] = h[1]
    OBVIOUS
  <2> QED BY <2>2, <2>3 DEF Own!Owner
<1>3. Own!Owners!Found(Own!Book(b), "owner", q) = {h[1] : h \in {k \in Own!Book(b).held : k[3] = q}}
  BY DEF Own!Owners!Found
<1>4. Own!Owner(b, q) = {h[1] : h \in {k \in Own!Book(b).held : k[3] = q}}
  BY <1>1, <1>2
<1> QED BY <1>3, <1>4

LEMMA FilesFound ==
    ASSUME NEW b, Own!IsBook(b), NEW e
    PROVE  Own!Files(b, e) = Own!Owners!Found(Own!Book(b), "files", e)
<1>b. b \in Own!BookType
  BY DEF Own!IsBook
<1>1. ASSUME NEW x \in Own!Files(b, e) PROVE \E h \in Own!Book(b).held : h[1] = e /\ x = h[3]
  <2>1. PICK r \in AllRows : b.rows[r].there /\ b.rows[r].active /\ r[1] = e /\ x = b.rows[r].at
    BY DEF Own!Files, Own!Rows, AllRows
  <2>2. <<r[1], r[2], x>> \in Own!Book(b).held
    BY <1>b, <2>1, RowIsPair, HeldRow
  <2>3. <<r[1], r[2], x>>[3] = x /\ <<r[1], r[2], x>>[1] = e
    BY <2>1
  <2> QED BY <2>2, <2>3
<1>2. ASSUME NEW h \in Own!Book(b).held, h[1] = e PROVE h[3] \in Own!Files(b, e)
  <2>1. /\ <<h[1], h[2]>> \in AllRows /\ b.rows[<<h[1], h[2]>>].there
        /\ b.rows[<<h[1], h[2]>>].active /\ h[3] = b.rows[<<h[1], h[2]>>].at
    BY <1>b, HeldParts
  <2>2. <<h[1], h[2]>> \in Own!Rows(b) /\ <<h[1], h[2]>>[1] = e
    BY <2>1, <1>2 DEF Own!Rows, AllRows
  <2> QED BY <2>1, <2>2 DEF Own!Files
<1>3. Own!Owners!Found(Own!Book(b), "files", e) = {h[3] : h \in {k \in Own!Book(b).held : k[1] = e}}
  BY DEF Own!Owners!Found
<1>4. Own!Files(b, e) = {h[3] : h \in {k \in Own!Book(b).held : k[1] = e}}
  BY <1>1, <1>2
<1> QED BY <1>3, <1>4

LEMMA ImageFound ==
    ASSUME NEW b, Own!IsBook(b), NEW e
    PROVE  Own!ImageFiles(b, e) = Own!Owners!Found(Own!Book(b), "imagefiles", e)
<1>1. Own!Book(b).image = Own!Rows(b)
  BY DEF Own!Book
<1> QED BY <1>1 DEF Own!Owners!Found, Own!ImageFiles

LEMMA StatesFound ==
    ASSUME NEW b, Own!IsBook(b), NEW n
    PROVE  /\ Own!Imaged(b, n) = Own!Owners!Found(Own!Book(b), "imaged", n)
           /\ Own!Installed(b, n) = Own!Owners!Found(Own!Book(b), "installed", n)
<1>1. Own!Book(b).state = b.state
  BY DEF Own!Book
<1>2. Own!Owners!Found(Own!Book(b), "imaged", n)
        = {e \in Entries : Name[e] = n /\ b.state[e] \in {"imaged", "installed"}}
  BY <1>1 DEF Own!Owners!Found, Own!Owners!There
<1>3. Own!Owners!Found(Own!Book(b), "installed", n)
        = {e \in Entries : Name[e] = n /\ b.state[e] = "installed"}
  BY <1>1 DEF Own!Owners!Found
<1>4. Own!Imaged(b, n) = {e \in Entries : Name[e] = n /\ b.state[e] \in {"imaged", "installed"}}
  BY DEF Own!Imaged, Own!There
<1>5. Own!Installed(b, n) = {e \in Entries : Name[e] = n /\ b.state[e] = "installed"}
  BY <1>4 DEF Own!Installed
<1> QED BY <1>2, <1>3, <1>4, <1>5

LEMMA DependsFound ==
    ASSUME NEW b, Own!IsBook(b), NEW e
    PROVE  /\ Own!Dependents(b, e) = Own!Owners!Found(Own!Book(b), "dependents", e)
           /\ Own!Dependencies(b, e) = Own!Owners!Found(Own!Book(b), "dependencies", e)
<1>1. Own!Book(b).state = b.state /\ Own!Book(b).deps = b.deps
  BY DEF Own!Book
<1>2. Own!Owners!Found(Own!Book(b), "dependents", e)
        = {d \in Entries : Own!There(b, e) /\ <<d, Name[e]>> \in b.deps}
  BY <1>1 DEF Own!Owners!Found, Own!Owners!There, Own!There
<1>3. Own!Owners!Found(Own!Book(b), "dependencies", e)
        = {d \in Entries : Own!There(b, d) /\ <<e, Name[d]>> \in b.deps}
  BY <1>1 DEF Own!Owners!Found, Own!Owners!There, Own!There
<1>4. \A d : <<d, Name[e]>> \in b.deps => Own!There(b, d)
  <2>1. \A x \in b.deps : Own!There(b, x[1])
    BY DEF Own!IsBook
  <2>2. ASSUME NEW d, <<d, Name[e]>> \in b.deps PROVE Own!There(b, d)
    <3>1. <<d, Name[e]>>[1] = d
      OBVIOUS
    <3> QED BY <2>1, <2>2, <3>1
  <2> QED BY <2>2
<1>5. Own!Dependents(b, e) = {d \in Entries : Own!There(b, e) /\ <<d, Name[e]>> \in b.deps}
  BY <1>4 DEF Own!Dependents
<1>6. Own!Dependencies(b, e) = {d \in Entries : Own!There(b, d) /\ <<e, Name[d]>> \in b.deps}
  BY DEF Own!Dependencies
<1> QED BY <1>2, <1>3, <1>5, <1>6

LEMMA SearchFound ==
    ASSUME NEW b, Own!IsBook(b)
    PROVE  Own!Unclassified(b) = Own!Owners!Found(Own!Book(b), "search", None)
<1>b. b \in Own!BookType
  BY DEF Own!IsBook
<1>0. \A r : r \in Own!Unclassified(b)
        <=> r \in AllRows /\ b.rows[r].there /\ b.rows[r].active /\ ~b.rows[r].binary
  BY DEF Own!Unclassified, Own!Rows, AllRows
<1>1. ASSUME NEW r \in Own!Unclassified(b)
      PROVE  r \notin Own!Book(b).binary /\ \E h \in Own!Book(b).held : r = <<h[1], h[2]>>
  <2>1. r = <<r[1], r[2]>> /\ <<r[1], r[2], b.rows[r].at>> \in Own!Book(b).held
    BY <1>0, <1>b, RowIsPair, HeldRow
  <2> DEFINE h == <<r[1], r[2], b.rows[r].at>>
  <2>2. h[1] = r[1] /\ h[2] = r[2]
    OBVIOUS
  <2>3. r \notin Own!Book(b).binary
    BY <1>0, <1>b, BookParts
  <2> QED BY <2>1, <2>2, <2>3
<1>2. ASSUME NEW h \in Own!Book(b).held, <<h[1], h[2]>> \notin Own!Book(b).binary
      PROVE  <<h[1], h[2]>> \in Own!Unclassified(b)
  <2>1. /\ <<h[1], h[2]>> \in AllRows /\ b.rows[<<h[1], h[2]>>].there
        /\ b.rows[<<h[1], h[2]>>].active
    BY <1>b, HeldParts
  <2>2. ~b.rows[<<h[1], h[2]>>].binary
    BY <1>2, <1>b, <2>1, BookParts
  <2> QED BY <1>0, <2>1, <2>2
<1>3. Own!Owners!Found(Own!Book(b), "search", None)
        = {<<h[1], h[2]>> : h \in Own!Book(b).held} \ Own!Book(b).binary
  BY DEF Own!Owners!Found
<1>4. Own!Unclassified(b) = {<<h[1], h[2]>> : h \in Own!Book(b).held} \ Own!Book(b).binary
  BY <1>1, <1>2
<1> QED BY <1>3, <1>4

LEMMA PathFound ==
    ASSUME NEW b, Own!IsBook(b), NEW r \in AllRows
    PROVE  LET found == Own!Owners!Found(Own!Book(b), "actual_path", r) IN
           Own!FilePropget(b, r) = found \/ found = {}
<1> DEFINE H == {k \in Own!Book(b).held : <<k[1], k[2]>> = r}
<1>b. b \in Own!BookType
  BY DEF Own!IsBook
<1>1. Own!Owners!Found(Own!Book(b), "actual_path", r) = {h[3] : h \in H}
  BY DEF Own!Owners!Found
<1>2. CASE ~(b.rows[r].there /\ b.rows[r].active)
  <2>1. H = {}
    BY <1>2, <1>b, HeldParts
  <2> QED BY <1>1, <2>1
<1>3. CASE b.rows[r].there /\ b.rows[r].active
  <2>1. Own!FilePropget(b, r) = {b.rows[r].at}
    BY <1>3 DEF Own!FilePropget, Own!IsBook, AllRows
  <2>2. \A h \in H : h[3] = b.rows[r].at
    BY <1>b, HeldParts
  <2>3. H # {}
    <3> DEFINE h == <<r[1], r[2], b.rows[r].at>>
    <3>1. h \in Own!Book(b).held /\ r = <<r[1], r[2]>>
      BY <1>3, <1>b, RowIsPair, HeldRow
    <3>2. h[1] = r[1] /\ h[2] = r[2]
      OBVIOUS
    <3> QED BY <3>1, <3>2
  <2>4. {h[3] : h \in H} = {b.rows[r].at}
    <3> HIDE DEF H
    <3> QED BY <2>2, <2>3
  <2> QED BY <1>1, <2>1, <2>4
<1> QED BY <1>2, <1>3

\* Operators of primed variables.
LEMMA Primed ==
    /\ Own!Book(work)' = Own!Book(work') /\ Own!Book(db)' = Own!Book(db')
    /\ Own!IsBook(work)' <=> Own!IsBook(work')
    /\ Own!IsBook(db)' <=> Own!IsBook(db')
BY DEF Own!Book, Own!Rows, Own!IsBook, Own!BookType, Own!There

LEMMA LoopPrimed ==
    ASSUME NEW p \in FileProcs
    PROVE  /\ \A j : FileDone(work, call[p], j)' <=> FileDone(work', call'[p], j)
           /\ Own!There(work, call[p].entry)' <=> Own!There(work', call'[p].entry)
BY DEF FileDone, Own!Files, Own!Rows, Own!There

\* What a step of the files table is for those who use it.
OwnersStep == OwnersInv' /\ Own!Owners!Step /\ Own!Reported

\* A statement is one change of what the writer, or everybody, sees.
OwnersChange(e) ==
    \/ Own!Owners!Create(e) \/ Own!Owners!Delete(e) \/ Own!Owners!SetState(e)
    \/ Own!Owners!Depend(e)
    \/ \E f \in FilePaths :
          \/ Own!Owners!Map(e, f) \/ Own!Owners!Unmap(e, f) \/ Own!Owners!Classify(e, f)
          \/ Own!Owners!Release(e, f)
          \/ \E q \in FilePaths : Own!Owners!Take(e, f, q)

LEMMA Changes ==
    ASSUME OwnersInv, NEW p \in FileProcs, NEW new, Own!Store(p, new), Own!IsBook(new),
           answer' = Own!NoAnswer,
           Own!Book(new) = Own!Book(work) \/ \E e \in Entries : OwnersChange(e)
    PROVE  Own!Owners!Next
<1>0. None \notin FileProcs
  BY FilesAssumption DEF Own!FilesAssumption
<1>1. /\ work' = new /\ writer' = writer /\ writer \in {p, None}
      /\ writer = None => work = db
      /\ writer = p => db' = db
      /\ writer # p => db' = new
  BY <1>0, Stores DEF OwnersInv, OwnerTypes
<1>2. answer' = Own!Owners!NoAnswer
  BY DEF Own!NoAnswer, Own!Owners!NoAnswer
<1>3. CASE Own!Book(new) = Own!Book(work)
  <2>1. Own!Book(work)' = Own!Book(work)
    BY <1>1, <1>3, Primed
  <2>2. Own!Book(db)' = Own!Book(db)
    <3>1. CASE writer = p
      BY <1>1, <3>1, Primed
    <3>2. CASE writer # p
      <4>1. db' = new /\ work = db
        BY <1>1, <3>2
      <4>2. Own!Book(db') = Own!Book(new) /\ Own!Book(work) = Own!Book(db)
        BY ONLY <4>1
      <4> QED BY <4>2, <1>3, Primed
    <3> QED BY <3>1, <3>2
  <2> QED BY <1>1, <1>2, <2>1, <2>2 DEF Own!Owners!Next
<1>4. CASE \E e \in Entries : OwnersChange(e)
  <2>1. Own!Book(db)' = IF writer = p THEN Own!Book(db) ELSE Own!Book(work)'
    <3>1. CASE writer = p
      BY <1>1, <3>1, Primed
    <3>2. CASE writer # p
      <4>1. db' = work'
        BY <1>1, <3>2
      <4>2. Own!Book(db') = Own!Book(work')
        BY ONLY <4>1
      <4> QED BY <4>2, <3>2, Primed
    <3> QED BY <3>1, <3>2
  <2>2. Own!Owners!Change(p)
    BY <1>1, <1>4, <2>1 DEF Own!Owners!Change, OwnersChange
  <2> QED BY <1>2, <2>2 DEF Own!Owners!Next
<1> QED BY <1>3, <1>4

\* The fields of a call in its loop.
LEMMA LoopFields ==
    ASSUME OwnersInv, NEW p \in FileProcs, pc[p] # "script"
    PROVE  LET c == call[p] IN
           /\ c \in CallType /\ InLoop(p) /\ c.op \in Own!ListOps /\ c.entry \in Entries
           /\ c.list \in Seq(FilePaths \X FilePaths) /\ c.list \in Lists[c.op]
           /\ c.i \in Nat /\ c.i \in 1 .. Len(c.list) /\ DOMAIN c.list = 1 .. Len(c.list)
           /\ \A j \in DOMAIN c.list : c.list[j][1] \in FilePaths /\ c.list[j][2] \in FilePaths
           /\ pc[p] \in {"file", "update"}
<1>1. call[p] \in CallType /\ InLoop(p)
  BY DEF OwnersInv, OwnerTypes
<1>2. call[p].list \in Seq(FilePaths \X FilePaths)
  BY <1>1 DEF CallType
<1>3. DOMAIN call[p].list = 1 .. Len(call[p].list)
  BY <1>2
<1>4. \A j \in DOMAIN call[p].list : call[p].list[j] \in FilePaths \X FilePaths
  BY <1>2
<1> QED BY <1>1, <1>2, <1>3, <1>4 DEF InLoop, CallType, OwnersInv, OwnerTypes

LEMMA NoCallEnds ==
    ASSUME NEW ok \in BOOLEAN
    PROVE  LET c == [Own!NoCall EXCEPT !.ok = ok] IN c \in CallType /\ c.ok = ok
<1>0. <<>> \in Seq(FilePaths \X FilePaths)
  OBVIOUS
<1>1. PICK l \in Seq(FilePaths \X FilePaths) : l = <<>>
  BY <1>0, Zenon
<1> DEFINE r == [op |-> "none", entry |-> None, list |-> l, i |-> 1, ok |-> TRUE]
           c == [op |-> "none", entry |-> None, list |-> l, i |-> 1, ok |-> ok]
<1>2. Own!NoCall = r
  BY <1>1, Zenon DEF Own!NoCall
<1>3. [r EXCEPT !.ok = ok] = c
  OBVIOUS
<1>4. c \in CallType
  BY DEF CallType
<1>5. c.ok = ok
  BY Zenon
<1> HIDE DEF r, c
<1> QED BY <1>2, <1>3, <1>4, <1>5

\* The loop goes on to its next file, or the call ends.
LEMMA Turns ==
    ASSUME OwnersInv, NEW p \in FileProcs, pc[p] # "script", NEW ok \in BOOLEAN,
           Own!Advance(p, ok), writer' = writer, writer = None => work' = db',
           Own!IsBook(work'), Own!IsBook(db'), writer \in {p, None} \/ UNCHANGED work,
           ok /\ writer = p => \A j \in 1 .. call[p].i : FileDone(work', call[p], j),
           call[p].op = "map" =>
               /\ Own!There(work', call[p].entry)
               /\ \A j \in DOMAIN call[p].list :
                    LET row == work'.rows[<<call[p].entry, call[p].list[j][1]>>] IN
                    row.there => ~row.active /\ ~row.binary
    PROVE  OwnersInv' /\ Own!Reported /\ answer' = Own!NoAnswer
<1> DEFINE c == call[p]
<1>0. None \notin FileProcs /\ Own!WithinLimits
  BY FilesAssumption, FilesLimits DEF Own!FilesAssumption
<1>1. /\ c \in CallType /\ InLoop(p) /\ c.i \in Nat /\ c.i \in 1 .. Len(c.list)
      /\ DOMAIN c.list = 1 .. Len(c.list) /\ c.list \in Seq(FilePaths \X FilePaths)
      /\ pc[p] \in {"file", "update"}
  BY LoopFields
<1>2. answer' = Own!NoAnswer /\ UNCHANGED <<handles, calls>>
  BY DEF Own!Advance, Own!Unasked
<1>t. /\ pc \in [FileProcs -> {"script", "file", "update"}] /\ call \in [FileProcs -> CallType]
      /\ handles \in [FileProcs -> SUBSET AllRows] /\ writer \in FileProcs \cup {None}
  BY DEF OwnersInv, OwnerTypes
<1>3. CASE ok /\ c.i < Len(c.list)
  <2>1. call' = [call EXCEPT ![p].i = @ + 1] /\ pc' = [pc EXCEPT ![p] = "file"]
    BY <1>3 DEF Own!Advance
  <2>2. call'[p] = [c EXCEPT !.i = @ + 1]
    BY <2>1, <1>t
  <2>3. /\ call'[p].op = c.op /\ call'[p].entry = c.entry /\ call'[p].list = c.list
        /\ call'[p].i = c.i + 1 /\ call'[p] \in CallType
    <3> DEFINE Type(B) == [op : Own!ListOps \cup {"none"}, entry : Entries \cup {None},
                           list : Seq(FilePaths \X FilePaths), i : Nat, ok : B]
    <3>1. ASSUME NEW B, NEW r \in Type(B), NEW i \in Nat
          PROVE  LET n == [r EXCEPT !.i = i] IN
                 n \in Type(B) /\ n.op = r.op /\ n.entry = r.entry /\ n.list = r.list /\ n.i = i
      OBVIOUS
    <3>2. c.i + 1 \in Nat /\ call'[p] = [c EXCEPT !.i = c.i + 1]
      BY <2>2, <1>1
    <3>3. CallType = Type(BOOLEAN)
      BY Zenon DEF CallType
    <3> HIDE DEF Type
    <3> QED BY <3>1, <3>2, <3>3, <1>1
  <2>4. /\ pc' \in [FileProcs -> {"script", "file", "update"}] /\ call' \in [FileProcs -> CallType]
        /\ pc'[p] = "file" /\ \A q \in FileProcs : q # p => pc'[q] = pc[q] /\ call'[q] = call[q]
    BY <2>1, <2>3, <1>t
  <2>5. ASSUME writer' = p, NEW j \in 1 .. call'[p].i - 1 PROVE FileDone(work, call[p], j)'
    <3>1. FileDone(work', c, j)
      BY <1>1, <1>3, <2>3, <2>5
    <3>2. FileDone(work', call'[p], j)
      BY <2>3, <3>1 DEF FileDone
    <3> QED BY <3>2, LoopPrimed
  <2>6. ASSUME call'[p].op = "map"
        PROVE  Own!There(work, call[p].entry)' /\ \A j \in DOMAIN call'[p].list : Unplaced(call[p], j)'
    <3>1. Own!There(work, call[p].entry)'
      BY <2>3, <2>6, LoopPrimed
    <3>2. \A j \in DOMAIN call'[p].list : Unplaced(call[p], j)'
      BY <2>3, <2>6 DEF Unplaced
    <3> QED BY <3>1, <3>2
  <2>7. InLoop(p)'
    <3>1. c.op \in Own!ListOps /\ c.list \in Lists[c.op] /\ c.entry \in Entries
          /\ (c.op \notin Bare => writer = p)
      BY <1>1 DEF InLoop
    <3>2. c.i + 1 \in DOMAIN c.list
      BY <1>1, <1>3
    <3> QED BY <2>3, <2>4, <2>5, <2>6, <3>1, <3>2, Zenon DEF InLoop
  <2>8. \A q \in FileProcs : pc'[q] # "script" => InLoop(q)'
    BY <2>4, <2>7, <1>0, OthersLoop
  <2>9. OwnersInv'
    BY <2>4, <2>8, <1>2, <1>t, Primed DEF OwnersInv, OwnerTypes
  <2>10. Own!Reported
    BY <2>4 DEF Own!Reported
  <2> QED BY <1>2, <2>9, <2>10
<1>4. CASE ~(ok /\ c.i < Len(c.list))
  <2>1. call' = [call EXCEPT ![p] = [Own!NoCall EXCEPT !.ok = ok]] /\ pc' = [pc EXCEPT ![p] = "script"]
    BY <1>4 DEF Own!Advance
  <2>2. [Own!NoCall EXCEPT !.ok = ok] \in CallType /\ [Own!NoCall EXCEPT !.ok = ok].ok = ok
    BY NoCallEnds
  <2>3. /\ pc' \in [FileProcs -> {"script", "file", "update"}] /\ call' \in [FileProcs -> CallType]
        /\ pc'[p] = "script" /\ \A q \in FileProcs : q # p => pc'[q] = pc[q] /\ call'[q] = call[q]
    BY <2>1, <2>2, <1>t
  <2>4. call'[p].ok = ok
    BY <2>1, <2>2, <1>t
  <2>5. \A q \in FileProcs : pc'[q] # "script" => InLoop(q)'
    BY <2>3, <1>0, OthersLoop
  <2>6. OwnersInv'
    BY <2>3, <2>5, <1>2, <1>t, Primed DEF OwnersInv, OwnerTypes
  <2>7. ASSUME ok, writer = p PROVE Own!Done(work', c)
    <3>1. c.i = Len(c.list)
      BY <1>1, <1>4, <2>7
    <3>2. \A j \in DOMAIN c.list : FileDone(work', c, j)
      BY <1>1, <2>7, <3>1
    <3> QED BY <3>2 DEF Own!Done, FileDone
  <2>8. Own!Reported
    <3> SUFFICES ASSUME NEW q \in FileProcs, pc[q] # "script", pc'[q] = "script", call'[q].ok,
                        writer = q
                 PROVE  Own!Done(work', call[q])
      BY DEF Own!Reported
    <3>1. q = p
      BY <2>3
    <3> QED BY <2>4, <2>7, <3>1
  <2> QED BY <1>2, <2>6, <2>8
<1> QED BY <1>3, <1>4

\* The row that a turn of the loop is about.
LEMMA RowOfTurn ==
    ASSUME OwnersInv, NEW p \in FileProcs, pc[p] # "script"
    PROVE  LET c == call[p] IN
           /\ Own!Own(p) = <<c.entry, c.list[c.i][1]>> /\ Own!Own(p) \in AllRows
           /\ Own!As(p) = c.list[c.i][2] /\ Own!As(p) \in FilePaths /\ Own!File(p) \in FilePaths
           /\ Own!Own(p) = <<c.entry, Own!File(p)>>
BY LoopFields DEF Own!Own, Own!File, Own!As, AllRows

\* Nothing is stored.
LEMMA Unstored ==
    ASSUME OwnersInv, UNCHANGED <<db, work, writer>>, answer' = Own!NoAnswer, FileProcs # {}
    PROVE  Own!Owners!Step
<1>1. Own!Book(work)' = Own!Book(work) /\ Own!Book(db)' = Own!Book(db)
  BY Primed
<1>2. answer' = Own!Owners!NoAnswer
  BY DEF Own!NoAnswer, Own!Owners!NoAnswer
<1> QED BY <1>1, <1>2 DEF Own!Owners!Step, Own!Owners!Next

LEMMA MapFileStep ==
    ASSUME OwnersInv, NEW p \in FileProcs, Own!MapFile(p) PROVE OwnersStep
<1> DEFINE c == call[p]
           r == Own!Own(p)
           n == Own!Where(work, {r}, [x \in {r} |-> Own!NewRow])
<1>0. None \notin FileProcs /\ "map" \notin Bare
  BY FilesAssumption, FilesLimits DEF Own!FilesAssumption, Own!WithinLimits
<1>1. pc[p] # "script" /\ c.op = "map" /\ Own!Advance(p, TRUE)
  BY DEF Own!MapFile, Own!InList
<1>2. /\ InLoop(p) /\ c.i \in 1 .. Len(c.list) /\ DOMAIN c.list = 1 .. Len(c.list)
      /\ c.entry \in Entries /\ \A j \in DOMAIN c.list : c.list[j][1] \in FilePaths
  BY <1>1, LoopFields
<1>3. writer = p /\ Own!There(work, c.entry) /\ \A j \in DOMAIN c.list : Unplaced(c, j)
  BY <1>0, <1>1, <1>2 DEF InLoop
<1>4. Own!Store(p, n)
  BY <1>3 DEF Own!MapFile, Own!View
<1>5. /\ r = <<c.entry, c.list[c.i][1]>> /\ r \in AllRows /\ r = <<c.entry, Own!File(p)>>
      /\ Own!File(p) \in FilePaths
  BY <1>1, RowOfTurn
<1>6. Own!IsBook(work) /\ (work.rows[r].there => ~work.rows[r].active /\ ~work.rows[r].binary)
  BY <1>2, <1>3, <1>5 DEF OwnersInv, OwnerTypes, Unplaced
<1>7. /\ Own!IsBook(n) /\ n.state = work.state
      /\ n.rows[r] = Own!NewRow /\ \A x \in AllRows \ {r} : n.rows[x] = work.rows[x]
      /\ Own!Book(n) = [Own!Book(work) EXCEPT !.image = @ \cup {r}]
  BY <1>5, <1>6, BookMapped
<1> HIDE DEF n
<1>8. Own!NewRow.there /\ ~Own!NewRow.active /\ ~Own!NewRow.binary
  <2> DEFINE z == [there |-> TRUE, at |-> None, active |-> FALSE, binary |-> FALSE]
  <2>1. z.there /\ ~z.active /\ ~z.binary
    OBVIOUS
  <2> HIDE DEF z
  <2> QED BY <2>1, NewRowIs DEF z
<1>9. \A j \in DOMAIN c.list : <<c.entry, c.list[j][1]>> \in AllRows
  BY <1>2 DEF AllRows
<1>10. /\ work' = n /\ writer' = writer /\ Own!IsBook(db') /\ Own!IsBook(work')
       /\ writer' = None => work' = db'
  BY <1>0, <1>4, <1>7, Stores
<1>11. ASSUME NEW j \in 1 .. c.i PROVE FileDone(work', c, j)
  <2>1. j \in DOMAIN c.list /\ <<c.entry, c.list[j][1]>> \in AllRows
    BY <1>2, <1>9
  <2>2. j # c.i => work.rows[<<c.entry, c.list[j][1]>>].there
    BY <1>1, <1>2, <1>3 DEF InLoop, FileDone
  <2>3. n.rows[<<c.entry, c.list[j][1]>>].there
    BY <2>1, <2>2, <1>5, <1>7, <1>8
  <2> QED BY <1>1, <1>10, <2>3 DEF FileDone
<1>12. Own!There(work', c.entry)
  BY <1>3, <1>7, <1>10 DEF Own!There
<1>13. ASSUME NEW j \in DOMAIN c.list
       PROVE  LET row == work'.rows[<<c.entry, c.list[j][1]>>] IN
              row.there => ~row.active /\ ~row.binary
  BY <1>3, <1>7, <1>8, <1>9, <1>10 DEF Unplaced
<1>14. OwnersInv' /\ Own!Reported /\ answer' = Own!NoAnswer
  BY <1>1, <1>3, <1>10, <1>11, <1>12, <1>13, Turns
<1>15. OwnersChange(c.entry)
  <2>1. Own!Book(work)' = [Own!Book(work) EXCEPT !.image = @ \cup {<<c.entry, Own!File(p)>>}]
    BY <1>5, <1>7, <1>10, Primed
  <2>2. Own!Book(work).state = work.state
    BY DEF Own!Book
  <2> QED BY <1>3, <1>5, <2>1, <2>2 DEF OwnersChange, Own!Owners!Map, Own!Owners!There, Own!There
<1> QED BY <1>2, <1>4, <1>7, <1>14, <1>15, Changes DEF OwnersStep, Own!Owners!Step

LEMMA UnmapFileStep ==
    ASSUME OwnersInv, NEW p \in FileProcs, Own!UnmapFile(p) PROVE OwnersStep
<1> DEFINE c == call[p]
           r == Own!Own(p)
           rows == {r} \cap Own!Rows(Own!View(p))
           n == Own!Where(Own!View(p), rows, Own!Deleted(rows))
<1>0. None \notin FileProcs
  BY FilesAssumption DEF Own!FilesAssumption
<1>1. pc[p] # "script" /\ c.op = "unmap" /\ Own!Advance(p, rows # {}) /\ Own!Store(p, n)
  BY DEF Own!UnmapFile, Own!InList
<1>2. /\ InLoop(p) /\ c.i \in 1 .. Len(c.list) /\ DOMAIN c.list = 1 .. Len(c.list)
      /\ c.entry \in Entries /\ \A j \in DOMAIN c.list : c.list[j][1] \in FilePaths
  BY <1>1, LoopFields
<1>3. Own!View(p) = work /\ writer \in {p, None} /\ Own!IsBook(work) /\ work \in Own!BookType
  BY <1>1 DEF Own!Store, Own!View, OwnersInv, OwnerTypes, Own!IsBook
<1>5. /\ r = <<c.entry, c.list[c.i][1]>> /\ r \in AllRows /\ r = <<c.entry, Own!File(p)>>
      /\ Own!File(p) \in FilePaths
  BY <1>1, RowOfTurn
<1>6. CASE r \notin Own!Rows(work)
  <2>1. rows = {} /\ n = work
    BY <1>3, <1>6, NoRowsMet
  <2>2. Own!Advance(p, FALSE) /\ Own!Store(p, work)
    BY <1>1, <2>1
  <2>3. /\ work' = work /\ writer' = writer /\ Own!IsBook(db') /\ Own!IsBook(work')
        /\ writer' = None => work' = db'
    BY <1>0, <1>3, <2>2, Stores
  <2>4. OwnersInv' /\ Own!Reported /\ answer' = Own!NoAnswer
    BY <1>1, <1>3, <2>2, <2>3, Turns
  <2> QED BY <1>3, <2>2, <2>4, Changes DEF OwnersStep, Own!Owners!Step
<1>7. CASE r \in Own!Rows(work)
  <2>1. rows = {r} /\ n = Own!Where(work, {r}, Own!Deleted({r}))
    BY <1>3, <1>7
  <2>2. Own!Advance(p, TRUE) /\ Own!Store(p, n)
    BY <1>1, <2>1
  <2>3. /\ Own!IsBook(n) /\ n.state = work.state
        /\ ~n.rows[r].there /\ \A x \in AllRows \ {r} : n.rows[x] = work.rows[x]
        /\ Own!Book(n) = [Own!Book(work) EXCEPT !.image = @ \ {r}, !.binary = @ \ {r},
                                               !.held = {h \in @ : <<h[1], h[2]>> # r}]
    <3>1. PICK x \in AllRows : x = r
      BY <1>5
    <3>2. PICK m : m = Own!Where(work, {x}, Own!Deleted({x}))
      OBVIOUS
    <3>3. m = n
      BY <2>1, <3>1, <3>2
    <3> HIDE DEF r, n, rows
    <3>4. /\ Own!IsBook(m) /\ m.state = work.state
          /\ ~m.rows[x].there /\ \A y \in AllRows \ {x} : m.rows[y] = work.rows[y]
          /\ Own!Book(m) = [Own!Book(work) EXCEPT !.image = @ \ {x}, !.binary = @ \ {x},
                                                 !.held = {h \in @ : <<h[1], h[2]>> # x}]
      BY ZenonT(60), <1>3, <3>2, BookUnmapped
    <3> QED BY <3>1, <3>3, <3>4
  <2> HIDE DEF n
  <2>4. /\ work' = n /\ writer' = writer /\ Own!IsBook(db') /\ Own!IsBook(work')
        /\ writer' = None => work' = db'
    BY <1>0, <2>2, <2>3, Stores
  <2>5. ASSUME writer = p, NEW j \in 1 .. c.i PROVE FileDone(work', c, j)
    <3>1. j \in DOMAIN c.list /\ <<c.entry, c.list[j][1]>> \in AllRows
      BY <1>2 DEF AllRows
    <3>2. j # c.i => ~work.rows[<<c.entry, c.list[j][1]>>].there
      BY <1>1, <1>2, <2>5 DEF InLoop, FileDone
    <3>3. ~n.rows[<<c.entry, c.list[j][1]>>].there
      BY <3>1, <3>2, <1>5, <2>3
    <3> QED BY <1>1, <2>4, <3>3 DEF FileDone
  <2>6. OwnersInv' /\ Own!Reported /\ answer' = Own!NoAnswer
    BY <1>1, <1>3, <2>2, <2>4, <2>5, Turns
  <2>7. OwnersChange(c.entry)
    <3>1. Own!Book(work)' =
            [Own!Book(work) EXCEPT
                !.image = @ \ {<<c.entry, Own!File(p)>>}, !.binary = @ \ {<<c.entry, Own!File(p)>>},
                !.held = {h \in @ : <<h[1], h[2]>> # <<c.entry, Own!File(p)>>}]
      BY <1>5, <2>3, <2>4, Primed
    <3> QED BY <1>5, <3>1 DEF OwnersChange, Own!Owners!Unmap
  <2> QED BY <1>2, <2>2, <2>3, <2>6, <2>7, Changes DEF OwnersStep, Own!Owners!Step
<1> QED BY <1>6, <1>7

LEMMA DeactivateFileStep ==
    ASSUME OwnersInv, NEW p \in FileProcs, Own!DeactivateFile(p) PROVE OwnersStep
<1> DEFINE c == call[p]
           q == Own!As(p)
           rows == {r \in Own!Rows(work) : r[1] = c.entry /\ work.rows[r].at = q}
           n == Own!Where(work, rows, Own!Unplaced(work, rows))
<1>0. None \notin FileProcs
  BY FilesAssumption DEF Own!FilesAssumption
<1>1. pc[p] # "script" /\ c.op = "deactivate"
  BY DEF Own!DeactivateFile, Own!InList
<1>2. /\ InLoop(p) /\ c.i \in 1 .. Len(c.list) /\ DOMAIN c.list = 1 .. Len(c.list)
      /\ c.entry \in Entries /\ q \in FilePaths /\ q = c.list[c.i][2]
  BY <1>1, LoopFields, RowOfTurn
<1>3. Own!View(p) = work /\ writer \in {p, None} /\ Own!IsBook(work)
  BY DEF Own!DeactivateFile, Own!Store, Own!View, OwnersInv, OwnerTypes
<1>4. Own!Store(p, n) /\ Own!Advance(p, rows # {})
  BY <1>3 DEF Own!DeactivateFile
<1>5. /\ Own!IsBook(n) /\ n.state = work.state
      /\ q \notin Own!Files(n, c.entry) /\ Own!Files(n, c.entry) \subseteq Own!Files(work, c.entry)
      /\ Own!Book(n) = [Own!Book(work) EXCEPT !.held = {h \in @ : h[1] # c.entry \/ h[3] # q}]
  <2>1. PICK e, f, S : e = c.entry /\ f = q /\ S = rows
    OBVIOUS
  <2>2. PICK m : m = Own!Where(work, S, Own!Unplaced(work, S))
    OBVIOUS
  <2>3. m = n
    BY <2>1, <2>2
  <2>4. \A r : r \in S <=> r \in Own!Rows(work) /\ r[1] = e /\ work.rows[r].at = f
    BY <2>1
  <2> HIDE DEF n, q, rows
  <2>5. IsReleased(work, m, e, f)
    BY <1>3, <2>2, <2>4, BookReleased
  <2> QED BY <2>1, <2>3, <2>5 DEF IsReleased
<1> HIDE DEF n
<1>6. /\ work' = n /\ writer' = writer /\ Own!IsBook(db') /\ Own!IsBook(work')
      /\ writer' = None => work' = db'
  BY <1>0, <1>4, <1>5, Stores
<1>7. ASSUME writer = p, NEW j \in 1 .. c.i PROVE FileDone(work', c, j)
  <2>1. j # c.i => c.list[j][2] \notin Own!Files(work, c.entry)
    BY <1>1, <1>2, <1>7 DEF InLoop, FileDone
  <2>2. c.list[j][2] \notin Own!Files(n, c.entry)
    BY <2>1, <1>2, <1>5
  <2> QED BY <1>1, <1>6, <2>2 DEF FileDone
<1>8. OwnersInv' /\ Own!Reported /\ answer' = Own!NoAnswer
  <2>1. PICK ok \in BOOLEAN : ok = (rows # {})
    OBVIOUS
  <2>2. Own!Advance(p, ok)
    BY <1>4, <2>1
  <2> QED BY <1>1, <1>3, <1>6, <1>7, <2>2, Turns
<1>9. OwnersChange(c.entry)
  <2>1. Own!Book(work)' = [Own!Book(work) EXCEPT !.held = {h \in @ : h[1] # c.entry \/ h[3] # q}]
    BY <1>5, <1>6, Primed
  <2> QED BY <1>2, <2>1 DEF OwnersChange, Own!Owners!Release
<1> QED BY <1>2, <1>4, <1>5, <1>8, <1>9, Changes DEF OwnersStep, Own!Owners!Step

LEMMA ActivateFileStep ==
    ASSUME OwnersInv, NEW p \in FileProcs, Own!ActivateFile(p) PROVE OwnersStep
<1> DEFINE c == call[p]
           r == Own!Own(p)
           q == Own!As(p)
           rows == {r} \cap Own!Rows(work)
           n == Own!Where(work, rows, Own!Placed(work, rows, q))
<1>0. None \notin FileProcs \cup FilePaths /\ "activate" \notin Bare
  BY FilesAssumption, FilesLimits DEF Own!FilesAssumption, Own!WithinLimits
<1>1. pc[p] = "update" /\ pc[p] # "script"
  BY DEF Own!ActivateFile
<1>2. /\ InLoop(p) /\ c.i \in 1 .. Len(c.list) /\ DOMAIN c.list = 1 .. Len(c.list)
      /\ c.entry \in Entries /\ \A j \in DOMAIN c.list : c.list[j][1] \in FilePaths
      /\ c.list \in Lists[c.op]
  BY <1>1, LoopFields
<1>3. /\ c.op = "activate" /\ writer = p /\ Own!Active(work, q) = {}
      /\ Own!IsBook(work) /\ work \in Own!BookType
  BY <1>0, <1>1, <1>2 DEF InLoop, OwnersInv, OwnerTypes, Own!As, Own!IsBook
<1>4. Own!Store(p, n) /\ Own!Advance(p, rows # {})
  BY <1>3 DEF Own!ActivateFile, Own!View
<1>5. /\ r = <<c.entry, c.list[c.i][1]>> /\ r \in AllRows /\ r = <<c.entry, Own!File(p)>>
      /\ Own!File(p) \in FilePaths /\ q \in FilePaths /\ q = c.list[c.i][2]
  BY <1>1, RowOfTurn
<1>6. CASE r \notin Own!Rows(work)
  <2>1. rows = {} /\ n = work
    BY <1>3, <1>6, NoRowsMet
  <2>2. Own!Advance(p, FALSE) /\ Own!Store(p, work)
    BY <1>4, <2>1
  <2>3. /\ work' = work /\ writer' = writer /\ Own!IsBook(db') /\ Own!IsBook(work')
        /\ writer' = None => work' = db'
    BY <1>0, <1>3, <2>2, Stores
  <2>4. OwnersInv' /\ Own!Reported /\ answer' = Own!NoAnswer
    BY <1>1, <1>3, <2>2, <2>3, Turns
  <2> QED BY <1>3, <2>2, <2>4, Changes DEF OwnersStep, Own!Owners!Step
<1>7. CASE r \in Own!Rows(work)
  <2>1. rows = {r} /\ n = Own!Where(work, {r}, Own!Placed(work, {r}, q))
    BY <1>7
  <2>2. Own!Advance(p, TRUE) /\ Own!Store(p, n)
    BY <1>4, <2>1
  <2>3. /\ Own!IsBook(n) /\ n.rows[r].active /\ n.rows[r].at = q
        /\ \A x \in AllRows \ {r} : n.rows[x] = work.rows[x]
        /\ n.state = work.state
        /\ r \in Own!Book(work).image
        /\ \A h \in Own!Book(work).held : h[3] # q
        /\ Own!Book(n) = [Own!Book(work) EXCEPT
                !.held = {h \in @ : <<h[1], h[2]>> # r} \cup {<<c.entry, Own!File(p), q>>}]
    <3>1. PICK e, f, g : e = c.entry /\ f = Own!File(p) /\ g = q
      OBVIOUS
    <3>2. r = <<e, f>> /\ <<e, f>> \in AllRows /\ g \in FilePaths
      BY <3>1, <1>5
    <3>3. PICK S, m : S = {<<e, f>>} /\ m = Own!Where(work, S, Own!Placed(work, S, g))
      OBVIOUS
    <3>4. S = {r} /\ m = n
      BY <2>1, <3>1, <3>2, <3>3
    <3>5. work.rows[<<e, f>>].there /\ Own!Active(work, g) = {} /\ None \notin FilePaths
      BY <1>0, <1>3, <1>7, <3>1, <3>2 DEF Own!Rows
    <3> HIDE DEF r, n, q, rows
    <3>6. IsTaken(work, m, e, f, g)
      BY <1>3, <3>2, <3>3, <3>5, BookTaken
    <3> QED BY <3>1, <3>2, <3>4, <3>6 DEF IsTaken
  <2> HIDE DEF n
  <2>4. /\ work' = n /\ writer' = writer /\ Own!IsBook(db') /\ Own!IsBook(work')
        /\ writer' = None => work' = db'
    BY <1>0, <2>2, <2>3, Stores
  <2>5. ASSUME NEW j \in 1 .. c.i PROVE FileDone(work', c, j)
    <3>0. j \in DOMAIN c.list /\ c.i \in DOMAIN c.list /\ <<c.entry, c.list[j][1]>> \in AllRows
      BY <1>2 DEF AllRows
    <3>1. CASE j = c.i
      <4>1. n.rows[<<c.entry, c.list[j][1]>>].active /\ n.rows[<<c.entry, c.list[j][1]>>].at = c.list[j][2]
        BY <3>1, <1>5, <2>3
      <4> QED BY <1>3, <2>4, <4>1 DEF FileDone
    <3>2. CASE j # c.i
      <4>1. c.list[j][1] # c.list[c.i][1]
        BY <1>2, <1>3, <3>0, <3>2, FilesLimits DEF Own!WithinLimits
      <4>2. <<c.entry, c.list[j][1]>> # r
        BY <4>1, <1>5
      <4>3. n.rows[<<c.entry, c.list[j][1]>>] = work.rows[<<c.entry, c.list[j][1]>>]
        BY <4>2, <3>0, <2>3
      <4>4. FileDone(work, c, j)
        BY <1>2, <1>3, <3>2 DEF InLoop
      <4> QED BY <1>3, <2>4, <4>3, <4>4 DEF FileDone
    <3> QED BY <3>1, <3>2
  <2>6. OwnersInv' /\ Own!Reported /\ answer' = Own!NoAnswer
    BY <1>1, <1>3, <2>2, <2>4, <2>5, Turns
  <2>7. OwnersChange(c.entry)
    <3>1. Own!Book(work)' = [Own!Book(work) EXCEPT
                !.held = {h \in @ : <<h[1], h[2]>> # <<c.entry, Own!File(p)>>}
                            \cup {<<c.entry, Own!File(p), q>>}]
      BY ZenonT(60), <1>5, <2>3, <2>4, Primed
    <3>2. <<c.entry, Own!File(p)>> \in Own!Book(work).image
      BY <1>5, <2>3
    <3>3. Own!Owners!Take(c.entry, Own!File(p), q)
      BY <2>3, <3>1, <3>2 DEF Own!Owners!Take
    <3> QED BY <1>5, <3>3 DEF OwnersChange
  <2> QED BY <1>2, <2>2, <2>3, <2>6, <2>7, Changes DEF OwnersStep, Own!Owners!Step
<1> QED BY <1>6, <1>7

LEMMA SelectOwnerStep ==
    ASSUME OwnersInv, NEW p \in FileProcs, Own!SelectOwner(p) PROVE OwnersStep
<1> DEFINE c == call[p]
<1>0. None \notin FileProcs /\ "activate" \notin Bare /\ Own!WithinLimits
  BY FilesAssumption, FilesLimits DEF Own!FilesAssumption, Own!WithinLimits
<1>1. pc[p] # "script" /\ c.op = "activate" /\ UNCHANGED <<db, work, writer>>
  BY DEF Own!SelectOwner, Own!InList
<1>2. InLoop(p) /\ c.i \in 1 .. Len(c.list)
  BY <1>1, LoopFields
<1>3. writer = p /\ Own!View(p) = work
  BY <1>0, <1>1, <1>2 DEF InLoop, Own!View
<1>t. /\ pc \in [FileProcs -> {"script", "file", "update"}] /\ Own!IsBook(work) /\ Own!IsBook(db)
      /\ OwnerTypes
  BY DEF OwnersInv, OwnerTypes
<1>4. CASE Own!Active(work, Own!As(p)) # {}
  <2>1. Own!Advance(p, FALSE)
    BY <1>3, <1>4 DEF Own!SelectOwner
  <2>2. OwnersInv' /\ Own!Reported /\ answer' = Own!NoAnswer
    BY <1>0, <1>1, <1>3, <1>t, <2>1, Turns
  <2> QED BY <1>1, <2>2, Unstored DEF OwnersStep
<1>5. CASE Own!Active(work, Own!As(p)) = {}
  <2>1. /\ pc' = [pc EXCEPT ![p] = "update"] /\ answer' = Own!NoAnswer
        /\ UNCHANGED <<call, handles>>
    BY <1>3, <1>5 DEF Own!SelectOwner, Own!Unasked
  <2>2. /\ pc' \in [FileProcs -> {"script", "file", "update"}]
        /\ pc'[p] = "update" /\ \A q \in FileProcs : q # p => pc'[q] = pc[q]
    BY <2>1, <1>t
  <2>3. InLoop(p)'
    <3>1. \A j : FileDone(work, call[p], j)' <=> FileDone(work, call[p], j)
      BY <1>1, <2>1, LoopPrimed
    <3>2. Own!Active(work, call[p].list[call[p].i][2])' = {}
      BY <1>1, <1>5, <2>1 DEF Own!Active, Own!Rows, Own!As
    <3> QED BY <1>1, <1>2, <2>1, <2>2, <3>1, <3>2 DEF InLoop
  <2>4. \A q \in FileProcs : pc'[q] # "script" => InLoop(q)'
    BY <1>0, <1>1, <1>3, <2>1, <2>2, <2>3, OthersLoop
  <2>5. OwnersInv'
    BY <1>1, <1>t, <2>1, <2>2, <2>4, Primed DEF OwnersInv, OwnerTypes
  <2>6. Own!Reported
    BY <2>2 DEF Own!Reported
  <2> QED BY <1>1, <2>1, <2>5, <2>6, Unstored DEF OwnersStep
<1> QED BY <1>4, <1>5

LEMMA StatementFailsStep ==
    ASSUME OwnersInv, NEW p \in FileProcs, Own!StatementFails(p) PROVE OwnersStep
<1>0. None \notin FileProcs
  BY FilesAssumption DEF Own!FilesAssumption
<1>1. pc[p] # "script" /\ UNCHANGED <<db, work, writer>> /\ Own!Advance(p, FALSE)
  <2>1. Own!Noticed(p) = {TRUE}
    BY DEF Own!Noticed
  <2> QED BY <2>1 DEF Own!StatementFails
<1>2. /\ Own!IsBook(work') /\ Own!IsBook(db')
      /\ writer = None => work' = db'
  BY <1>1 DEF OwnersInv, OwnerTypes
<1>3. call[p].op = "map" =>
        /\ Own!There(work', call[p].entry)
        /\ \A j \in DOMAIN call[p].list :
             LET row == work'.rows[<<call[p].entry, call[p].list[j][1]>>] IN
             row.there => ~row.active /\ ~row.binary
  <2>1. InLoop(p)
    BY <1>1, LoopFields
  <2> QED BY <1>1, <2>1 DEF InLoop, Unplaced
<1>5. PICK ok \in BOOLEAN : ok = FALSE
  OBVIOUS
<1>6. Own!Advance(p, ok) /\ ~ok
  BY <1>1, <1>5
<1>4. OwnersInv' /\ Own!Reported /\ answer' = Own!NoAnswer
  BY <1>1, <1>2, <1>3, <1>6, Turns
<1> QED BY <1>1, <1>4, Unstored DEF OwnersStep

\* A step of a script that calls no loop.
LEMMA ScriptStep ==
    ASSUME OwnersInv, NEW p \in FileProcs, pc[p] = "script", UNCHANGED <<pc, call>>,
           handles' \in [FileProcs -> SUBSET AllRows], Own!IsBook(work'), Own!IsBook(db'),
           writer' = None => work' = db',
           writer \in {p, None} \/ UNCHANGED <<work, writer>>,
           writer' = writer \/ writer' \in {p, None}
    PROVE  OwnersInv' /\ Own!Reported
<1>0. None \notin FileProcs /\ Own!WithinLimits
  BY FilesAssumption, FilesLimits DEF Own!FilesAssumption
<1>1. /\ pc \in [FileProcs -> {"script", "file", "update"}] /\ call \in [FileProcs -> CallType]
      /\ writer \in FileProcs \cup {None}
  BY DEF OwnersInv, OwnerTypes
<1>2. \A q \in FileProcs : pc'[q] # "script" => InLoop(q)'
  <2> SUFFICES ASSUME NEW q \in FileProcs, pc'[q] # "script" PROVE InLoop(q)'
    OBVIOUS
  <2>1. q # p /\ pc'[q] = pc[q] /\ call'[q] = call[q] /\ pc[q] # "script"
    OBVIOUS
  <2> QED BY <1>0, <2>1, OthersLoop
<1>3. OwnersInv'
  BY <1>1, <1>2, Primed DEF OwnersInv, OwnerTypes
<1>4. Own!Reported
  BY DEF Own!Reported
<1> QED BY <1>3, <1>4

LEMMA BeginWriteStep ==
    ASSUME OwnersInv, NEW p \in FileProcs, Own!BeginWrite(p) PROVE OwnersStep
<1>0. None \notin FileProcs
  BY FilesAssumption DEF Own!FilesAssumption
<1>1. /\ writer = None /\ writer' = p /\ work' = db /\ db' = db /\ pc[p] = "script"
      /\ UNCHANGED <<pc, call, handles>> /\ answer' = Own!NoAnswer
  BY DEF Own!BeginWrite, Own!Quiet, Own!Unasked
<1>2. /\ work = db /\ Own!IsBook(db) /\ handles \in [FileProcs -> SUBSET AllRows]
  BY <1>1 DEF OwnersInv, OwnerTypes
<1>3. OwnersInv' /\ Own!Reported
  BY <1>0, <1>1, <1>2, ScriptStep
<1>4. Own!Book(work)' = Own!Book(work) /\ Own!Book(db)' = Own!Book(db)
  BY <1>1, <1>2, Primed
<1>5. answer' = Own!Owners!NoAnswer
  BY <1>1 DEF Own!NoAnswer, Own!Owners!NoAnswer
<1>6. Own!Owners!Begin(p)
  BY <1>1, <1>4 DEF Own!Owners!Begin
<1> QED BY <1>3, <1>5, <1>6 DEF OwnersStep, Own!Owners!Step, Own!Owners!Next

LEMMA EndWriteStep ==
    ASSUME OwnersInv, NEW p \in FileProcs, NEW commits \in BOOLEAN, Own!EndWrite(p, commits)
    PROVE  OwnersStep
<1>0. None \notin FileProcs
  BY FilesAssumption DEF Own!FilesAssumption
<1>1. /\ writer = p /\ writer' = None /\ work' = db' /\ pc[p] = "script"
      /\ UNCHANGED <<pc, call, handles>> /\ answer' = Own!NoAnswer
      /\ db' = IF commits THEN work ELSE db
  BY DEF Own!EndWrite, Own!Quiet, Own!Unasked
<1>2. /\ Own!IsBook(work) /\ Own!IsBook(db) /\ handles \in [FileProcs -> SUBSET AllRows]
  BY DEF OwnersInv, OwnerTypes
<1>2a. Own!IsBook(db') /\ Own!IsBook(work')
  BY <1>1, <1>2
<1>3. OwnersInv' /\ Own!Reported
  BY <1>0, <1>1, <1>2, <1>2a, ScriptStep
<1>5. answer' = Own!Owners!NoAnswer
  BY <1>1 DEF Own!NoAnswer, Own!Owners!NoAnswer
<1>6. CASE commits
  <2>1. db' = work /\ work' = work
    BY <1>1, <1>6
  <2>2. Own!Book(db)' = Own!Book(work) /\ Own!Book(work)' = Own!Book(work)
    BY <2>1, Primed
  <2>3. Own!Owners!Commit(p)
    BY <1>1, <2>2 DEF Own!Owners!Commit
  <2> QED BY <1>3, <1>5, <2>3 DEF OwnersStep, Own!Owners!Step, Own!Owners!Next
<1>7. CASE ~commits
  <2>1. db' = db /\ work' = db
    BY <1>1, <1>7
  <2>2. Own!Book(db)' = Own!Book(db) /\ Own!Book(work)' = Own!Book(db)
    BY <2>1, Primed
  <2>3. Own!Owners!Rollback(p)
    BY <1>1, <2>2 DEF Own!Owners!Rollback
  <2> QED BY <1>3, <1>5, <2>3 DEF OwnersStep, Own!Owners!Step, Own!Owners!Next
<1> QED BY <1>6, <1>7

\* A statement that a script makes by itself.
LEMMA StatementStep ==
    ASSUME OwnersInv, NEW p \in FileProcs, NEW new, Own!Store(p, new), Own!IsBook(new),
           pc[p] = "script", answer' = Own!NoAnswer, UNCHANGED <<pc, call, handles>>,
           Own!Book(new) = Own!Book(work) \/ \E e \in Entries : OwnersChange(e)
    PROVE  OwnersStep
<1>0. None \notin FileProcs
  BY FilesAssumption DEF Own!FilesAssumption
<1>1. /\ writer' = writer /\ writer \in {p, None} /\ Own!IsBook(db') /\ Own!IsBook(work')
      /\ writer' = None => work' = db'
  BY <1>0, Stores
<1>2. handles \in [FileProcs -> SUBSET AllRows]
  BY DEF OwnersInv, OwnerTypes
<1>3. OwnersInv' /\ Own!Reported
  BY <1>1, <1>2, ScriptStep
<1>4. Own!Owners!Next
  BY Changes
<1> QED BY <1>3, <1>4 DEF OwnersStep, Own!Owners!Step

\* Who may store sees what it changes.
LEMMA StorerSees ==
    ASSUME OwnersInv, NEW p \in FileProcs, NEW new, Own!Store(p, new)
    PROVE  /\ Own!View(p) = work /\ writer \in {p, None} /\ work' = new
           /\ Own!IsBook(work) /\ Own!Book(work)' = Own!Book(new)
           /\ Own!Book(work).state = work.state
<1>1. /\ Own!View(p) = work /\ writer \in {p, None} /\ Own!IsBook(work)
  BY DEF Own!Store, Own!View, OwnersInv, OwnerTypes
<1>2. work' = new
  BY DEF Own!Store
<1>3. Own!Book(work)' = Own!Book(new)
  BY <1>2, Primed
<1> QED BY <1>1, <1>2, <1>3 DEF Own!Book

LEMMA CreateEntryStep ==
    ASSUME OwnersInv, NEW p \in FileProcs, NEW e \in Entries, Own!CreateEntry(p, e)
    PROVE  OwnersStep
<1> DEFINE n == [work EXCEPT !.state[e] = "imaged"]
<1>1. /\ pc[p] = "script" /\ work.state[e] = "unmade" /\ Own!Store(p, n)
      /\ answer' = Own!NoAnswer /\ UNCHANGED <<pc, call, handles>>
  BY DEF Own!CreateEntry, Own!Call, Own!Unasked
<1>2. Own!IsBook(work) /\ Own!Book(work)' = Own!Book(n) /\ Own!Book(work).state = work.state
  BY <1>1, StorerSees
<1>3. Own!IsBook(n) /\ Own!Book(n) = [Own!Book(work) EXCEPT !.state[e] = "imaged"]
  BY <1>2, BookState
<1>4. OwnersChange(e)
  <2>1. ~Own!Owners!There(Own!Book(work), e)
    BY <1>1, <1>2 DEF Own!Owners!There
  <2>2. Own!Owners!Create(e)
    BY <1>2, <1>3, <2>1 DEF Own!Owners!Create
  <2> QED BY <2>2 DEF OwnersChange
<1> QED BY <1>1, <1>3, <1>4, StatementStep

LEMMA DeleteEntryStep ==
    ASSUME OwnersInv, NEW p \in FileProcs, NEW e \in Entries, Own!DeleteEntry(p, e)
    PROVE  OwnersStep
<1> DEFINE n == [state |-> [work.state EXCEPT ![e] = "gone"],
                 rows |-> [r \in DOMAIN work.rows |-> IF r[1] = e THEN Own!NoRow ELSE work.rows[r]],
                 deps |-> {d \in work.deps : d[1] # e}]
           o == Own!Book(work)
<1>1. Own!View(p) = work
  BY StorerSees DEF Own!DeleteEntry
<1>2. /\ pc[p] = "script" /\ Own!Store(p, n)
      /\ answer' = Own!NoAnswer /\ UNCHANGED <<pc, call, handles>>
  BY <1>1 DEF Own!DeleteEntry, Own!Call, Own!Unasked
<1>3. Own!IsBook(work) /\ Own!Book(work)' = Own!Book(n)
  BY <1>2, StorerSees
<1>4. /\ Own!IsBook(n)
      /\ Own!Book(n) =
           [state |-> [o.state EXCEPT ![e] = "gone"],
            image |-> {f \in o.image : f[1] # e}, held |-> {h \in o.held : h[1] # e},
            binary |-> {f \in o.binary : f[1] # e}, deps |-> {d \in o.deps : d[1] # e}]
  BY <1>3, BookDeleted
<1> HIDE DEF n
<1>5. OwnersChange(e)
  BY <1>3, <1>4 DEF OwnersChange, Own!Owners!Delete
<1> QED BY <1>2, <1>4, <1>5, StatementStep

LEMMA SetStateStep ==
    ASSUME OwnersInv, NEW p \in FileProcs, NEW e \in Entries, NEW s \in {"imaged", "installed"},
           Own!SetState(p, e, s)
    PROVE  OwnersStep
<1> DEFINE n == Own!EntryPropset(work, e, s)
<1>1. Own!View(p) = work
  BY StorerSees DEF Own!SetState
<1>2. /\ pc[p] = "script" /\ Own!Store(p, n)
      /\ answer' = Own!NoAnswer /\ UNCHANGED <<pc, call, handles>>
  BY <1>1 DEF Own!SetState, Own!Call, Own!Unasked
<1>3. /\ Own!IsBook(work) /\ Own!Book(work)' = Own!Book(n)
      /\ Own!Book(work).state = work.state
  BY <1>2, StorerSees
<1>4. CASE Own!There(work, e)
  <2>1. n = [work EXCEPT !.state[e] = s]
    BY <1>4 DEF Own!EntryPropset
  <2>2. Own!IsBook(n) /\ Own!Book(n) = [Own!Book(work) EXCEPT !.state[e] = s]
    <3> DEFINE m == [work EXCEPT !.state[e] = s]
    <3>1. Own!IsBook(m) /\ Own!Book(m) = [Own!Book(work) EXCEPT !.state[e] = s]
      BY <1>3, BookState
    <3> HIDE DEF m, n
    <3> QED BY <2>1, <3>1 DEF m
  <2>3. Own!Owners!There(Own!Book(work), e)
    BY <1>3, <1>4 DEF Own!Owners!There, Own!There
  <2> HIDE DEF n
  <2>4. OwnersChange(e)
    BY <1>3, <2>2, <2>3 DEF OwnersChange, Own!Owners!SetState
  <2> QED BY <1>2, <2>2, <2>4, StatementStep
<1>5. CASE ~Own!There(work, e)
  <2>1. n = work
    <3>1. n = [work EXCEPT !.state[e] = @]
      BY <1>5 DEF Own!EntryPropset
    <3>2. [work EXCEPT !.state[e] = @] = work
      BY <1>3 DEF Own!IsBook, Own!BookType
    <3> QED BY <3>1, <3>2
  <2> QED BY <1>2, <1>3, <2>1, StatementStep
<1> QED BY <1>4, <1>5

LEMMA DependsStep ==
    ASSUME OwnersInv, NEW p \in FileProcs, NEW e \in Entries, NEW x \in Entries,
           Own!Depends(p, e, Name[x])
    PROVE  OwnersStep
<1> DEFINE n == [work EXCEPT !.deps = @ \cup {<<e, Name[x]>>}]
<1>1. Own!View(p) = work
  BY StorerSees DEF Own!Depends
<1>2. /\ pc[p] = "script" /\ Own!Store(p, n) /\ Own!There(work, e)
      /\ answer' = Own!NoAnswer /\ UNCHANGED <<pc, call, handles>>
  BY <1>1 DEF Own!Depends, Own!Call, Own!Unasked
<1>3. /\ Own!IsBook(work) /\ Own!Book(work)' = Own!Book(n)
      /\ Own!Book(work).state = work.state
  BY <1>2, StorerSees
<1>4. Own!IsBook(n) /\ Own!Book(n) = [Own!Book(work) EXCEPT !.deps = @ \cup {<<e, Name[x]>>}]
  BY <1>2, <1>3, BookDepends
<1>5. Own!Owners!There(Own!Book(work), e)
  BY <1>2, <1>3 DEF Own!Owners!There, Own!There
<1> HIDE DEF n
<1>6. OwnersChange(e)
  <2>1. Own!Owners!Depend(e)
    BY <1>3, <1>4, <1>5 DEF Own!Owners!Depend
  <2> QED BY <2>1 DEF OwnersChange
<1> QED BY <1>2, <1>4, <1>6, StatementStep

LEMMA SetBinaryStep ==
    ASSUME OwnersInv, NEW p \in FileProcs, NEW r \in AllRows, Own!SetBinary(p, r)
    PROVE  OwnersStep
<1> DEFINE n == Own!FilePropset(work, r)
<1>1. Own!View(p) = work
  BY StorerSees DEF Own!SetBinary
<1>2. /\ pc[p] = "script" /\ Own!Store(p, n)
      /\ answer' = Own!NoAnswer /\ UNCHANGED <<pc, call, handles>>
  BY <1>1 DEF Own!SetBinary, Own!Call, Own!Unasked
<1>3. Own!IsBook(work) /\ Own!Book(work)' = Own!Book(n)
  BY <1>2, StorerSees
<1>4. /\ Own!IsBook(n)
      /\ \/ Own!Book(n) = Own!Book(work)
         \/ /\ r \in Own!Book(work).image
            /\ Own!Book(n) = [Own!Book(work) EXCEPT !.binary = @ \cup {r}]
  BY <1>3, BookClassified
<1>5. r = <<r[1], r[2]>> /\ r[1] \in Entries /\ r[2] \in FilePaths
  BY RowIsPair
<1> HIDE DEF n
<1>6. Own!Book(n) = Own!Book(work) \/ OwnersChange(r[1])
  <2>1. CASE /\ r \in Own!Book(work).image
             /\ Own!Book(n) = [Own!Book(work) EXCEPT !.binary = @ \cup {r}]
    <3>1. /\ <<r[1], r[2]>> \in Own!Book(work).image
          /\ Own!Book(work)' = [Own!Book(work) EXCEPT !.binary = @ \cup {<<r[1], r[2]>>}]
      BY <1>3, <1>5, <2>1
    <3>2. Own!Owners!Classify(r[1], r[2])
      BY <3>1 DEF Own!Owners!Classify
    <3> QED BY <1>5, <3>2 DEF OwnersChange
  <2> QED BY <1>4, <2>1
<1> QED BY <1>2, <1>4, <1>5, <1>6, StatementStep

\* A call with a list of files begins its loop.
LEMMA StartListStep ==
    ASSUME OwnersInv, NEW p \in FileProcs, NEW e \in Entries, NEW op \in Own!ListOps,
           NEW list \in Lists[op], Own!StartList(p, op, e, list)
    PROVE  OwnersStep
<1> DEFINE c == [op |-> op, entry |-> e, list |-> list, i |-> 1, ok |-> TRUE]
<1>0. None \notin FileProcs /\ "map" \notin Bare /\ Own!WithinLimits
  BY FilesAssumption, FilesLimits DEF Own!FilesAssumption, Own!WithinLimits
<1>1. /\ UNCHANGED <<db, work, writer, handles>> /\ answer' = Own!NoAnswer
      /\ call' = [call EXCEPT ![p] = c] /\ pc' = [pc EXCEPT ![p] = "file"]
      /\ pc[p] = "script" /\ (op \notin Bare => writer = p)
      /\ op = "map" => Own!There(Own!View(p), e)
      /\ op = "map" => \A i \in DOMAIN list : ~Own!View(p).rows[<<e, list[i][1]>>].there
  BY DEF Own!StartList, Own!Call, Own!Unasked
<1>2. OwnerTypes
  BY DEF OwnersInv
<1>3. list \in Seq(FilePaths \X FilePaths) /\ list # <<>> /\ DOMAIN list = 1 .. Len(list)
      /\ Len(list) \in Nat
  <2>1. Lists \in [Own!ListOps -> SUBSET Seq(FilePaths \X FilePaths)] /\ <<>> \notin Lists[op]
    BY FilesAssumption DEF Own!FilesAssumption
  <2>2. list \in Seq(FilePaths \X FilePaths) /\ list # <<>>
    BY <2>1
  <2> QED BY <2>2
<1>4. 1 \in DOMAIN list
  BY <1>3, EmptySeq
<1>5. c \in CallType /\ c.op = op /\ c.entry = e /\ c.list = list /\ c.i = 1
  BY <1>3 DEF CallType
<1> HIDE DEF c
<1>6. /\ pc' \in [FileProcs -> {"script", "file", "update"}] /\ call' \in [FileProcs -> CallType]
      /\ pc'[p] = "file" /\ call'[p] = c
      /\ \A q \in FileProcs : q # p => pc'[q] = pc[q] /\ call'[q] = call[q]
  BY <1>1, <1>2, <1>5 DEF OwnerTypes
<1>7. ASSUME op = "map"
      PROVE  Own!There(work, call[p].entry)' /\ \A j \in DOMAIN list : Unplaced(call[p], j)'
  <2>1. writer = p /\ Own!View(p) = work
    BY <1>0, <1>1, <1>7 DEF Own!View
  <2>2. Own!There(work', call'[p].entry)
    BY <1>1, <1>5, <1>6, <1>7, <2>1 DEF Own!There
  <2>3. \A j \in DOMAIN list : ~work'.rows[<<call'[p].entry, call'[p].list[j][1]>>].there
    BY <1>1, <1>5, <1>6, <1>7, <2>1
  <2> QED BY <2>2, <2>3, LoopPrimed DEF Unplaced
<1>8. InLoop(p)'
  <2>1. \A j \in 1 .. call'[p].i - 1 : FALSE
    BY <1>5, <1>6
  <2> QED BY <1>1, <1>4, <1>5, <1>6, <1>7, <2>1, Zenon DEF InLoop
<1>9. \A q \in FileProcs : pc'[q] # "script" => InLoop(q)'
  <2> SUFFICES ASSUME NEW q \in FileProcs, pc'[q] # "script", q # p PROVE InLoop(q)'
    BY <1>8
  <2>1. pc'[q] = pc[q] /\ call'[q] = call[q] /\ pc[q] # "script"
    BY <1>6
  <2> QED BY <1>0, <1>1, <2>1, OthersLoop
<1>10. OwnersInv'
  BY <1>1, <1>2, <1>6, <1>9, Primed DEF OwnersInv, OwnerTypes
<1>11. Own!Reported
  BY <1>6 DEF Own!Reported
<1> QED BY <1>1, <1>10, <1>11, Unstored DEF OwnersStep

\* A question that is answered as the registry its asker sees has it.
LEMMA AskedStep ==
    ASSUME OwnersInv, NEW p \in FileProcs, NEW op, NEW x, NEW found,
           Own!Answered(p, op, x, found), handles' \in [FileProcs -> SUBSET AllRows],
           LET seen2 == Own!Owners!Found(Own!Book(Own!View(p)), op, x) IN
           found = seen2 \/ (op = "actual_path" /\ seen2 = {})
    PROVE  OwnersStep
<1>1. /\ UNCHANGED <<db, work, writer, pc, call>> /\ pc[p] = "script"
      /\ answer' = [by |-> p, op |-> op, arg |-> x, found |-> found]
  BY DEF Own!Answered, Own!Call
<1>2. Own!IsBook(work') /\ Own!IsBook(db')
  BY <1>1 DEF OwnersInv, OwnerTypes
<1>2a. writer' = None => work' = db'
  BY <1>1 DEF OwnersInv, OwnerTypes
<1>3. OwnersInv' /\ Own!Reported
  BY <1>1, <1>2, <1>2a, ScriptStep
<1>4. Own!Book(work)' = Own!Book(work) /\ Own!Book(db)' = Own!Book(db)
  BY <1>1, Primed
<1>5. Own!Owners!View(p) = Own!Book(Own!View(p))
  BY DEF Own!Owners!View, Own!View
<1>6. answer'.by = p /\ answer'.op = op /\ answer'.arg = x /\ answer'.found = found
  BY <1>1
<1>7. Own!Owners!Ask(p)
  BY <1>1, <1>4, <1>5, <1>6 DEF Own!Owners!Ask
<1> QED BY <1>3, <1>7 DEF OwnersStep, Own!Owners!Step, Own!Owners!Next

LEMMA QuestionStep ==
    ASSUME OwnersInv, NEW p \in FileProcs, Own!Question(p) PROVE OwnersStep
<1> DEFINE b == Own!View(p)
<1>1. Own!IsBook(b) /\ handles \in [FileProcs -> SUBSET AllRows]
  BY DEF OwnersInv, OwnerTypes, Own!View
<1>2. ASSUME NEW op, NEW x, NEW found, Own!Answered(p, op, x, found), UNCHANGED handles,
             found = Own!Owners!Found(Own!Book(b), op, x)
      PROVE  OwnersStep
  BY <1>1, <1>2, AskedStep
<1> HIDE DEF b
<1>3. ASSUME NEW q, Own!AskOwner(p, q), UNCHANGED handles PROVE OwnersStep
  BY <1>1, <1>2, <1>3, OwnerFound DEF Own!AskOwner, b
<1>4. ASSUME NEW n, Own!AskImaged(p, n) \/ Own!AskInstalled(p, n), UNCHANGED handles
      PROVE  OwnersStep
  BY <1>1, <1>2, <1>4, StatesFound DEF Own!AskImaged, Own!AskInstalled, b
<1>5. ASSUME NEW e, Own!AskFiles(p, e), UNCHANGED handles PROVE OwnersStep
  BY <1>1, <1>2, <1>5, FilesFound DEF Own!AskFiles, b
<1>6. ASSUME NEW e, Own!AskImageFiles(p, e), UNCHANGED handles PROVE OwnersStep
  BY <1>1, <1>2, <1>6, ImageFound DEF Own!AskImageFiles, b
<1>7. ASSUME NEW e, Own!AskDependents(p, e) \/ Own!AskDependencies(p, e), UNCHANGED handles
      PROVE  OwnersStep
  BY <1>1, <1>2, <1>7, DependsFound DEF Own!AskDependents, Own!AskDependencies, b
<1>8. CASE Own!FileSearch(p)
  <2>1. /\ Own!Answered(p, "search", None, Own!Unclassified(b))
        /\ handles' = [handles EXCEPT ![p] = @ \cup Own!Unclassified(b)]
    BY <1>8 DEF Own!FileSearch, b
  <2>2. Own!Unclassified(b) \subseteq AllRows
    BY DEF Own!Unclassified, Own!Rows, AllRows
  <2>3. handles' \in [FileProcs -> SUBSET AllRows]
    BY <1>1, <2>1, <2>2
  <2>4. Own!Unclassified(b) = Own!Owners!Found(Own!Book(b), "search", None)
    BY <1>1, SearchFound
  <2> QED BY <2>1, <2>3, <2>4, AskedStep DEF b
<1>9. ASSUME NEW r \in AllRows, Own!ActualPath(p, r) PROVE OwnersStep
  <2>1. Own!Answered(p, "actual_path", r, Own!FilePropget(b, r)) /\ UNCHANGED handles
    BY <1>9 DEF Own!ActualPath, b
  <2>2. LET found == Own!Owners!Found(Own!Book(b), "actual_path", r) IN
        Own!FilePropget(b, r) = found \/ found = {}
    BY <1>1, PathFound
  <2> QED BY <1>1, <2>1, <2>2, AskedStep DEF b
<1>10. ASSUME NEW r \in AllRows, Own!SetBinary(p, r) PROVE OwnersStep
  BY <1>10, SetBinaryStep
<1> QED BY <1>3, <1>4, <1>5, <1>6, <1>7, <1>8, <1>9, <1>10 DEF Own!Question, AllRows

\* Every step keeps the invariant, is one of the promise or changes nothing of it, and
\* reports only what is done.
LEMMA OwnersNext == ASSUME OwnersInv, Own!Next PROVE OwnersStep
<1>1. PICK p \in FileProcs :
        \/ Own!BeginWrite(p) \/ (\E commits \in BOOLEAN : Own!EndWrite(p, commits))
        \/ (\E e \in Entries : Own!Change(p, e))
        \/ Own!ListStep(p) \/ Own!Question(p)
  BY DEF Own!Next
<1>2. CASE Own!BeginWrite(p)
  BY <1>2, BeginWriteStep
<1>3. CASE \E commits \in BOOLEAN : Own!EndWrite(p, commits)
  BY <1>3, EndWriteStep
<1>4. ASSUME NEW e \in Entries, Own!Change(p, e) PROVE OwnersStep
  <2>1. CASE Own!StartFilemap(p, e) \/ Own!StartActivate(p, e)
    <3>1. PICK op \in Own!ListOps : \E list \in Lists[op] : Own!StartList(p, op, e, list)
      BY <2>1 DEF Own!StartFilemap, Own!StartActivate, Own!ListOps
    <3> QED BY <3>1, StartListStep
  <2>2. CASE Own!CreateEntry(p, e)
    BY <2>2, CreateEntryStep
  <2>3. CASE Own!DeleteEntry(p, e)
    BY <2>3, DeleteEntryStep
  <2>4. CASE \E s \in {"imaged", "installed"} : Own!SetState(p, e, s)
    BY <2>4, SetStateStep
  <2>5. CASE \E d \in Entries \ {e} : Own!Depends(p, e, Name[d])
    BY <2>5, DependsStep
  <2> QED BY <1>4, <2>1, <2>2, <2>3, <2>4, <2>5 DEF Own!Change
<1>5. CASE Own!ListStep(p)
  BY <1>5, MapFileStep, UnmapFileStep, DeactivateFileStep, SelectOwnerStep, ActivateFileStep,
     StatementFailsStep DEF Own!ListStep
<1>6. CASE Own!Question(p)
  BY <1>6, QuestionStep
<1> QED BY <1>1, <1>2, <1>3, <1>4, <1>5, <1>6

LEMMA OwnersBegin == ASSUME Own!Init PROVE Own!Owners!Init
BY DEF Own!Init, Own!Owners!Init, Own!NoAnswer, Own!Owners!NoAnswer

LEMMA OwnersStays == ASSUME OwnersInv, UNCHANGED ownerVars, pc' = pc PROVE OwnersInv'
<1>1. UNCHANGED <<db, work, writer, call, handles, pc>>
  BY DEF ownerVars
<1>2. OwnerTypes'
  BY <1>1, Primed DEF OwnersInv, OwnerTypes
<1>3. ASSUME NEW p \in FileProcs, pc'[p] # "script" PROVE InLoop(p)'
  <2>1. \A j : FileDone(work, call[p], j)' <=> FileDone(work, call[p], j)
    BY <1>1, LoopPrimed
  <2>2. /\ Own!There(work, call[p].entry)' <=> Own!There(work, call[p].entry)
        /\ Own!Active(work, call[p].list[call[p].i][2])' = Own!Active(work, call[p].list[call[p].i][2])
        /\ \A j : Unplaced(call[p], j)' <=> Unplaced(call[p], j)
    BY <1>1 DEF Own!There, Own!Active, Own!Rows, Unplaced
  <2>3. InLoop(p)
    BY <1>1, <1>3 DEF OwnersInv
  <2> QED BY <1>1, <2>1, <2>2, <2>3, Zenon DEF InLoop
<1> QED BY <1>2, <1>3 DEF OwnersInv

-----------------------------------------------------------------------------
(* The commands of base together *)

BaseInv ==
    /\ subject = "install" => InstallInv
    /\ subject = "system" => SystemInv
    /\ subject = "trace" => TraceInv
    /\ subject = "owners" => OwnersInv

\* The subject of a behaviour begins as its component does.
LEMMA BaseInitially == ASSUME Init PROVE BaseInv
<1>1. ASSUME subject = "install" PROVE InstallInv
  BY <1>1, InstallInitially, InstallAssumption DEF Init
<1>2. ASSUME subject = "system" PROVE SystemInv
  BY <1>2, SystemInitially DEF Init
<1>3. ASSUME subject = "trace" PROVE TraceInv
  BY <1>3, TraceInitially DEF Init
<1>4. ASSUME subject = "owners" PROVE OwnersInv
  BY <1>4, OwnersInitially, FilesAssumption DEF Init
<1> QED BY <1>1, <1>2, <1>3, <1>4 DEF BaseInv

\* A step of one subject is a step of its component, and changes no subject.
LEMMA SubjectsStep ==
    ASSUME Next
    PROVE  /\ subject' = subject
           /\ subject = "install" => Inst!Next
           /\ subject = "system" => System!Next
           /\ subject = "trace" => Tr!Next
           /\ subject = "owners" => Own!Next
BY DEF Next, TraceSteps, InstallSteps, OwnerSteps, VersionSteps, SystemSteps, WalkSteps,
       ScanSteps,
       ownerVars

\* A step that changes nothing keeps the invariants.
LEMMA InstallStays == ASSUME InstallInv, UNCHANGED vars PROVE InstallInv'
BY DEF vars, sharedVars, installVars, InstallInv, InstallTypes, Compared, InPlace, Parents,
       Beside,
       CopyBeside, Instead, CopyInstead, Untouched, Whole, Inst!Want, Inst!target, Inst!tempcopy

LEMMA SystemStays == ASSUME SystemInv, UNCHANGED vars PROVE SystemInv'
BY DEF vars, sharedVars, systemVars, SystemInv, SystemTypes, LinesKept, StartsWithPipe,
       OutputRead, StatusGiven, System!Processes

LEMMA TraceStays == ASSUME TraceInv, UNCHANGED vars PROVE TraceInv'
<1>1. UNCHANGED <<plan, lib, main, slave, conn, proc>>
  BY DEF vars, sharedVars, traceVars
<1>2. TraceTypes' /\ Stages' /\ FenceIsUp' /\ TargetsOf'
  BY <1>1 DEF TraceInv, TraceTypes, Stages, FenceIsUp, TargetsOf, Tr!Target
<1>3. Connected' /\ ReadyIsOpen'
  BY <1>1 DEF TraceInv, Connected, ReadyIsOpen
<1>4. AllTalk'
  BY ZenonT(60), <1>1 DEF TraceInv, AllTalk, Talking, Talks, MapAsked, DepAsked, Violations, Tr!Target
<1> QED BY <1>2, <1>3, <1>4 DEF TraceInv

\* Every step keeps the invariant of the subject.
LEMMA BaseStep == ASSUME BaseInv, [Next]_vars PROVE BaseInv'
<1>1. CASE Next
  <2>1. subject' = subject
    BY <1>1, SubjectsStep
  <2>2. ASSUME subject = "install" PROVE InstallInv'
    BY <1>1, <2>2, SubjectsStep, InstallStep DEF BaseInv
  <2>3. ASSUME subject = "system" PROVE SystemInv'
    BY <1>1, <2>3, SubjectsStep, SystemStep DEF BaseInv
  <2>4. ASSUME subject = "trace" PROVE TraceInv'
    BY <1>1, <2>4, SubjectsStep, TraceStep DEF BaseInv
  <2>5. ASSUME subject = "owners" PROVE OwnersInv'
    <3>1. OwnersInv /\ Own!Next
      BY <1>1, <2>5, SubjectsStep DEF BaseInv
    <3>2. OwnersStep
      BY <3>1, OwnersNext
    <3> QED BY <3>2 DEF OwnersStep
  <2> QED BY <2>1, <2>2, <2>3, <2>4, <2>5 DEF BaseInv
<1>2. CASE UNCHANGED vars
  <2>1. subject' = subject
    BY <1>2 DEF vars, sharedVars
  <2>2. UNCHANGED ownerVars /\ pc' = pc
    BY <1>2 DEF vars, sharedVars
  <2> QED BY <1>2, <2>1, <2>2, InstallStays, SystemStays, TraceStays, OwnersStays DEF BaseInv
<1> QED BY <1>1, <1>2

\* What install, system, trace mode and the files table keep as long as they run.
THEOREM BaseInvCorrect == Spec => []BaseInv
<1>1. Init => BaseInv
  BY BaseInitially
<1>2. BaseInv /\ [Next]_vars => BaseInv'
  BY BaseStep
<1> QED BY <1>1, <1>2, PTL DEF Spec

\* install: success means the file is in place, and with -S or -b the old content or
\* the new can be found at every moment (xinstall.c), whatever fails and how often.
THEOREM InstallIsSafeCorrect == Spec => []InstallIsSafe
<1>1. BaseInv => InstallIsSafe
  BY InstallIsSafeFollows DEF BaseInv, InstallIsSafe
<1> QED BY <1>1, BaseInvCorrect, PTL

\* system: success means exit code 0 and every line shown (system.c), for any number
\* of lines, of descriptors and any size of the pipe.
THEOREM OkMeansDoneCorrect == Spec => []OkMeansDone
<1>1. BaseInv => OkMeansDone
  BY OkFollows DEF BaseInv, OkMeansDone
<1> QED BY <1>1, BaseInvCorrect, PTL

\* A traced target has a socket, and none of its processes gets at a file that it may
\* not (tracelib.c, darwintrace.c), for any processes and targets within the limits.
THEOREM FenceHoldsCorrect == Spec => FenceHolds
<1>1. BaseInv => (subject = "trace" => Tr!SocketOpened)
  BY SocketIsOpen DEF BaseInv
<1>2. BaseInv /\ [Next]_vars =>
        [subject = "trace" => \A p \in Tracees :
            /\ main.pc = "target" /\ proc[p].target = main.target
            /\ proc'[p].verdict = "allowed" /\ proc[p].verdict # "allowed"
            => Tr!Permitted(p)]_vars
  <2> SUFFICES ASSUME BaseInv, Next, subject = "trace", NEW p \in Tracees, main.pc = "target",
                      proc[p].target = main.target,
                      proc'[p].verdict = "allowed", proc[p].verdict # "allowed"
               PROVE  Tr!Permitted(p)
    OBVIOUS
  <2>1. TraceInv /\ Tr!Next
    BY SubjectsStep DEF BaseInv
  <2> QED BY <2>1, AllowedIsPermitted
<1>3. Spec => [](subject = "trace" => Tr!SocketOpened)
  BY <1>1, BaseInvCorrect, PTL
<1>4. Spec => [][subject = "trace" => \A p \in Tracees :
            /\ main.pc = "target" /\ proc[p].target = main.target
            /\ proc'[p].verdict = "allowed" /\ proc[p].verdict # "allowed"
            => Tr!Permitted(p)]_vars
  <2>1. Spec => []BaseInv /\ [][Next]_vars
    BY BaseInvCorrect, PTL DEF Spec
  <2> QED BY <1>2, <2>1, PTL
<1> QED BY <1>3, <1>4 DEF FenceHolds

\* The rows of the files table are a map of who holds which path, that the calls of
\* processes, each file by file, change one at a time, and a call that reports success
\* in a transaction has done what it was to do for every file (cregistry/entry.c), for
\* any processes, entries, files and lists within the limits.
THEOREM OwnersImplementedCorrect == Spec => OwnersImplemented
<1>1. Init => (subject = "owners" => Own!Owners!Init)
  BY OwnersBegin DEF Init
<1>2. BaseInv /\ [Next]_vars => [subject = "owners" => Own!Owners!Step /\ Own!Reported]_vars
  <2> SUFFICES ASSUME BaseInv, Next, subject = "owners" PROVE Own!Owners!Step /\ Own!Reported
    OBVIOUS
  <2>1. OwnersInv /\ Own!Next
    BY SubjectsStep DEF BaseInv
  <2>2. OwnersStep
    BY <2>1, OwnersNext
  <2> QED BY <2>2 DEF OwnersStep
<1>3. Spec => [][subject = "owners" => Own!Owners!Step /\ Own!Reported]_vars
  <2>1. Spec => []BaseInv /\ [][Next]_vars
    BY BaseInvCorrect, PTL DEF Spec
  <2> QED BY <1>2, <2>1, PTL
<1>4. Spec => (subject = "owners" => Own!Owners!Init)
  BY <1>1, PTL DEF Spec
<1> QED BY <1>3, <1>4 DEF OwnersImplemented
=============================================================================
