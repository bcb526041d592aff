---------------------------- MODULE CommandsProofs ----------------------------
(***************************************************************************)
(* Proofs about MCCommands. Builds of one port (TargetState): for any      *)
(* processes, targets and selections of variants and any number of starts, *)
(* edits, cleans, deaths and files. port uninstall (Uninstall): for any    *)
(* registry, any number of commands and of failing steps. port upgrade     *)
(* (Upgrade): for any ports, versions, dependencies and options, with what *)
(* ReplacementsAssumption asks, and any number of failing steps.           *)
(***************************************************************************)
EXTENDS MCCommands, Sequences, WellFoundedInduction, SequenceTheorems, TLAPS

-----------------------------------------------------------------------------
(* Together in a directory whose state file is current. No check finds the  *)
(* file stale, so there is one file, and whoever is past its lock holds it. *)

Past == {"locked", "running", "record"}

SharedFile ==
    /\ portfile = 1 /\ dir = TRUE /\ flocks = TRUE /\ path = 1
    /\ file[1].version = TRUE /\ file[1].sum = 1
SharedDone == \A t \in file[1].done : \E x \in tree : x.t = t
SharedBuilder(p) ==
    /\ proc[p].pc \notin {"discard", "version", "sum"} /\ ~proc[p].fresh
    /\ proc[p].pc = "lock" => proc[p].fd = 1
    /\ proc[p].pc \in Past => proc[p].fd = 1 /\ flocked[1] = p
    /\ \A t \in 1 .. proc[p].task - 1 : t \in file[1].done
    /\ proc[p].pc = "record" => \E x \in tree : x.t = proc[p].task
    /\ proc[p].pc # "idle" => proc[p].sel \in SharedBuilds.selections
    /\ proc[p].pc \in {"running", "record"} => proc[p].task # 0
SharedInv ==
    Shared!TypeOK /\ SharedFile /\ SharedDone /\ \A p \in Builders : SharedBuilder(p)

LEMMA SharedInit == Shared!Init => SharedInv
<1> SUFFICES ASSUME Shared!Init PROVE SharedInv
    OBVIOUS
<1> USE BuildsAssumption
<1>a. /\ SharedBuilds.last \in Nat /\ SharedBuilds.starts \in Nat /\ SharedBuilds.deaths \in Nat
      /\ SharedBuilds.files \in Nat \ {0}
  BY DEF Shared!TargetStateAssumption
<1>b. PICK n \in 0 .. SharedBuilds.last, sel \in SharedBuilds.selections :
        /\ portfile = 1 /\ dir = TRUE /\ path = 1
        /\ file = [f \in Shared!Files |->
                     IF f = 1 THEN Shared!Earlier("current", n, sel) ELSE Shared!Empty]
        /\ tree = {[t |-> t, pf |-> 1, vars |-> sel] : t \in 1 .. n}
  <2>1. PICK kind \in {"current"}, n \in 0 .. SharedBuilds.last, sel \in SharedBuilds.selections :
        /\ portfile \in (IF kind = "outdated" THEN {2} ELSE {1})
        /\ dir = (kind # "none")
        /\ path = IF kind = "none" THEN 0 ELSE 1
        /\ file = [f \in Shared!Files |->
                IF f = 1 /\ kind # "none" THEN Shared!Earlier(kind, n, sel) ELSE Shared!Empty]
        /\ tree = IF kind = "none" THEN {}
                  ELSE {[t |-> t, pf |-> 1, vars |-> sel] : t \in 1..n}
    BY DEF Shared!Init
  <2> QED BY <2>1
<1>c. PICK c : c = Shared!Earlier("current", n, sel)
  OBVIOUS
<1>c1. c.version = TRUE /\ c.sum = 1 /\ c.done = 1 .. n
  BY <1>c, <1>b DEF Shared!Earlier, Shared!Empty
<1>d. /\ proc = [p \in Builders |-> Shared!Idle] /\ flocks = TRUE
      /\ flocked = [f \in Shared!Files |-> None]
      /\ bounds = [starts |-> SharedBuilds.starts, cleans |-> 0, deaths |-> SharedBuilds.deaths,
                   files |-> SharedBuilds.files - 1]
  BY DEF Shared!Init
<1>e. 1 \in Shared!Files /\ 1 \in Shared!Portfiles /\ sel \in SUBSET Shared!Variants
  BY <1>a DEF Shared!Files, Shared!Portfiles, Shared!Variants
<1>1. Shared!TypeOK
  <2>1. portfile \in Shared!Portfiles /\ dir \in BOOLEAN /\ flocks \in {TRUE}
    BY <1>b, <1>d, <1>e
  <2>2. tree \subseteq [t : Shared!Targets, pf : Shared!Portfiles, vars : SharedBuilds.selections]
    BY <1>b, <1>e, <1>a DEF Shared!Targets
  <2>3. path \in {0} \cup Shared!Files
    BY <1>b, <1>e
  <2>4. file \in [Shared!Files -> Shared!Contents]
    <3>1. Shared!Empty \in Shared!Contents
      BY DEF Shared!Empty, Shared!Contents
    <3>2. Shared!Earlier("current", n, sel) \in Shared!Contents
      <4>1. 1 .. n \in SUBSET Shared!Targets /\ 1 \in {0} \cup Shared!Portfiles
        BY <1>a, <1>e DEF Shared!Targets
      <4>2. ASSUME NEW c1 \in Shared!Contents, NEW v \in BOOLEAN, NEW o \in BOOLEAN
            PROVE [c1 EXCEPT !.version = v, !.sum = 1, !.vars = sel, !.done = 1 .. n, !.old = o]
                    \in Shared!Contents
        BY <4>1, <1>e DEF Shared!Contents
      <4>3. ("current" # "unversioned") \in BOOLEAN /\ ("current" = "outdated") \in BOOLEAN
        OBVIOUS
      <4>4. Shared!Earlier("current", n, sel)
              = [Shared!Empty EXCEPT !.version = "current" # "unversioned", !.sum = 1, !.vars = sel,
                                     !.done = 1 .. n, !.old = "current" = "outdated"]
        BY <1>b, Zenon DEF Shared!Earlier
      <4> QED BY <4>2, <4>3, <4>4, <3>1, Zenon
    <3> QED BY <3>1, <3>2, <1>b
  <2>5. flocked \in [Shared!Files -> Builders \cup {None}]
    BY <1>d
  <2>6. proc \in [Builders -> [
            pc : {"idle", "open", "look", "discard", "create", "lock", "version",
                  "sum", "locked", "running", "record", "completed"},
            task : 0..SharedBuilds.last, parsed : Shared!Portfiles, sel : SUBSET Shared!Variants,
            sum : Shared!Portfiles, fresh : BOOLEAN, fd : {0} \cup Shared!Files]]
    BY <1>d, <1>a, <1>e DEF Shared!Idle
  <2>7. bounds \in [starts : 0..SharedBuilds.starts, cleans : 0..0,
                    deaths : 0..SharedBuilds.deaths, files : 0..SharedBuilds.files]
    BY <1>d, <1>a
  <2> QED BY <2>1, <2>2, <2>3, <2>4, <2>5, <2>6, <2>7 DEF Shared!TypeOK
<1>2. SharedFile
  BY <1>b, <1>c, <1>c1, <1>d, <1>e DEF SharedFile
<1>3. SharedDone
  <2>1. file[1].done = 1 .. n
    BY <1>b, <1>c, <1>c1, <1>e
  <2>2. ASSUME NEW t \in 1 .. n PROVE \E x \in tree : x.t = t
    <3>1. [t |-> t, pf |-> 1, vars |-> sel] \in tree
      BY <1>b
    <3> QED BY <3>1
  <2> QED BY <2>1, <2>2 DEF SharedDone
<1>4. ASSUME NEW p \in Builders PROVE SharedBuilder(p)
  BY <1>d DEF SharedBuilder, Shared!Idle, Past
<1> QED BY <1>1, <1>2, <1>3, <1>4 DEF SharedInv

\* What a step of p leaves of the rest, and of the other processes.
LEMMA SharedOthers ==
    ASSUME NEW p \in Builders, NEW r, SharedInv,
           proc' = [proc EXCEPT ![p] = r],
           r \in [pc : {"idle", "open", "look", "create", "lock", "locked", "running", "record",
                        "completed"},
                  task : 0..SharedBuilds.last, parsed : Shared!Portfiles,
                  sel : SUBSET Shared!Variants, sum : Shared!Portfiles, fresh : {FALSE},
                  fd : {0} \cup Shared!Files],
           UNCHANGED <<portfile, dir, flocks, path>>,
           tree \subseteq tree',
           tree' \subseteq [t : Shared!Targets, pf : Shared!Portfiles, vars : SharedBuilds.selections],
           file' \in [Shared!Files -> Shared!Contents],
           file'[1].version = TRUE, file'[1].sum = 1, file[1].done \subseteq file'[1].done,
           \A t \in file'[1].done : \E x \in tree' : x.t = t,
           flocked' \in [Shared!Files -> Builders \cup {None}],
           \A q \in Builders \ {p} : flocked[1] = q => flocked'[1] = q,
           bounds' \in [starts : 0..SharedBuilds.starts, cleans : 0..0,
                        deaths : 0..SharedBuilds.deaths, files : 0..SharedBuilds.files],
           r.pc = "lock" => r.fd = 1,
           r.pc \in Past => r.fd = 1 /\ flocked'[1] = p,
           \A t \in 1 .. r.task - 1 : t \in file'[1].done,
           r.pc = "record" => \E x \in tree' : x.t = r.task,
           r.pc # "idle" => r.sel \in SharedBuilds.selections,
           r.pc \in {"running", "record"} => r.task # 0
    PROVE  SharedInv'
<1>1. Shared!TypeOK /\ SharedFile /\ proc \in [Builders -> [
            pc : {"idle", "open", "look", "discard", "create", "lock", "version",
                  "sum", "locked", "running", "record", "completed"},
            task : 0..SharedBuilds.last, parsed : Shared!Portfiles, sel : SUBSET Shared!Variants,
            sum : Shared!Portfiles, fresh : BOOLEAN, fd : {0} \cup Shared!Files]]
  BY DEF SharedInv, Shared!TypeOK
<1>2. Shared!TypeOK'
  <2>1. r \in [pc : {"idle", "open", "look", "discard", "create", "lock", "version",
                  "sum", "locked", "running", "record", "completed"},
            task : 0..SharedBuilds.last, parsed : Shared!Portfiles, sel : SUBSET Shared!Variants,
            sum : Shared!Portfiles, fresh : BOOLEAN, fd : {0} \cup Shared!Files]
    OBVIOUS
  <2>2. proc' \in [Builders -> [
            pc : {"idle", "open", "look", "discard", "create", "lock", "version",
                  "sum", "locked", "running", "record", "completed"},
            task : 0..SharedBuilds.last, parsed : Shared!Portfiles, sel : SUBSET Shared!Variants,
            sum : Shared!Portfiles, fresh : BOOLEAN, fd : {0} \cup Shared!Files]]
    BY <1>1, <2>1
  <2> QED BY <1>1, <2>2 DEF Shared!TypeOK
<1>3. SharedFile'
  BY <1>1 DEF SharedFile
<1>4. SharedDone'
  BY DEF SharedDone
<1>5. ASSUME NEW q \in Builders PROVE SharedBuilder(q)'
  <2>1. CASE q = p
    <3>1. proc'[q] = r
      BY <1>1, <2>1
    <3> QED BY <3>1, <2>1 DEF SharedBuilder
  <2>2. CASE q # p
    <3>1. proc'[q] = proc[q]
      BY <1>1, <2>2
    <3>2. SharedBuilder(q)
      BY DEF SharedInv
    <3>3. (\E x \in tree : x.t = proc[q].task) => \E x \in tree' : x.t = proc[q].task
      OBVIOUS
    <3> QED BY <3>1, <3>2, <3>3, <2>2 DEF SharedBuilder
  <2> QED BY <2>1, <2>2
<1> QED BY <1>2, <1>3, <1>4, <1>5 DEF SharedInv

LEMMA SharedStep == SharedInv /\ Shared!Next => SharedInv'
<1> SUFFICES ASSUME SharedInv, Shared!Next PROVE SharedInv'
    OBVIOUS
<1>a. /\ Shared!TypeOK /\ SharedFile /\ SharedDone
      /\ \A p \in Builders : SharedBuilder(p)
  BY DEF SharedInv
<1>b. /\ portfile = 1 /\ dir = TRUE /\ flocks = TRUE /\ path = 1
      /\ file[1].version = TRUE /\ file[1].sum = 1
  BY <1>a DEF SharedFile
<1>c. /\ tree \subseteq [t : Shared!Targets, pf : Shared!Portfiles, vars : SharedBuilds.selections]
      /\ file \in [Shared!Files -> Shared!Contents]
      /\ flocked \in [Shared!Files -> Builders \cup {None}]
      /\ bounds \in [starts : 0..SharedBuilds.starts, cleans : 0..0,
                     deaths : 0..SharedBuilds.deaths, files : 0..SharedBuilds.files]
      /\ path \in {0} \cup Shared!Files /\ portfile \in Shared!Portfiles
  BY <1>a DEF Shared!TypeOK
<1>d. 1 \in Shared!Files /\ Shared!Portfiles = {1} /\ 1 \in Shared!Portfiles /\ 0 \notin Shared!Files
  BY <1>b, <1>c DEF Shared!Files, Shared!Portfiles
<1>e. /\ SharedBuilds.last \in Nat /\ None \notin Builders
      /\ SharedBuilds.starts \in Nat /\ SharedBuilds.deaths \in Nat
  BY BuildsAssumption DEF Shared!TargetStateAssumption
<1>f. \A t \in file[1].done : \E x \in tree : x.t = t
  BY <1>a DEF SharedDone
<1>1. ~Shared!Edit /\ ~Shared!Clean
  <2>1. bounds.cleans \in 0 .. 0
    BY <1>c
  <2>2. bounds.cleans = 0 /\ ~(bounds.cleans > 0)
    BY <2>1
  <2>3. ~(portfile <= 0)
    BY <1>b
  <2> QED BY <2>2, <2>3 DEF Shared!Edit, Shared!Clean
<1>2. PICK p \in Builders :
        Shared!Start(p) \/ Shared!OpenStatefile(p) \/ Shared!RunTarget(p) \/ Shared!Die(p)
  BY <1>1 DEF Shared!Next
<1> DEFINE
      PcTypes == [
            pc : {"idle", "open", "look", "discard", "create", "lock", "version",
                  "sum", "locked", "running", "record", "completed"},
            task : 0..SharedBuilds.last, parsed : Shared!Portfiles, sel : SUBSET Shared!Variants,
            sum : Shared!Portfiles, fresh : BOOLEAN, fd : {0} \cup Shared!Files]
      RTypes == [
            pc : {"idle", "open", "look", "create", "lock", "locked", "running", "record",
                        "completed"},
                  task : 0..SharedBuilds.last, parsed : Shared!Portfiles,
                  sel : SUBSET Shared!Variants, sum : Shared!Portfiles, fresh : {FALSE},
                  fd : {0} \cup Shared!Files]
<1>g. proc \in [Builders -> PcTypes]
  BY <1>a DEF Shared!TypeOK
<1>h. PICK o : o = proc[p]
  OBVIOUS
<1>i. o \in RTypes
  <2>1. o \in PcTypes /\ o.pc \notin {"discard", "version", "sum"} /\ ~o.fresh
    BY <1>g, <1>h, <1>a DEF SharedBuilder
  <2>2. o.fresh = FALSE
    BY <2>1
  <2> QED BY <2>1, <2>2
<1>j. /\ o.pc = "lock" => o.fd = 1
      /\ o.pc \in Past => o.fd = 1 /\ flocked[1] = p
      /\ \A t \in 1 .. o.task - 1 : t \in file[1].done
      /\ o.pc = "record" => \E x \in tree : x.t = o.task
      /\ o.pc # "idle" => o.sel \in SharedBuilds.selections
      /\ o.pc \in {"running", "record"} => o.task # 0
  BY <1>a, <1>h DEF SharedBuilder
<1>k. Shared!Idle \in RTypes /\ Shared!Idle.pc = "idle" /\ Shared!Idle.task = 0
  BY <1>d, <1>e DEF Shared!Idle
\* Nothing of the directory changes.
<1>l. ASSUME NEW r \in RTypes, proc' = [proc EXCEPT ![p] = r],
             UNCHANGED <<portfile, dir, tree, path, file, flocks>>,
             flocked' \in [Shared!Files -> Builders \cup {None}],
             \A q \in Builders \ {p} : flocked[1] = q => flocked'[1] = q,
             bounds' \in [starts : 0..SharedBuilds.starts, cleans : 0..0,
                          deaths : 0..SharedBuilds.deaths, files : 0..SharedBuilds.files],
             r.pc = "lock" => r.fd = 1,
             r.pc \in Past => r.fd = 1 /\ flocked'[1] = p,
             \A t \in 1 .. r.task - 1 : t \in file[1].done,
             r.pc = "record" => \E x \in tree : x.t = r.task,
             r.pc # "idle" => r.sel \in SharedBuilds.selections,
             r.pc \in {"running", "record"} => r.task # 0
      PROVE  SharedInv'
  <2> HIDE DEF RTypes, PcTypes
  <2>1. r \in RTypes /\ tree \subseteq tree' /\ file[1].done \subseteq file'[1].done
    BY <1>l
  <2> USE DEF RTypes
  <2> QED BY <2>1, <1>l, <1>b, <1>c, <1>f, SharedOthers
<1>m. ASSUME Shared!Unlock(p)
      PROVE  /\ flocked' \in [Shared!Files -> Builders \cup {None}]
             /\ \A q \in Builders \ {p} : flocked[1] = q => flocked'[1] = q
  BY <1>m, <1>c, <1>d DEF Shared!Unlock
<1> HIDE DEF RTypes, PcTypes
<1>3. CASE Shared!Start(p)
  <2>1. PICK sel \in SharedBuilds.selections :
          proc' = [proc EXCEPT ![p] = [Shared!Idle EXCEPT !.pc = "open", !.parsed = portfile,
                                                         !.sel = sel]]
    BY <1>3 DEF Shared!Start
  <2>2. PICK r : r = [Shared!Idle EXCEPT !.pc = "open", !.parsed = portfile, !.sel = sel]
    OBVIOUS
  <2>3. sel \in SUBSET Shared!Variants
    BY DEF Shared!Variants
  <2>4. r \in RTypes /\ r.pc = "open" /\ r.task = 0 /\ r.sel \in SharedBuilds.selections
    BY <2>2, <2>3, <1>k, <1>b, <1>d DEF RTypes
  <2>5. bounds.starts > 0 /\ bounds' = [bounds EXCEPT !.starts = @ - 1]
    BY <1>3 DEF Shared!Start
  <2>6. bounds' \in [starts : 0..SharedBuilds.starts, cleans : 0..0,
                     deaths : 0..SharedBuilds.deaths, files : 0..SharedBuilds.files]
    BY <2>5, <1>c, <1>e
  <2>7. UNCHANGED <<portfile, dir, tree, path, file, flocked, flocks>>
    BY <1>3 DEF Shared!Start, Shared!work
  <2>8. proc' = [proc EXCEPT ![p] = r]
    BY <2>1, <2>2
  <2>9. ~(r.pc \in Past) /\ \A t \in 1 .. r.task - 1 : t \in file[1].done
    BY <2>4 DEF Past
  <2> QED BY <2>4, <2>6, <2>7, <2>8, <2>9, <1>l, <1>c
<1>4. CASE Shared!Prepare(p)
  <2>1. /\ proc' = [proc EXCEPT ![p].pc = "look", ![p].sum = portfile]
        /\ dir' = TRUE /\ UNCHANGED <<portfile, tree, path, file, flocked, flocks, bounds>>
    BY <1>4 DEF Shared!Prepare
  <2>2. PICK r : r = [o EXCEPT !.pc = "look", !.sum = portfile]
    OBVIOUS
  <2>3. proc' = [proc EXCEPT ![p] = r]
    BY <2>1, <2>2, <1>h, <1>g DEF PcTypes
  <2>4. r \in RTypes /\ r.pc = "look" /\ r.task = o.task /\ r.sel = o.sel /\ o.pc # "idle"
    BY <2>2, <1>i, <1>b, <1>d, <1>h, <1>4 DEF RTypes, Shared!Prepare, Shared!At
  <2>5. r.pc \notin Past
    BY <2>4 DEF Past
  <2> QED BY <2>1, <2>3, <2>4, <2>5, <1>l, <1>j, <1>b, <1>c
<1>5. CASE Shared!Look(p)
  <2>1. o.sum = 1
    BY <1>i, <1>d DEF RTypes
  <2>2. ~(path # 0 /\ Shared!Outdated(file[path], proc[p].sum)) /\ path # 0
    BY <2>1, <1>b, <1>h DEF Shared!Outdated
  <2>3. /\ proc' = [proc EXCEPT ![p].pc = "create", ![p].fresh = FALSE]
        /\ UNCHANGED <<portfile, dir, tree, path, file, flocked, flocks, bounds>>
    <3>1. PICK stale \in BOOLEAN :
            /\ stale = (path # 0 /\ Shared!Outdated(file[path], proc[p].sum))
            /\ proc' = [proc EXCEPT ![p].pc = IF stale THEN "discard" ELSE "create",
                                    ![p].fresh = stale \/ path = 0]
      BY <1>5 DEF Shared!Look
    <3>2. stale = FALSE /\ (stale \/ path = 0) = FALSE
      BY <3>1, <2>2
    <3>3. UNCHANGED <<portfile, dir, tree, path, file, flocked, flocks, bounds>>
      BY <1>5 DEF Shared!Look, Shared!work
    <3> QED BY <3>1, <3>2, <3>3
  <2>4. PICK r : r = [o EXCEPT !.pc = "create", !.fresh = FALSE]
    OBVIOUS
  <2>5. proc' = [proc EXCEPT ![p] = r]
    BY <2>3, <2>4, <1>h, <1>g DEF PcTypes
  <2>6. r \in RTypes /\ r.pc = "create" /\ r.task = o.task /\ r.sel = o.sel /\ o.pc # "idle"
    BY <2>4, <1>i, <1>h, <1>5 DEF RTypes, Shared!Look, Shared!At
  <2>7. r.pc \notin Past
    BY <2>6 DEF Past
  <2> QED BY <2>3, <2>5, <2>6, <2>7, <1>l, <1>j, <1>b, <1>c
<1>6. CASE Shared!Discard(p)
  BY <1>6, <1>i, <1>h DEF Shared!Discard, Shared!At, RTypes
<1>7. CASE Shared!Create(p)
  <2>1. /\ proc' = [proc EXCEPT ![p].pc = "lock", ![p].fd = path]
        /\ UNCHANGED <<portfile, dir, tree, path, file, flocked, flocks, bounds>>
    BY <1>7, <1>b DEF Shared!Create
  <2>2. PICK r : r = [o EXCEPT !.pc = "lock", !.fd = path]
    OBVIOUS
  <2>3. proc' = [proc EXCEPT ![p] = r]
    BY <2>1, <2>2, <1>h, <1>g DEF PcTypes
  <2>4. r \in RTypes /\ r.pc = "lock" /\ r.fd = 1 /\ r.task = o.task /\ r.sel = o.sel /\ o.pc # "idle"
    BY <2>2, <1>i, <1>b, <1>d, <1>h, <1>7 DEF RTypes, Shared!Create, Shared!At
  <2>5. r.pc \notin Past
    BY <2>4 DEF Past
  <2> QED BY <2>1, <2>3, <2>4, <2>5, <1>l, <1>j, <1>b, <1>c
<1>8. CASE Shared!Lock(p)
  <2>1. o.pc = "lock" /\ o.fd = 1 /\ o.fresh = FALSE
    BY <1>8, <1>h, <1>i, <1>j DEF Shared!Lock, Shared!At, RTypes
  <2>2. /\ flocked[1] = None /\ flocked' = [flocked EXCEPT ![1] = p]
        /\ proc' = [proc EXCEPT ![p].pc = "locked"]
        /\ UNCHANGED <<portfile, dir, tree, path, file, flocks, bounds>>
    BY <1>8, <2>1, <1>b, <1>h DEF Shared!Lock, Shared!GoTo, Shared!work
  <2>3. PICK r : r = [o EXCEPT !.pc = "locked"]
    OBVIOUS
  <2>4. proc' = [proc EXCEPT ![p] = r]
    BY <2>2, <2>3, <1>h, <1>g DEF PcTypes
  <2>5. r \in RTypes /\ r.pc = "locked" /\ r.fd = 1 /\ r.task = o.task /\ r.sel = o.sel
    BY <2>1, <2>3, <1>i DEF RTypes
  <2>6. /\ flocked' \in [Shared!Files -> Builders \cup {None}] /\ flocked'[1] = p
        /\ \A q \in Builders \ {p} : flocked[1] = q => flocked'[1] = q
    BY <2>2, <1>c, <1>d, <1>e
  <2> QED BY <2>1, <2>2, <2>4, <2>5, <2>6, <1>l, <1>j, <1>b, <1>c
<1>9. CASE Shared!WriteVersion(p) \/ Shared!WriteSum(p)
  BY <1>9, <1>i, <1>h DEF Shared!WriteVersion, Shared!WriteSum, Shared!At, RTypes
\* The next target, once 1 .. o.task are recorded in what the file is then.
<1>10. ASSUME Shared!NextTask(p), o.pc \in Past
       PROVE  \E r \in RTypes :
                 /\ proc' = [proc EXCEPT ![p] = r] /\ r.pc \in {"open", "completed"}
                 /\ r.task \in {o.task, o.task + 1} /\ r.task - 1 <= o.task
                 /\ r.sel \in SharedBuilds.selections
                 /\ r.task = o.task => o.task = SharedBuilds.last
  <2>1. PICK r : r = [o EXCEPT !.pc = IF o.task = SharedBuilds.last THEN "completed" ELSE "open",
                               !.task = IF o.task = SharedBuilds.last THEN SharedBuilds.last
                                        ELSE o.task + 1,
                               !.fd = 0]
    OBVIOUS
  <2>2. proc' = [proc EXCEPT ![p] = r]
    BY <1>10, <2>1, <1>h, <1>g DEF Shared!NextTask, PcTypes
  <2>3. r \in RTypes
    <3>1. CASE o.task = SharedBuilds.last
      <4>1. r = [o EXCEPT !.pc = "completed", !.task = SharedBuilds.last, !.fd = 0]
        BY <2>1, <3>1
      <4>2. SharedBuilds.last \in 0 .. SharedBuilds.last
        BY <1>e
      <4> QED BY <4>1, <4>2, <1>i DEF RTypes
    <3>2. CASE o.task # SharedBuilds.last
      <4>1. r = [o EXCEPT !.pc = "open", !.task = o.task + 1, !.fd = 0]
        BY <2>1, <3>2
      <4>2. o.task + 1 \in 0 .. SharedBuilds.last
        BY <3>2, <1>i, <1>e DEF RTypes
      <4> QED BY <4>1, <4>2, <1>i DEF RTypes
    <3> QED BY <3>1, <3>2
  <2>4. /\ r.pc \in {"open", "completed"} /\ r.task \in {o.task, o.task + 1} /\ r.task - 1 <= o.task
        /\ r.task = o.task => o.task = SharedBuilds.last
        /\ r.sel = o.sel /\ o.pc # "idle"
    BY <2>1, <1>10, <1>i, <1>e DEF RTypes, Past
  <2> QED BY <2>2, <2>3, <2>4, <1>j
<1>11. CASE Shared!CheckVariants(p)
  <2>1. o.pc = "locked" /\ o.task = 0 /\ o.fd = 1
    BY <1>11, <1>h, <1>j DEF Shared!CheckVariants, Shared!At, Past
  <2>2. UNCHANGED <<portfile, dir, tree, path, flocks, bounds>>
    BY <1>11 DEF Shared!CheckVariants, Shared!work
  <2>3. CASE ~Shared!Agrees(p) /\ Shared!End(p) /\ UNCHANGED file
    <3>1. proc' = [proc EXCEPT ![p] = Shared!Idle] /\ Shared!Unlock(p)
      BY <2>3 DEF Shared!End
    <3>2. Shared!Idle.pc \notin Past
      BY <1>k DEF Past
    <3>3. \A t \in 1 .. Shared!Idle.task - 1 : t \in file[1].done
      BY <1>k
    <3> QED BY <2>2, <2>3, <3>1, <3>2, <3>3, <1>k, <1>l, <1>m, <1>c
  <2>4. CASE /\ Shared!NextTask(p)
             /\ IF proc[p].sel \subseteq Shared!File(p).vars THEN UNCHANGED file
                ELSE Shared!Write(p, [Shared!File(p) EXCEPT !.vars = @ \cup proc[p].sel])
    <3>1. PICK r \in RTypes :
                 /\ proc' = [proc EXCEPT ![p] = r] /\ r.pc \in {"open", "completed"}
                 /\ r.task \in {o.task, o.task + 1} /\ r.task - 1 <= o.task
                 /\ r.sel \in SharedBuilds.selections
      BY <2>1, <2>4, <1>10 DEF Past
    <3>2. PICK c : c = file[1]
      OBVIOUS
    <3>3. c \in Shared!Contents /\ c.version = TRUE /\ c.sum = 1
      BY <3>2, <1>b, <1>c, <1>d
    <3>4. PICK d : d = [[c EXCEPT !.vars = @ \cup o.sel] EXCEPT !.old = FALSE]
      OBVIOUS
    <3>5. file' = file \/ file' = [file EXCEPT ![1] = d]
      BY <2>1, <2>4, <3>2, <3>4, <1>h DEF Shared!Write, Shared!File
    <3>6. o.sel \in SUBSET Shared!Variants
      BY <1>i DEF RTypes
    <3>7. d \in Shared!Contents /\ d.version = TRUE /\ d.sum = 1 /\ d.done = c.done
      BY <3>3, <3>4, <3>6 DEF Shared!Contents
    <3>8. /\ file' \in [Shared!Files -> Shared!Contents] /\ file'[1].version = TRUE
          /\ file'[1].sum = 1 /\ file'[1].done = file[1].done
      BY <3>2, <3>3, <3>5, <3>7, <1>c, <1>d
    <3>9. r.pc \notin Past /\ r.pc \notin {"lock", "record", "running"}
      BY <3>1 DEF Past
    <3>10. \A t \in 1 .. r.task - 1 : t \in file'[1].done
      BY <3>1, <2>1
    <3>11. Shared!Unlock(p)
      BY <2>4 DEF Shared!NextTask
    <3>12. r \in RTypes /\ tree \subseteq tree' /\ file[1].done \subseteq file'[1].done
      BY <3>1, <2>2, <3>8
    <3>13. \A t \in file'[1].done : \E x \in tree' : x.t = t
      BY <3>8, <2>2, <1>f
    <3> USE DEF RTypes
    <3> QED BY <2>2, <3>1, <3>8, <3>9, <3>10, <3>11, <3>12, <3>13, <1>m, <1>c, SharedOthers
  <2> QED BY <1>11, <2>3, <2>4 DEF Shared!CheckVariants
<1>12. CASE Shared!Skip(p)
  <2>1. o.pc = "locked" /\ o.fd = 1 /\ o.task \in file[1].done
    BY <1>12, <1>h, <1>j DEF Shared!Skip, Shared!At, Shared!File, Past
  <2>2. UNCHANGED <<portfile, dir, tree, path, file, flocks, bounds>> /\ Shared!Unlock(p)
    BY <1>12 DEF Shared!Skip, Shared!work, Shared!NextTask
  <2>3. PICK r \in RTypes :
                 /\ proc' = [proc EXCEPT ![p] = r] /\ r.pc \in {"open", "completed"}
                 /\ r.task \in {o.task, o.task + 1} /\ r.task - 1 <= o.task
                 /\ r.sel \in SharedBuilds.selections
    BY <2>1, <1>12, <1>10 DEF Past, Shared!Skip
  <2>4. r.pc \notin Past /\ r.pc \notin {"lock", "record", "running"}
    BY <2>3 DEF Past
  <2>5. o.task \in Nat /\ r.task \in Nat
    BY <1>i, <1>e DEF RTypes
  <2>6. \A t \in 1 .. r.task - 1 : t \in file[1].done
    BY <2>1, <2>3, <2>5, <1>j
  <2> QED BY <2>2, <2>3, <2>4, <2>6, <1>l, <1>m, <1>c
<1>13. CASE Shared!Run(p)
  <2>1. /\ o.pc = "locked" /\ o.fd = 1 /\ proc' = [proc EXCEPT ![p].pc = "running"]
        /\ o.task # 0
        /\ UNCHANGED <<portfile, dir, tree, path, file, flocked, flocks, bounds>>
    BY <1>13, <1>h, <1>j DEF Shared!Run, Shared!At, Shared!GoTo, Shared!work, Shared!Targets, Past
  <2>2. PICK r : r = [o EXCEPT !.pc = "running"]
    OBVIOUS
  <2>3. proc' = [proc EXCEPT ![p] = r]
    BY <2>1, <2>2, <1>h, <1>g DEF PcTypes
  <2>4. r \in RTypes /\ r.pc = "running" /\ r.fd = 1 /\ r.task = o.task /\ flocked'[1] = p /\ r.sel = o.sel
    BY <2>1, <2>2, <1>i, <1>j DEF RTypes, Past
  <2> QED BY <2>1, <2>3, <2>4, <1>l, <1>j, <1>c
<1>14. CASE Shared!Complete(p)
  <2>1. /\ o.pc = "running" /\ proc' = [proc EXCEPT ![p].pc = "record"]
        /\ tree' = tree \cup {[t |-> o.task, pf |-> o.parsed, vars |-> o.sel]}
        /\ UNCHANGED <<portfile, dir, path, file, flocked, flocks, bounds>>
    BY <1>14, <1>h DEF Shared!Complete, Shared!At, Shared!GoTo
  <2>2. PICK r : r = [o EXCEPT !.pc = "record"]
    OBVIOUS
  <2>3. proc' = [proc EXCEPT ![p] = r]
    BY <2>1, <2>2, <1>h, <1>g DEF PcTypes
  <2>4. r \in RTypes /\ r.pc = "record" /\ r.fd = 1 /\ r.task = o.task /\ r.sel = o.sel
    BY <2>1, <2>2, <1>i, <1>j DEF RTypes, Past
  <2>5. PICK x : x = [t |-> o.task, pf |-> o.parsed, vars |-> o.sel]
    OBVIOUS
  <2>6. o.task \in Shared!Targets /\ o.parsed \in Shared!Portfiles /\ o.sel \in SharedBuilds.selections
    BY <2>1, <1>i, <1>j, <1>e DEF RTypes, Shared!Targets
  <2>7. /\ x \in [t : Shared!Targets, pf : Shared!Portfiles, vars : SharedBuilds.selections]
        /\ x.t = r.task
    BY <2>4, <2>5, <2>6
  <2>8. tree' = tree \cup {x}
    BY <2>1, <2>5
  <2>9. /\ tree \subseteq tree' /\ x \in tree'
        /\ tree' \subseteq [t : Shared!Targets, pf : Shared!Portfiles, vars : SharedBuilds.selections]
    BY <2>7, <2>8, <1>c
  <2>10. \E y \in tree' : y.t = r.task
    BY <2>7, <2>9
  <2>11. \A t \in file'[1].done : \E y \in tree' : y.t = t
    BY <2>1, <2>9, <1>f
  <2>12. flocked'[1] = p /\ file[1].done \subseteq file'[1].done /\ r.pc # "lock"
    BY <2>1, <2>4, <1>j DEF Past
  <2>13. \A t \in 1 .. r.task - 1 : t \in file'[1].done
    BY <2>1, <2>4, <1>j
  <2>14. UNCHANGED <<portfile, dir, flocks, path>> /\ file' = file /\ flocked' = flocked
         /\ bounds' = bounds
    BY <2>1
  <2>15. r.pc # "idle" /\ r.task # 0
    BY <2>1, <2>4, <1>j
  <2> USE DEF RTypes
  <2> QED BY <2>3, <2>4, <2>6, <2>9, <2>10, <2>11, <2>12, <2>13, <2>14, <2>15, <1>b, <1>c,
             SharedOthers
<1>15. CASE Shared!Fail(p)
  <2>1. /\ proc' = [proc EXCEPT ![p] = Shared!Idle] /\ Shared!Unlock(p)
        /\ UNCHANGED <<portfile, dir, tree, path, file, flocks, bounds>>
    BY <1>15 DEF Shared!Fail, Shared!End, Shared!work
  <2>2. Shared!Idle.pc \notin Past
    BY <1>k DEF Past
  <2>3. \A t \in 1 .. Shared!Idle.task - 1 : t \in file[1].done
    BY <1>k
  <2> QED BY <2>1, <2>2, <2>3, <1>k, <1>l, <1>m, <1>c
<1>16. CASE Shared!Record(p)
  <2>1. /\ o.pc = "record" /\ o.fd = 1
        /\ Shared!NextTask(p) /\ Shared!Unlock(p)
        /\ UNCHANGED <<portfile, dir, tree, path, flocks, bounds>>
    BY <1>16, <1>h, <1>j DEF Shared!Record, Shared!At, Shared!work, Shared!NextTask, Past
  <2>2. PICK r \in RTypes :
                 /\ proc' = [proc EXCEPT ![p] = r] /\ r.pc \in {"open", "completed"}
                 /\ r.task \in {o.task, o.task + 1} /\ r.task - 1 <= o.task
                 /\ r.sel \in SharedBuilds.selections
    BY <2>1, <1>10 DEF Past
  <2>3. PICK c : c = file[1]
    OBVIOUS
  <2>4. c \in Shared!Contents /\ c.version = TRUE /\ c.sum = 1
    BY <2>3, <1>b, <1>c, <1>d
  <2>5. PICK d : d = [[c EXCEPT !.done = @ \cup {o.task}] EXCEPT !.old = FALSE]
    OBVIOUS
  <2>6. file' = [file EXCEPT ![1] = d]
    BY <1>16, <2>1, <2>3, <2>5, <1>h DEF Shared!Record, Shared!Write, Shared!File
  <2>7. o.task \in Nat /\ r.task \in Nat /\ o.task \in Shared!Targets
    BY <2>1, <1>i, <1>j, <1>e DEF RTypes, Shared!Targets
  <2>8. d \in Shared!Contents /\ d.version = TRUE /\ d.sum = 1 /\ d.done = c.done \cup {o.task}
    BY <2>4, <2>5, <2>7 DEF Shared!Contents
  <2>9. /\ file' \in [Shared!Files -> Shared!Contents] /\ file'[1].version = TRUE
        /\ file'[1].sum = 1 /\ file'[1].done = file[1].done \cup {o.task}
    BY <2>3, <2>6, <2>8, <1>c, <1>d
  <2>10. r.pc \notin Past /\ r.pc \notin {"lock", "record", "running"}
    BY <2>2 DEF Past
  <2>11. \A t \in 1 .. r.task - 1 : t \in file'[1].done
    BY <2>2, <2>7, <2>9, <1>j
  <2>12. tree \subseteq tree' /\ file[1].done \subseteq file'[1].done
    BY <2>1, <2>9
  <2>13. \A t \in file'[1].done : \E x \in tree' : x.t = t
    BY <2>1, <2>9, <1>f, <1>j
  <2> USE DEF RTypes
  <2> QED BY <2>1, <2>2, <2>9, <2>10, <2>11, <2>12, <2>13, <1>m, <1>b, <1>c, SharedOthers
<1>17. CASE Shared!Finish(p) \/ Shared!Die(p)
  <2>1. /\ proc' = [proc EXCEPT ![p] = Shared!Idle] /\ Shared!Unlock(p)
        /\ UNCHANGED <<portfile, dir, tree, path, file, flocks>>
    BY <1>17 DEF Shared!Finish, Shared!Die, Shared!End, Shared!work
  <2>2. bounds' \in [starts : 0..SharedBuilds.starts, cleans : 0..0,
                     deaths : 0..SharedBuilds.deaths, files : 0..SharedBuilds.files]
    <3>1. CASE Shared!Finish(p)
      BY <3>1, <1>c DEF Shared!Finish
    <3>2. CASE Shared!Die(p)
      <4>1. bounds.deaths > 0 /\ bounds' = [bounds EXCEPT !.deaths = @ - 1]
        BY <3>2 DEF Shared!Die
      <4> QED BY <4>1, <1>c, <1>e
    <3> QED BY <3>1, <3>2, <1>17
  <2>3. Shared!Idle.pc \notin Past
    BY <1>k DEF Past
  <2>4. \A t \in 1 .. Shared!Idle.task - 1 : t \in file[1].done
    BY <1>k
  <2> QED BY <2>1, <2>2, <2>3, <2>4, <1>k, <1>l, <1>m, <1>c
<1> QED BY <1>2, <1>3, <1>4, <1>5, <1>6, <1>7, <1>8, <1>9, <1>11, <1>12, <1>13, <1>14, <1>15,
           <1>16, <1>17 DEF Shared!OpenStatefile, Shared!RunTarget

-----------------------------------------------------------------------------
(* One after another, in a directory of any age. What lies in it comes from *)
(* the Portfile whose checksum the state file has; a file without a         *)
(* checksum was last written after the Portfile, or what lies there is      *)
(* discarded before it is used. The selection is never empty, so that what  *)
(* was completed has left one in the file.                                  *)

Pcs == {"idle", "open", "look", "discard", "create", "lock", "version",
        "sum", "locked", "running", "record", "completed"}
AloneContents == [version : BOOLEAN, sum : Nat, vars : SUBSET Alone!Variants,
                  done : SUBSET Alone!Targets, old : BOOLEAN]
AloneProcs == [pc : Pcs, task : 0 .. AloneBuilds.last, parsed : Nat, sel : SUBSET Alone!Variants,
               sum : Nat, fresh : BOOLEAN, fd : {0} \cup Alone!Files]
Made == [t : Alone!Targets, pf : Nat, vars : AloneBuilds.selections]
AloneTypes ==
    /\ portfile \in Nat /\ dir \in BOOLEAN /\ flocks \in BOOLEAN
    /\ tree \subseteq Made
    /\ path \in {0} \cup Alone!Files
    /\ file \in [Alone!Files -> AloneContents]
    /\ proc \in [Builders -> AloneProcs]
    /\ bounds \in [starts : Nat, cleans : Nat, deaths : Nat, files : 0 .. AloneBuilds.files]

\* The file c says of a tree what is so.
Describes(c, made) ==
    /\ \A x \in made : x.vars = c.vars
    /\ \A x \in made : c.version => x.pf = c.sum
    /\ \A x \in made : ~c.version /\ ~c.old => x.pf = portfile
    /\ ~c.version => c.sum = 0
    /\ \A t \in c.done : \E x \in made : x.t = t
AloneTree ==
    /\ path = 0 => tree = {}
    /\ ~dir => path = 0
    /\ \A x, y \in tree : x.pf = y.pf
    /\ path # 0 => Describes(file[path], tree)

\* The file is not outdated.
Valid(c) == (c.version => c.sum = portfile) /\ (~c.version => ~c.old)

\* A process with the record r, that has looked at the file; that has a new one;
\* that has the file open.
Looked(r) ==
    /\ r.pc = "discard" => r.fresh
    /\ r.pc # "discard" => \A x \in tree : x.pf = portfile
    /\ r.pc = "create" => (path = 0 <=> r.fresh) /\ (path # 0 => Valid(file[path]))
HasNew(r) ==
    LET c == file[path] IN
    /\ tree = {} /\ c.sum = 0 /\ c.vars = {} /\ c.done = {} /\ ~c.old
    /\ c.version <=> r.pc = "sum"
HasOpen(r) ==
    /\ path # 0 /\ r.fd = path
    /\ IF r.fresh /\ r.pc \in {"lock", "version", "sum"} THEN HasNew(r)
       ELSE r.pc \notin {"version", "sum"} /\ Valid(file[path])
AloneBuilder(r) ==
    r.pc # "idle" =>
        /\ r.parsed = portfile /\ r.sel \in AloneBuilds.selections
        /\ r.pc # "open" => r.sum = portfile
        /\ r.pc \notin {"open", "look"} => Looked(r)
        /\ r.pc \in {"lock", "version", "sum"} \cup Past => HasOpen(r)
        /\ r.task # 0 => /\ path # 0 /\ Valid(file[path]) /\ file[path].vars = r.sel
                         /\ r.pc # "discard"
                         /\ r.pc \in {"create", "lock", "version", "sum"} => ~r.fresh
        /\ r.pc \in {"running", "record"} => r.task # 0
        /\ r.pc = "record" => \E x \in tree : x.t = r.task
OneBuilder ==
    \A p, q \in Builders : proc[p].pc # "idle" /\ proc[q].pc # "idle" => p = q
AloneInv ==
    /\ AloneTypes /\ AloneTree /\ OneBuilder
    /\ \A p \in Builders : AloneBuilder(proc[p])

LEMMA AloneSafe == AloneInv => Alone!NoMixing /\ Alone!DoneMeansBuilt
<1> SUFFICES ASSUME AloneInv PROVE Alone!NoMixing /\ Alone!DoneMeansBuilt
    OBVIOUS
<1>1. AloneTree
  BY DEF AloneInv
<1>2. Alone!NoMixing
  BY <1>1 DEF AloneTree, Describes, Alone!NoMixing
<1>3. Alone!DoneMeansBuilt
  <2> SUFFICES ASSUME path # 0, NEW t \in file[path].done
               PROVE  \E x \in tree : x.t = t /\ file[path].sum \in {0, x.pf}
      BY DEF Alone!DoneMeansBuilt
  <2>1. Describes(file[path], tree)
    BY <1>1 DEF AloneTree
  <2>2. PICK x \in tree : x.t = t
    BY <2>1 DEF Describes
  <2>3. file[path].sum \in {0, x.pf}
    BY <2>1 DEF Describes
  <2> QED BY <2>2, <2>3
<1> QED BY <1>2, <1>3

LEMMA AloneBounds ==
    /\ AloneBuilds.last \in Nat /\ AloneBuilds.starts \in Nat /\ AloneBuilds.deaths \in Nat
    /\ AloneBuilds.cleans \in Nat /\ AloneBuilds.edits \in Nat
    /\ AloneBuilds.files \in Nat \ {0}
    /\ {} \notin AloneBuilds.selections /\ 0 \notin Alone!Files
    /\ \A sel \in AloneBuilds.selections : sel \in SUBSET Alone!Variants
BY BuildsAssumption DEF Alone!TargetStateAssumption, Alone!Files, Alone!Variants

\* What a step of p has to show.
LEMMA AloneStep1 ==
    ASSUME AloneInv, NEW p \in Builders, NEW r \in AloneProcs,
           proc[p].pc # "idle" \/ Alone!Alone(p),
           proc' = [proc EXCEPT ![p] = r], AloneBuilder(r)', AloneTree',
           portfile' = portfile, dir' \in BOOLEAN, flocks' = flocks, tree' \subseteq Made,
           path' \in {0} \cup Alone!Files, file' \in [Alone!Files -> AloneContents],
           bounds' \in [starts : Nat, cleans : Nat, deaths : Nat, files : 0 .. AloneBuilds.files]
    PROVE  AloneInv'
<1>1. AloneTypes /\ OneBuilder
  BY DEF AloneInv
<1>2. proc \in [Builders -> AloneProcs]
  BY <1>1 DEF AloneTypes
<1>3. AloneTypes'
  BY <1>1, <1>2 DEF AloneTypes
<1>4. \A q \in Builders \ {p} : proc[q].pc = "idle"
  BY <1>1 DEF OneBuilder, Alone!Alone, Alone!At
<1>5. \A q \in Builders : proc'[q] = IF q = p THEN r ELSE proc[q]
  BY <1>2
<1>6. OneBuilder'
  BY <1>4, <1>5 DEF OneBuilder
<1>7. ASSUME NEW q \in Builders PROVE AloneBuilder(proc[q])'
  <2>1. CASE q = p
    BY <2>1, <1>5 DEF AloneBuilder, Looked, HasOpen, HasNew, Valid
  <2>2. CASE q # p
    <3>1. proc'[q].pc = "idle"
      BY <2>2, <1>4, <1>5
    <3> QED BY <3>1 DEF AloneBuilder
  <2> QED BY <2>1, <2>2
<1>8. (\A q \in Builders : AloneBuilder(proc[q]))'
  BY <1>7
<1> QED BY <1>3, <1>6, <1>8 DEF AloneInv

LEMMA AloneInit == Alone!Init => AloneInv
<1> SUFFICES ASSUME Alone!Init PROVE AloneInv
    OBVIOUS
<1>a. PICK kind \in {"none", "current", "outdated", "unversioned"}, n \in 0 .. AloneBuilds.last,
           sel \in AloneBuilds.selections :
        /\ portfile \in (IF kind = "outdated" THEN {2} ELSE {1})
        /\ dir = (kind # "none")
        /\ path = IF kind = "none" THEN 0 ELSE 1
        /\ file = [f \in Alone!Files |->
                IF f = 1 /\ kind # "none" THEN Alone!Earlier(kind, n, sel) ELSE Alone!Empty]
        /\ tree = IF kind = "none" THEN {}
                  ELSE {[t |-> t, pf |-> 1, vars |-> sel] : t \in 1..n}
  BY DEF Alone!Init
<1>b. /\ proc = [p \in Builders |-> Alone!Idle] /\ flocks \in BOOLEAN
      /\ bounds = [starts |-> AloneBuilds.starts, cleans |-> AloneBuilds.cleans,
                   deaths |-> AloneBuilds.deaths, files |-> AloneBuilds.files - 1]
  BY DEF Alone!Init
<1>c. PICK c : c = Alone!Earlier(kind, n, sel)
  OBVIOUS
<1>d. /\ c.version = (kind # "unversioned") /\ c.vars = sel /\ c.done = 1 .. n
      /\ c.old = (kind = "outdated")
      /\ c.sum = IF kind = "current" THEN portfile ELSE IF kind = "outdated" THEN 1 ELSE 0
  BY <1>c DEF Alone!Earlier, Alone!Empty
<1>e. 1 \in Alone!Files
  BY AloneBounds DEF Alone!Files
<1>f. c \in AloneContents /\ Alone!Empty \in AloneContents
  <2>1. Alone!Empty \in AloneContents
    BY DEF Alone!Empty, AloneContents
  <2>2. ASSUME NEW c1 \in AloneContents, NEW v \in BOOLEAN, NEW o \in BOOLEAN, NEW s \in Nat
        PROVE [c1 EXCEPT !.version = v, !.sum = s, !.vars = sel, !.done = 1 .. n, !.old = o]
                \in AloneContents
    <3>1. 1 .. n \in SUBSET Alone!Targets
      BY AloneBounds DEF Alone!Targets
    <3> QED BY <3>1, AloneBounds DEF AloneContents
  <2>3. (kind # "unversioned") \in BOOLEAN /\ (kind = "outdated") \in BOOLEAN
    OBVIOUS
  <2>4. (IF kind = "current" THEN portfile ELSE IF kind = "outdated" THEN 1 ELSE 0) \in Nat
    BY <1>a
  <2>5. c = [Alone!Empty EXCEPT !.version = kind # "unversioned",
                  !.sum = IF kind = "current" THEN portfile
                          ELSE IF kind = "outdated" THEN 1 ELSE 0,
                  !.vars = sel, !.done = 1..n, !.old = kind = "outdated"]
    BY <1>c, Zenon DEF Alone!Earlier
  <2> QED BY <2>1, <2>2, <2>3, <2>4, <2>5, Zenon
<1>1. AloneTypes
  <2>1. portfile \in Nat /\ dir \in BOOLEAN /\ flocks \in BOOLEAN
    BY <1>a, <1>b
  <2>2. tree \subseteq Made
    BY <1>a, AloneBounds DEF Made, Alone!Targets
  <2>3. path \in {0} \cup Alone!Files
    BY <1>a, <1>e
  <2>4. file \in [Alone!Files -> AloneContents]
    BY <1>a, <1>c, <1>f
  <2>5. proc \in [Builders -> AloneProcs]
    BY <1>b, AloneBounds DEF AloneProcs, Alone!Idle, Pcs
  <2>6. bounds \in [starts : Nat, cleans : Nat, deaths : Nat, files : 0 .. AloneBuilds.files]
    BY <1>b, AloneBounds
  <2> QED BY <2>1, <2>2, <2>3, <2>4, <2>5, <2>6 DEF AloneTypes
<1>2. AloneTree
  <2>1. CASE kind = "none"
    BY <2>1, <1>a DEF AloneTree
  <2>2. CASE kind # "none"
    <3>1. path = 1 /\ dir = TRUE /\ file[path] = c
          /\ tree = {[t |-> t, pf |-> 1, vars |-> sel] : t \in 1..n}
      BY <2>2, <1>a, <1>c, <1>e
    <3>2. \A x \in tree : x.pf = 1 /\ x.vars = sel
      BY <3>1
    <3>3. ASSUME NEW t \in 1 .. n PROVE \E x \in tree : x.t = t
      <4>1. [t |-> t, pf |-> 1, vars |-> sel] \in tree
        BY <3>1
      <4> QED BY <4>1
    <3>4. c.version => c.sum = 1
      BY <1>a, <1>d, <2>2
    <3>5. ~c.version => c.sum = 0 /\ portfile = 1
      BY <1>a, <1>d, <2>2
    <3>6. Describes(c, tree)
      BY <3>2, <3>3, <3>4, <3>5, <1>d DEF Describes
    <3> QED BY <3>1, <3>2, <3>6 DEF AloneTree
  <2> QED BY <2>1, <2>2
<1>3. OneBuilder /\ \A p \in Builders : AloneBuilder(proc[p])
  BY <1>b DEF OneBuilder, AloneBuilder, Alone!Idle
<1> QED BY <1>1, <1>2, <1>3 DEF AloneInv

\* A step that leaves the directory alone.
LEMMA AloneStep2 ==
    ASSUME AloneInv, NEW p \in Builders, NEW r \in AloneProcs,
           proc[p].pc # "idle" \/ Alone!Alone(p),
           proc' = [proc EXCEPT ![p] = r], AloneBuilder(r),
           UNCHANGED <<portfile, dir, flocks, tree, path, file>>,
           bounds' \in [starts : Nat, cleans : Nat, deaths : Nat, files : 0 .. AloneBuilds.files]
    PROVE  AloneInv'
<1>1. AloneTypes /\ AloneTree
  BY DEF AloneInv
<1>2. AloneTree'
  BY <1>1 DEF AloneTree, Describes
<1>3. AloneBuilder(r)'
  BY DEF AloneBuilder, Looked, HasOpen, HasNew, Valid
<1>4. /\ dir' \in BOOLEAN /\ tree' \subseteq Made /\ path' \in {0} \cup Alone!Files
      /\ file' \in [Alone!Files -> AloneContents] /\ flocks' = flocks /\ portfile' = portfile
  BY <1>1 DEF AloneTypes
<1> QED BY <1>2, <1>3, <1>4, AloneStep1

LEMMA AloneUser == AloneInv /\ (Alone!Edit \/ Alone!Clean) => AloneInv'
<1> SUFFICES ASSUME AloneInv, Alone!Edit \/ Alone!Clean PROVE AloneInv'
    OBVIOUS
<1>a. AloneTypes /\ AloneTree /\ OneBuilder
  BY DEF AloneInv
<1>b. \A p \in Builders : proc[p].pc = "idle"
  BY DEF Alone!Edit, Alone!Clean, Alone!Undisturbed, Alone!At
<1>c. proc' = proc /\ flocks' = flocks
  BY DEF Alone!Edit, Alone!Clean
<1>1. OneBuilder' /\ (\A p \in Builders : AloneBuilder(proc[p]))'
  BY <1>b, <1>c DEF OneBuilder, AloneBuilder
<1>2. CASE Alone!Edit
  <2>1. /\ portfile' = portfile + 1 /\ UNCHANGED <<dir, tree, path, bounds>>
        /\ file' = [f \in Alone!Files |-> [file[f] EXCEPT !.old = TRUE]]
    BY <1>2 DEF Alone!Edit, Alone!work
  <2>2. ASSUME NEW f \in Alone!Files
        PROVE  /\ file'[f] \in AloneContents /\ file'[f].old = TRUE
               /\ file'[f].version = file[f].version /\ file'[f].sum = file[f].sum
               /\ file'[f].vars = file[f].vars /\ file'[f].done = file[f].done
    <3>1. file[f] \in AloneContents /\ file'[f] = [file[f] EXCEPT !.old = TRUE]
      BY <2>1, <1>a DEF AloneTypes
    <3> QED BY <3>1 DEF AloneContents
  <2>3. AloneTypes'
    <3>1. file' \in [Alone!Files -> AloneContents]
      BY <2>1, <2>2
    <3>2. portfile' \in Nat
      BY <2>1, <1>a DEF AloneTypes
    <3> QED BY <3>1, <3>2, <2>1, <1>a, <1>c DEF AloneTypes
  <2>4. AloneTree'
    <3>1. ASSUME path # 0 PROVE Describes(file[path], tree)'
      <4>1. path \in Alone!Files /\ Describes(file[path], tree)
        BY <1>a, <3>1 DEF AloneTypes, AloneTree
      <4> QED BY <4>1, <2>1, <2>2 DEF Describes
    <3> QED BY <3>1, <2>1, <1>a DEF AloneTree
  <2> QED BY <2>3, <2>4, <1>1 DEF AloneInv
<1>3. CASE Alone!Clean
  <2>1. /\ tree' = {} /\ path' = 0 /\ dir' = FALSE /\ UNCHANGED <<portfile, file>>
        /\ bounds.cleans > 0 /\ bounds' = [bounds EXCEPT !.cleans = @ - 1]
    BY <1>3 DEF Alone!Clean, Alone!DeleteWork
  <2>2. bounds' \in [starts : Nat, cleans : Nat, deaths : Nat, files : 0 .. AloneBuilds.files]
    BY <2>1, <1>a DEF AloneTypes
  <2>3. AloneTypes' /\ AloneTree'
    BY <2>1, <2>2, <1>a, <1>c DEF AloneTypes, AloneTree
  <2> QED BY <2>3, <1>1 DEF AloneInv
<1> QED BY <1>2, <1>3

\* Up to the moment the file is open.
LEMMA AloneOpens ==
    ASSUME AloneInv, NEW p \in Builders,
           \/ Alone!Start(p) \/ Alone!Prepare(p) \/ Alone!Look(p) \/ Alone!Discard(p)
           \/ Alone!Create(p)
    PROVE  AloneInv'
<1>a. AloneTypes /\ AloneTree /\ OneBuilder
  BY DEF AloneInv
<1>b. PICK o : o = proc[p]
  OBVIOUS
<1>c. o \in AloneProcs /\ proc \in [Builders -> AloneProcs] /\ AloneBuilder(o)
  BY <1>a, <1>b DEF AloneTypes, AloneInv
<1>d. /\ portfile \in Nat /\ dir \in BOOLEAN /\ tree \subseteq Made
      /\ path \in {0} \cup Alone!Files /\ file \in [Alone!Files -> AloneContents]
      /\ bounds \in [starts : Nat, cleans : Nat, deaths : Nat, files : 0 .. AloneBuilds.files]
  BY <1>a DEF AloneTypes
<1>e. Alone!Idle \in AloneProcs /\ Alone!Idle.pc = "idle" /\ Alone!Idle.task = 0
  BY AloneBounds DEF Alone!Idle, AloneProcs, Pcs
<1>1. CASE Alone!Start(p)
  <2>1. PICK sel \in AloneBuilds.selections :
          proc' = [proc EXCEPT ![p] = [Alone!Idle EXCEPT !.pc = "open", !.parsed = portfile,
                                                         !.sel = sel]]
    BY <1>1 DEF Alone!Start
  <2>2. PICK r : r = [Alone!Idle EXCEPT !.pc = "open", !.parsed = portfile, !.sel = sel]
    OBVIOUS
  <2>3. r \in AloneProcs /\ r.pc = "open" /\ r.task = 0 /\ r.sel = sel /\ r.parsed = portfile
    BY <2>2, <1>d, <1>e, AloneBounds DEF AloneProcs, Pcs
  <2>4. bounds.starts > 0 /\ bounds' = [bounds EXCEPT !.starts = @ - 1]
    BY <1>1 DEF Alone!Start
  <2>5. bounds' \in [starts : Nat, cleans : Nat, deaths : Nat, files : 0 .. AloneBuilds.files]
    BY <2>4, <1>d
  <2>6. Alone!Alone(p) /\ UNCHANGED <<portfile, dir, tree, path, file, flocks>>
    BY <1>1 DEF Alone!Start, Alone!work
  <2>7. AloneBuilder(r)
    BY <2>3 DEF AloneBuilder, Past
  <2>8. proc' = [proc EXCEPT ![p] = r]
    BY <2>1, <2>2
  <2> QED BY <2>3, <2>5, <2>6, <2>7, <2>8, AloneStep2
<1>2. CASE Alone!Prepare(p)
  <2>1. /\ o.pc = "open" /\ proc' = [proc EXCEPT ![p].pc = "look", ![p].sum = portfile]
        /\ dir' = TRUE /\ UNCHANGED <<portfile, tree, path, file, flocks, bounds>>
    BY <1>2, <1>b DEF Alone!Prepare, Alone!At
  <2>2. PICK r : r = [o EXCEPT !.pc = "look", !.sum = portfile]
    OBVIOUS
  <2>3. proc' = [proc EXCEPT ![p] = r]
    BY <2>1, <2>2, <1>b, <1>c DEF AloneProcs
  <2>4. /\ r \in AloneProcs /\ r.pc = "look" /\ r.task = o.task /\ r.sel = o.sel
        /\ r.parsed = o.parsed /\ r.sum = portfile
    BY <2>2, <1>c, <1>d DEF AloneProcs, Pcs
  <2>5. AloneBuilder(r)'
    BY <2>1, <2>4, <1>c DEF AloneBuilder, Past, Valid
  <2>6. AloneTree'
    BY <2>1, <1>a DEF AloneTree, Describes
  <2>7. /\ dir' \in BOOLEAN /\ tree' \subseteq Made /\ path' \in {0} \cup Alone!Files
        /\ file' \in [Alone!Files -> AloneContents]
        /\ bounds' \in [starts : Nat, cleans : Nat, deaths : Nat, files : 0 .. AloneBuilds.files]
    BY <2>1, <1>d
  <2> QED BY <2>1, <2>3, <2>4, <2>5, <2>6, <2>7, <1>b, AloneStep1
<1>3. CASE Alone!Look(p)
  <2>1. o.pc = "look"
    BY <1>3, <1>b DEF Alone!Look, Alone!At
  <2>2. PICK stale \in BOOLEAN :
            /\ stale = (path # 0 /\ Alone!Outdated(file[path], proc[p].sum))
            /\ proc' = [proc EXCEPT ![p].pc = IF stale THEN "discard" ELSE "create",
                                    ![p].fresh = stale \/ path = 0]
    BY <1>3 DEF Alone!Look
  <2>3. UNCHANGED <<portfile, dir, tree, path, file, flocks, bounds>>
    BY <1>3 DEF Alone!Look, Alone!work
  <2>4. PICK fresh \in BOOLEAN : fresh = (stale \/ path = 0)
    OBVIOUS
  <2>5. PICK r : r = [o EXCEPT !.pc = IF stale THEN "discard" ELSE "create", !.fresh = fresh]
    OBVIOUS
  <2>6. proc' = [proc EXCEPT ![p] = r]
    BY <2>2, <2>4, <2>5, <1>b, <1>c DEF AloneProcs
  <2>7. /\ r \in AloneProcs /\ r.task = o.task /\ r.sel = o.sel /\ r.parsed = o.parsed
        /\ r.sum = o.sum /\ r.pc = (IF stale THEN "discard" ELSE "create") /\ r.fresh = fresh
    <3>1. CASE stale
      <4>1. r = [o EXCEPT !.pc = "discard", !.fresh = fresh]
        BY <3>1, <2>5
      <4> QED BY <4>1, <3>1, <1>c, <2>4 DEF AloneProcs, Pcs
    <3>2. CASE ~stale
      <4>1. r = [o EXCEPT !.pc = "create", !.fresh = fresh]
        BY <3>2, <2>5
      <4> QED BY <4>1, <3>2, <1>c, <2>4 DEF AloneProcs, Pcs
    <3> QED BY <3>1, <3>2
  <2>8. /\ o.parsed = portfile /\ o.sel \in AloneBuilds.selections /\ o.sum = portfile
        /\ o.task # 0 => path # 0 /\ Valid(file[path]) /\ file[path].vars = o.sel
    BY <2>1, <1>c DEF AloneBuilder
  <2>9. CASE stale
    <3>1. o.task = 0
      BY <2>2, <2>8, <2>9, <1>b DEF Alone!Outdated, Valid
    <3>2. r.pc = "discard" /\ r.fresh /\ r.task = 0 /\ r.parsed = portfile /\ r.sum = portfile
          /\ r.sel \in AloneBuilds.selections
      BY <2>4, <2>7, <2>8, <2>9, <3>1
    <3>3. AloneBuilder(r)
      BY <3>2 DEF AloneBuilder, Looked, Past
    <3> QED BY <2>1, <2>3, <2>6, <2>7, <3>3, <1>b, <1>d, AloneStep2
  <2>10. CASE ~stale
    <3>1. /\ r.pc = "create" /\ (path = 0 <=> r.fresh) /\ r.parsed = portfile /\ r.sum = portfile
          /\ r.sel \in AloneBuilds.selections /\ r.task = o.task /\ r.sel = o.sel
      BY <2>4, <2>7, <2>8, <2>10
    <3>2. path # 0 => Valid(file[path])
      BY <2>2, <2>8, <2>10, <1>b DEF Alone!Outdated, Valid
    <3>3. \A x \in tree : x.pf = portfile
      BY <3>2, <1>a DEF AloneTree, Describes, Valid
    <3>4. AloneBuilder(r)
      BY <3>1, <3>2, <3>3, <2>8 DEF AloneBuilder, Looked, Past
    <3> QED BY <2>1, <2>3, <2>6, <2>7, <3>4, <1>b, <1>d, AloneStep2
  <2> QED BY <2>9, <2>10
<1>4. CASE Alone!Discard(p)
  <2>1. /\ o.pc = "discard" /\ proc' = [proc EXCEPT ![p].pc = "create"]
        /\ tree' = {} /\ path' = 0 /\ dir' = TRUE /\ UNCHANGED <<portfile, file, flocks, bounds>>
    BY <1>4, <1>b DEF Alone!Discard, Alone!At, Alone!GoTo, Alone!DeleteWork
  <2>2. PICK r : r = [o EXCEPT !.pc = "create"]
    OBVIOUS
  <2>3. proc' = [proc EXCEPT ![p] = r]
    BY <2>1, <2>2, <1>b, <1>c DEF AloneProcs
  <2>4. /\ r \in AloneProcs /\ r.pc = "create" /\ r.task = o.task /\ r.sel = o.sel
        /\ r.parsed = o.parsed /\ r.sum = o.sum /\ r.fresh = o.fresh
    BY <2>2, <1>c DEF AloneProcs, Pcs
  <2>5. /\ o.parsed = portfile /\ o.sel \in AloneBuilds.selections /\ o.sum = portfile
        /\ o.task = 0 /\ o.fresh
    BY <2>1, <1>c DEF AloneBuilder, Looked
  <2>6. AloneBuilder(r)'
    BY <2>1, <2>4, <2>5 DEF AloneBuilder, Looked, Past
  <2>7. AloneTree'
    BY <2>1 DEF AloneTree
  <2>8. /\ dir' \in BOOLEAN /\ tree' \subseteq Made /\ path' \in {0} \cup Alone!Files
        /\ file' \in [Alone!Files -> AloneContents]
        /\ bounds' \in [starts : Nat, cleans : Nat, deaths : Nat, files : 0 .. AloneBuilds.files]
    BY <2>1, <1>d
  <2> QED BY <2>1, <2>3, <2>4, <2>6, <2>7, <2>8, <1>b, AloneStep1
<1>5. CASE Alone!Create(p)
  <2>1. o.pc = "create" /\ UNCHANGED <<portfile, dir, tree, flocks>>
    BY <1>5, <1>b DEF Alone!Create, Alone!At
  <2>2. /\ o.parsed = portfile /\ o.sel \in AloneBuilds.selections /\ o.sum = portfile
        /\ \A x \in tree : x.pf = portfile
        /\ path = 0 <=> o.fresh
        /\ path # 0 => Valid(file[path])
        /\ o.task # 0 => path # 0 /\ Valid(file[path]) /\ file[path].vars = o.sel
    BY <2>1, <1>c DEF AloneBuilder, Looked
  <2>3. CASE /\ path # 0 /\ proc' = [proc EXCEPT ![p].pc = "lock", ![p].fd = path]
             /\ UNCHANGED <<path, file, bounds>>
    <3>1. PICK r : r = [o EXCEPT !.pc = "lock", !.fd = path]
      OBVIOUS
    <3>2. proc' = [proc EXCEPT ![p] = r]
      BY <2>3, <3>1, <1>b, <1>c DEF AloneProcs
    <3>3. /\ r \in AloneProcs /\ r.pc = "lock" /\ r.task = o.task /\ r.sel = o.sel
          /\ r.parsed = o.parsed /\ r.sum = o.sum /\ r.fresh = o.fresh /\ r.fd = path
      BY <3>1, <1>c, <1>d DEF AloneProcs, Pcs
    <3>4. AloneBuilder(r)
      BY <2>2, <2>3, <3>3 DEF AloneBuilder, Looked, HasOpen, Past
    <3> QED BY <2>1, <2>3, <3>2, <3>3, <3>4, <1>b, <1>d, AloneStep2
  <2>4. CASE /\ path = 0 /\ dir /\ bounds.files > 0
             /\ path' = AloneBuilds.files + 1 - bounds.files
             /\ file' = [file EXCEPT ![path'] = Alone!Empty]
             /\ bounds' = [bounds EXCEPT !.files = @ - 1]
             /\ proc' = [proc EXCEPT ![p].pc = "lock", ![p].fd = path']
    <3>1. PICK r : r = [o EXCEPT !.pc = "lock", !.fd = path']
      OBVIOUS
    <3>2. proc' = [proc EXCEPT ![p] = r]
      BY <2>4, <3>1, <1>b, <1>c DEF AloneProcs
    <3>3. bounds.files \in 1 .. AloneBuilds.files
      BY <2>4, <1>d, AloneBounds
    <3>4. path' \in Alone!Files /\ path' # 0
      BY <2>4, <3>3, AloneBounds DEF Alone!Files
    <3>5. /\ r \in AloneProcs /\ r.pc = "lock" /\ r.task = o.task /\ r.sel = o.sel
          /\ r.parsed = o.parsed /\ r.sum = o.sum /\ r.fresh = o.fresh /\ r.fd = path'
      BY <3>1, <3>4, <1>c DEF AloneProcs, Pcs
    <3>6. Alone!Empty \in AloneContents /\ file'[path'] = Alone!Empty
      BY <2>4, <3>4, <1>d DEF Alone!Empty, AloneContents
    <3>7. tree' = {} /\ o.task = 0
      BY <2>1, <2>2, <2>4, <1>a DEF AloneTree
    <3>8. /\ Alone!Empty.version = FALSE /\ Alone!Empty.sum = 0 /\ Alone!Empty.vars = {}
          /\ Alone!Empty.done = {} /\ Alone!Empty.old = FALSE
      BY DEF Alone!Empty
    <3>9. HasNew(r)'
      BY <3>5, <3>6, <3>7, <3>8 DEF HasNew
    <3>10. AloneBuilder(r)'
      BY <2>1, <2>2, <2>4, <3>4, <3>5, <3>7, <3>9 DEF AloneBuilder, Looked, HasOpen, Past
    <3>11. AloneTree'
      BY <2>1, <2>4, <3>4, <3>6, <3>7, <3>8 DEF AloneTree, Describes
    <3>12. /\ dir' \in BOOLEAN /\ tree' \subseteq Made /\ path' \in {0} \cup Alone!Files
           /\ file' \in [Alone!Files -> AloneContents]
           /\ bounds' \in [starts : Nat, cleans : Nat, deaths : Nat, files : 0 .. AloneBuilds.files]
      BY <2>1, <2>4, <3>3, <3>4, <3>6, <1>d, AloneBounds
    <3> QED BY <2>1, <3>2, <3>5, <3>10, <3>11, <3>12, <1>b, AloneStep1
  <2>5. CASE ~dir /\ Alone!End(p) /\ UNCHANGED <<path, file, bounds>>
    <3>1. proc' = [proc EXCEPT ![p] = Alone!Idle]
      BY <2>5 DEF Alone!End
    <3>2. AloneBuilder(Alone!Idle)
      BY <1>e DEF AloneBuilder
    <3> QED BY <2>1, <2>5, <3>1, <3>2, <1>b, <1>d, <1>e, AloneStep2
  <2> QED BY <1>5, <2>3, <2>4, <2>5 DEF Alone!Create
<1> QED BY <1>1, <1>2, <1>3, <1>4, <1>5

\* From the lock to the end.
LEMMA AloneRuns ==
    ASSUME AloneInv, NEW p \in Builders,
           \/ Alone!Lock(p) \/ Alone!WriteVersion(p) \/ Alone!WriteSum(p)
           \/ Alone!RunTarget(p) \/ Alone!Die(p)
    PROVE  AloneInv'
<1>a. AloneTypes /\ AloneTree /\ OneBuilder
  BY DEF AloneInv
<1>b. PICK o : o = proc[p]
  OBVIOUS
<1>c. o \in AloneProcs /\ proc \in [Builders -> AloneProcs] /\ AloneBuilder(o)
  BY <1>a, <1>b DEF AloneTypes, AloneInv
<1>d. /\ portfile \in Nat /\ dir \in BOOLEAN /\ tree \subseteq Made
      /\ path \in {0} \cup Alone!Files /\ file \in [Alone!Files -> AloneContents]
      /\ bounds \in [starts : Nat, cleans : Nat, deaths : Nat, files : 0 .. AloneBuilds.files]
      /\ flocks \in BOOLEAN
  BY <1>a DEF AloneTypes
<1>e. Alone!Idle \in AloneProcs /\ Alone!Idle.pc = "idle" /\ AloneBuilder(Alone!Idle)
  BY AloneBounds DEF Alone!Idle, AloneProcs, Pcs, AloneBuilder
<1>f. o.pc # "idle"
  BY <1>b DEF Alone!Lock, Alone!WriteVersion, Alone!WriteSum, Alone!RunTarget, Alone!CheckVariants,
       Alone!Skip, Alone!Run, Alone!Complete, Alone!Fail, Alone!Record, Alone!Finish, Alone!Die,
       Alone!At
<1>g. /\ o.parsed = portfile /\ o.sel \in AloneBuilds.selections
      /\ o.pc # "open" => o.sum = portfile
      /\ o.task # 0 => /\ path # 0 /\ Valid(file[path]) /\ file[path].vars = o.sel
                       /\ o.pc # "discard"
                       /\ o.pc \in {"create", "lock", "version", "sum"} => ~o.fresh
  BY <1>c, <1>f DEF AloneBuilder
\* What the process has open, and its contents.
<1>h. ASSUME o.pc \in {"lock", "version", "sum"} \cup Past
      PROVE  /\ path # 0 /\ path \in Alone!Files /\ o.fd = path /\ HasOpen(o) /\ o.sum = portfile
             /\ \A x \in tree : x.pf = portfile
             /\ file[path] \in AloneContents /\ Describes(file[path], tree)
             /\ o.pc \in {"running", "record"} => o.task # 0
             /\ o.pc = "record" => \E x \in tree : x.t = o.task
  <2>1. HasOpen(o) /\ Looked(o)
    BY <1>c, <1>f, <1>h DEF AloneBuilder, Past
  <2>2. path # 0 /\ o.fd = path
    BY <2>1 DEF HasOpen
  <2>3. path \in Alone!Files /\ file[path] \in AloneContents
    BY <2>2, <1>d
  <2>4. Describes(file[path], tree)
    BY <2>2, <1>a DEF AloneTree
  <2> QED BY <2>1, <2>2, <2>3, <2>4, <1>h, <1>c, <1>f DEF Looked, AloneBuilder, Past
\* A step that writes d into the file and leaves the rest of the directory.
<1>i. ASSUME NEW r \in AloneProcs, NEW d \in AloneContents, path \in Alone!Files, path # 0,
             file' = [file EXCEPT ![path] = d], proc' = [proc EXCEPT ![p] = r],
             UNCHANGED <<portfile, dir, tree, path, flocks, bounds>>,
             Describes(d, tree), AloneBuilder(r)'
      PROVE  AloneInv'
  <2>1. file'[path] = d /\ file' \in [Alone!Files -> AloneContents]
    BY <1>i, <1>d
  <2>2. AloneTree'
    BY <2>1, <1>i, <1>a DEF AloneTree, Describes
  <2> QED BY <2>1, <2>2, <1>i, <1>b, <1>d, <1>f, AloneStep1
\* The next target.
<1>j. ASSUME Alone!NextTask(p), o.pc \in Past
      PROVE  \E r \in AloneProcs :
                /\ proc' = [proc EXCEPT ![p] = r] /\ r.pc \in {"open", "completed"}
                /\ r.sel = o.sel /\ r.parsed = portfile /\ r.sum = portfile
  <2>1. PICK r : r = [o EXCEPT !.pc = IF o.task = AloneBuilds.last THEN "completed" ELSE "open",
                               !.task = IF o.task = AloneBuilds.last THEN AloneBuilds.last
                                        ELSE o.task + 1,
                               !.fd = 0]
    OBVIOUS
  <2>2. proc' = [proc EXCEPT ![p] = r]
    BY <1>j, <2>1, <1>b, <1>c DEF Alone!NextTask, AloneProcs
  <2>3. /\ r \in AloneProcs /\ r.pc \in {"open", "completed"} /\ r.sel = o.sel
        /\ r.parsed = portfile /\ r.sum = o.sum
    <3>1. CASE o.task = AloneBuilds.last
      <4>1. r = [o EXCEPT !.pc = "completed", !.task = AloneBuilds.last, !.fd = 0]
        BY <2>1, <3>1
      <4>2. AloneBuilds.last \in 0 .. AloneBuilds.last
        BY AloneBounds
      <4> QED BY <4>1, <4>2, <1>c, <1>g DEF AloneProcs, Pcs
    <3>2. CASE o.task # AloneBuilds.last
      <4>1. r = [o EXCEPT !.pc = "open", !.task = o.task + 1, !.fd = 0]
        BY <2>1, <3>2
      <4>2. o.task + 1 \in 0 .. AloneBuilds.last
        BY <3>2, <1>c, AloneBounds DEF AloneProcs
      <4> QED BY <4>1, <4>2, <1>c, <1>g DEF AloneProcs, Pcs
    <3> QED BY <3>1, <3>2
  <2> QED BY <2>2, <2>3, <1>j, <1>h
\* Then it has a file that is valid and has its selection.
<1>k. ASSUME NEW r, r.pc \in {"open", "completed"}, r.sel = o.sel, r.parsed = portfile,
             r.sum = portfile, \A x \in tree : x.pf = portfile, path # 0, Valid(file[path]),
             file[path].vars = o.sel
      PROVE  AloneBuilder(r)
  BY <1>k, <1>g DEF AloneBuilder, Looked, Past
<1>l. ASSUME Alone!End(p), UNCHANGED <<portfile, dir, flocks, tree, path, file>>,
             bounds' \in [starts : Nat, cleans : Nat, deaths : Nat, files : 0 .. AloneBuilds.files]
      PROVE  AloneInv'
  BY <1>l, <1>b, <1>e, <1>f, AloneStep2 DEF Alone!End
<1>1. CASE Alone!Lock(p)
  <2>1. o.pc = "lock" /\ UNCHANGED <<portfile, dir, tree, path, file, flocks, bounds>>
    BY <1>1, <1>b DEF Alone!Lock, Alone!At, Alone!work
  <2>2. PICK to \in {"version", "locked"} : /\ proc' = [proc EXCEPT ![p].pc = to]
                                            /\ to = "version" => o.fresh
                                            /\ o.fresh /\ to = "locked" => ~flocks
    BY <1>1, <1>b DEF Alone!Lock, Alone!GoTo
  <2>3. PICK r : r = [o EXCEPT !.pc = to]
    OBVIOUS
  <2>4. proc' = [proc EXCEPT ![p] = r]
    BY <2>2, <2>3, <1>b, <1>c DEF AloneProcs
  <2>5. /\ r \in AloneProcs /\ r.pc = to /\ r.task = o.task /\ r.sel = o.sel
        /\ r.parsed = o.parsed /\ r.sum = o.sum /\ r.fresh = o.fresh /\ r.fd = o.fd
    BY <2>2, <2>3, <1>c DEF AloneProcs, Pcs
  <2>6. HasOpen(r)
    BY <2>1, <2>2, <2>5, <1>h DEF HasOpen, HasNew, Valid
  <2>7. AloneBuilder(r)
    BY <2>1, <2>2, <2>5, <2>6, <1>g, <1>h DEF AloneBuilder, Looked, Past
  <2> QED BY <2>1, <2>4, <2>5, <2>7, <1>b, <1>d, AloneStep2
<1>2. CASE Alone!WriteVersion(p)
  <2>1. o.pc = "version" /\ UNCHANGED <<portfile, dir, tree, path, flocks, bounds>>
        /\ proc' = [proc EXCEPT ![p].pc = "sum"]
    BY <1>2, <1>b DEF Alone!WriteVersion, Alone!At, Alone!GoTo, Alone!work
  <2>2. PICK r : r = [o EXCEPT !.pc = "sum"]
    OBVIOUS
  <2>3. proc' = [proc EXCEPT ![p] = r]
    BY <2>1, <2>2, <1>b, <1>c DEF AloneProcs
  <2>4. /\ r \in AloneProcs /\ r.pc = "sum" /\ r.task = o.task /\ r.sel = o.sel
        /\ r.parsed = o.parsed /\ r.sum = o.sum /\ r.fresh = o.fresh /\ r.fd = o.fd
    BY <2>2, <1>c DEF AloneProcs, Pcs
  <2>5. o.fresh /\ HasNew(o) /\ o.task = 0
    BY <2>1, <1>h, <1>g DEF HasOpen
  <2>6. PICK c : c = file[path]
    OBVIOUS
  <2>7. c \in AloneContents /\ ~c.version /\ c.sum = 0 /\ c.vars = {} /\ c.done = {} /\ tree = {}
    BY <2>1, <2>5, <2>6, <1>h DEF HasNew
  <2>8. PICK d : d = [[c EXCEPT !.version = TRUE] EXCEPT !.old = FALSE]
    OBVIOUS
  <2>9. file' = [file EXCEPT ![path] = d]
    BY <1>2, <2>1, <2>6, <2>7, <2>8, <1>b, <1>h DEF Alone!WriteVersion, Alone!Write, Alone!File
  <2>10. d \in AloneContents /\ d.version = TRUE /\ d.sum = 0 /\ d.vars = {} /\ d.done = {}
         /\ d.old = FALSE
    BY <2>7, <2>8 DEF AloneContents
  <2>11. file'[path'] = d
    BY <2>1, <2>9, <1>d, <1>h
  <2>12. HasNew(r)'
    BY <2>1, <2>4, <2>7, <2>10, <2>11 DEF HasNew
  <2>13. AloneBuilder(r)'
    BY <2>1, <2>4, <2>5, <2>7, <2>12, <1>g, <1>h DEF AloneBuilder, Looked, HasOpen, Past
  <2>14. Describes(d, tree)
    BY <2>7, <2>10 DEF Describes
  <2> QED BY <2>1, <2>3, <2>4, <2>9, <2>10, <2>13, <2>14, <1>h, <1>i
<1>3. CASE Alone!WriteSum(p)
  <2>1. o.pc = "sum" /\ UNCHANGED <<portfile, dir, tree, path, flocks, bounds>>
        /\ proc' = [proc EXCEPT ![p].pc = "locked"]
    BY <1>3, <1>b DEF Alone!WriteSum, Alone!At, Alone!GoTo, Alone!work
  <2>2. PICK r : r = [o EXCEPT !.pc = "locked"]
    OBVIOUS
  <2>3. proc' = [proc EXCEPT ![p] = r]
    BY <2>1, <2>2, <1>b, <1>c DEF AloneProcs
  <2>4. /\ r \in AloneProcs /\ r.pc = "locked" /\ r.task = o.task /\ r.sel = o.sel
        /\ r.parsed = o.parsed /\ r.sum = o.sum /\ r.fresh = o.fresh /\ r.fd = o.fd
    BY <2>2, <1>c DEF AloneProcs, Pcs
  <2>5. o.fresh /\ HasNew(o) /\ o.task = 0
    BY <2>1, <1>h, <1>g DEF HasOpen
  <2>6. PICK c : c = file[path]
    OBVIOUS
  <2>7. c \in AloneContents /\ c.version /\ c.sum = 0 /\ c.vars = {} /\ c.done = {} /\ tree = {}
        /\ ~c.old
    BY <2>1, <2>5, <2>6, <1>h DEF HasNew
  <2>8. PICK d : d = [[c EXCEPT !.sum = portfile] EXCEPT !.old = FALSE]
    OBVIOUS
  <2>9. file' = [file EXCEPT ![path] = d] \/ (file' = file /\ portfile = 0)
    BY <1>3, <2>1, <2>6, <2>7, <2>8, <1>b, <1>h DEF Alone!WriteSum, Alone!Write, Alone!File
  <2>10. d \in AloneContents /\ d.version /\ d.sum = portfile /\ d.vars = {} /\ d.done = {}
    BY <2>7, <2>8, <1>d DEF AloneContents
  <2>11. Describes(d, tree)
    BY <2>7, <2>10 DEF Describes
  <2>12. CASE file' = [file EXCEPT ![path] = d]
    <3>1. file'[path'] = d
      BY <2>1, <2>12, <1>d, <1>h
    <3>2. AloneBuilder(r)'
      BY <2>1, <2>4, <2>5, <2>7, <2>10, <3>1, <1>g, <1>h
      DEF AloneBuilder, Looked, HasOpen, Valid, Past
    <3> QED BY <2>1, <2>3, <2>4, <2>10, <2>11, <2>12, <3>2, <1>h, <1>i
  <2>13. CASE file' = file /\ portfile = 0
    <3>1. AloneBuilder(r)
      BY <2>1, <2>4, <2>5, <2>6, <2>7, <2>13, <1>g, <1>h
      DEF AloneBuilder, Looked, HasOpen, Valid, Past
    <3> QED BY <2>1, <2>3, <2>4, <2>13, <3>1, <1>b, <1>d, <1>f, AloneStep2
  <2> QED BY <2>9, <2>12, <2>13
<1>4. CASE Alone!CheckVariants(p)
  <2>1. o.pc = "locked" /\ o.task = 0 /\ UNCHANGED <<portfile, dir, tree, path, flocks, bounds>>
    BY <1>4, <1>b DEF Alone!CheckVariants, Alone!At, Alone!work
  <2>2. CASE ~Alone!Agrees(p) /\ Alone!End(p) /\ UNCHANGED file
    BY <2>1, <2>2, <1>d, <1>l
  <2>3. CASE /\ Alone!Agrees(p) /\ Alone!NextTask(p)
             /\ IF proc[p].sel \subseteq Alone!File(p).vars THEN UNCHANGED file
                ELSE Alone!Write(p, [Alone!File(p) EXCEPT !.vars = @ \cup proc[p].sel])
    <3>1. PICK r \in AloneProcs :
                /\ proc' = [proc EXCEPT ![p] = r] /\ r.pc \in {"open", "completed"}
                /\ r.sel = o.sel /\ r.parsed = portfile /\ r.sum = portfile
      BY <2>1, <2>3, <1>j DEF Past
    <3>2. PICK c : c = file[path]
      OBVIOUS
    <3>3. /\ c \in AloneContents /\ Valid(c) /\ Describes(c, tree)
          /\ \A x \in tree : x.pf = portfile
      BY <2>1, <3>2, <1>h DEF HasOpen, Past
    <3>4. (c.vars = {} /\ c.done = {}) \/ c.vars = o.sel
      BY <2>1, <2>3, <3>2, <1>b, <1>h DEF Alone!Agrees, Alone!File, Past
    <3>5. o.sel \in SUBSET Alone!Variants /\ o.sel # {}
      BY <1>g, AloneBounds
    <3>6. \A x \in tree : x.vars # {}
      BY <1>d, AloneBounds DEF Made
    <3>7. CASE c.vars = o.sel
      <4>1. file' = file
        BY <2>1, <2>3, <3>2, <3>7, <1>b, <1>h DEF Alone!File, Past
      <4>2. AloneBuilder(r)
        BY <2>1, <3>1, <3>2, <3>3, <3>7, <1>h, <1>k DEF Past
      <4> QED BY <2>1, <3>1, <4>1, <4>2, <1>b, <1>d, <1>f, AloneStep2
    <3>8. CASE c.vars = {} /\ c.done = {} /\ c.vars # o.sel
      <4>1. tree = {}
        BY <3>3, <3>6, <3>8 DEF Describes
      <4>2. PICK d : d = [[c EXCEPT !.vars = @ \cup o.sel] EXCEPT !.old = FALSE]
        OBVIOUS
      <4>3. file' = [file EXCEPT ![path] = d]
        BY <2>1, <2>3, <3>2, <3>5, <3>8, <4>2, <1>b, <1>h DEF Alone!File, Alone!Write, Past
      <4>4. /\ d \in AloneContents /\ d.vars = o.sel /\ d.done = {} /\ d.sum = c.sum
            /\ d.version = c.version /\ d.old = FALSE
        BY <3>3, <3>5, <3>8, <4>2 DEF AloneContents
      <4>5. Describes(d, tree)
        BY <3>3, <4>1, <4>4 DEF Describes
      <4>6. file'[path'] = d
        BY <2>1, <4>3, <1>d, <1>h DEF Past
      <4>7. AloneBuilder(r)'
        BY <2>1, <3>1, <3>3, <4>1, <4>4, <4>6, <1>g, <1>h
        DEF AloneBuilder, Looked, Valid, Past
      <4> QED BY <2>1, <3>1, <4>3, <4>4, <4>5, <4>7, <1>h, <1>i DEF Past
    <3> QED BY <3>4, <3>7, <3>8
  <2> QED BY <1>4, <2>2, <2>3 DEF Alone!CheckVariants
<1>5. CASE Alone!Skip(p)
  <2>1. /\ o.pc = "locked" /\ o.task \in file[path].done
        /\ Alone!NextTask(p) /\ UNCHANGED <<portfile, dir, tree, path, file, flocks, bounds>>
    BY <1>5, <1>b, <1>h DEF Alone!Skip, Alone!At, Alone!File, Alone!work, Past
  <2>2. PICK r \in AloneProcs :
                /\ proc' = [proc EXCEPT ![p] = r] /\ r.pc \in {"open", "completed"}
                /\ r.sel = o.sel /\ r.parsed = portfile /\ r.sum = portfile
    BY <2>1, <1>j DEF Past
  <2>3. file[path].done \subseteq Alone!Targets
    BY <2>1, <1>h DEF AloneContents, Past
  <2>4. o.task # 0
    BY <2>1, <2>3, AloneBounds DEF Alone!Targets
  <2>5. AloneBuilder(r)
    BY <2>1, <2>2, <2>4, <1>g, <1>h, <1>k DEF Past
  <2> QED BY <2>1, <2>2, <2>5, <1>b, <1>d, <1>f, AloneStep2
<1>6. CASE Alone!Run(p)
  <2>1. /\ o.pc = "locked" /\ o.task # 0 /\ proc' = [proc EXCEPT ![p].pc = "running"]
        /\ UNCHANGED <<portfile, dir, tree, path, file, flocks, bounds>>
    BY <1>6, <1>b, AloneBounds DEF Alone!Run, Alone!At, Alone!GoTo, Alone!work, Alone!Targets
  <2>2. PICK r : r = [o EXCEPT !.pc = "running"]
    OBVIOUS
  <2>3. proc' = [proc EXCEPT ![p] = r]
    BY <2>1, <2>2, <1>b, <1>c DEF AloneProcs
  <2>4. /\ r \in AloneProcs /\ r.pc = "running" /\ r.task = o.task /\ r.sel = o.sel
        /\ r.parsed = o.parsed /\ r.sum = o.sum /\ r.fd = o.fd
    BY <2>2, <1>c DEF AloneProcs, Pcs
  <2>5. AloneBuilder(r)
    BY <2>1, <2>4, <1>g, <1>h DEF AloneBuilder, Looked, HasOpen, Past
  <2> QED BY <2>1, <2>3, <2>4, <2>5, <1>b, <1>d, <1>f, AloneStep2
<1>7. CASE Alone!Complete(p)
  <2>1. /\ o.pc = "running" /\ proc' = [proc EXCEPT ![p].pc = "record"]
        /\ tree' = tree \cup {[t |-> o.task, pf |-> o.parsed, vars |-> o.sel]}
        /\ UNCHANGED <<portfile, dir, path, file, flocks, bounds>>
    BY <1>7, <1>b DEF Alone!Complete, Alone!At, Alone!GoTo
  <2>2. PICK r : r = [o EXCEPT !.pc = "record"]
    OBVIOUS
  <2>3. proc' = [proc EXCEPT ![p] = r]
    BY <2>1, <2>2, <1>b, <1>c DEF AloneProcs
  <2>4. /\ r \in AloneProcs /\ r.pc = "record" /\ r.task = o.task /\ r.sel = o.sel
        /\ r.parsed = o.parsed /\ r.sum = o.sum /\ r.fd = o.fd
    BY <2>2, <1>c DEF AloneProcs, Pcs
  <2>5. PICK x : x = [t |-> o.task, pf |-> o.parsed, vars |-> o.sel]
    OBVIOUS
  <2>6. o.task \in Alone!Targets /\ o.task # 0
    BY <2>1, <1>c, <1>h, AloneBounds DEF AloneProcs, Alone!Targets, Past
  <2>7. x \in Made /\ x.t = o.task /\ x.pf = portfile /\ x.vars = o.sel
    BY <2>5, <2>6, <1>d, <1>g DEF Made
  <2>8. tree' = tree \cup {x}
    BY <2>1, <2>5
  <2>9. \A y \in tree' : y.pf = portfile
    BY <2>1, <2>7, <2>8, <1>h DEF Past
  <2>10. path # 0 /\ Valid(file[path]) /\ file[path].vars = o.sel /\ Describes(file[path], tree)
    BY <2>1, <2>6, <1>g, <1>h DEF Past
  <2>11. Describes(file[path], tree)'
    BY <2>1, <2>7, <2>8, <2>10 DEF Describes, Valid
  <2>12. AloneTree'
    BY <2>1, <2>9, <2>10, <2>11, <1>a DEF AloneTree
  <2>13. AloneBuilder(r)'
    BY <2>1, <2>4, <2>6, <2>7, <2>8, <2>9, <2>10, <1>g, <1>h
    DEF AloneBuilder, Looked, HasOpen, Valid, Past
  <2>14. tree' \subseteq Made
    BY <2>7, <2>8, <1>d
  <2> QED BY <2>1, <2>3, <2>4, <2>12, <2>13, <2>14, <1>b, <1>d, <1>f, AloneStep1
<1>8. CASE Alone!Fail(p)
  BY <1>8, <1>d, <1>l DEF Alone!Fail, Alone!work
<1>9. CASE Alone!Record(p)
  <2>1. /\ o.pc = "record" /\ Alone!NextTask(p) /\ UNCHANGED <<portfile, dir, tree, path, flocks, bounds>>
    BY <1>9, <1>b DEF Alone!Record, Alone!At, Alone!work
  <2>2. PICK r \in AloneProcs :
                /\ proc' = [proc EXCEPT ![p] = r] /\ r.pc \in {"open", "completed"}
                /\ r.sel = o.sel /\ r.parsed = portfile /\ r.sum = portfile
    BY <2>1, <1>j DEF Past
  <2>3. PICK c : c = file[path]
    OBVIOUS
  <2>4. /\ c \in AloneContents /\ Valid(c) /\ Describes(c, tree) /\ c.vars = o.sel
        /\ \A x \in tree : x.pf = portfile
        /\ o.task # 0 /\ \E x \in tree : x.t = o.task
    BY <2>1, <2>3, <1>g, <1>h DEF Past
  <2>5. o.task \in Alone!Targets
    BY <2>4, <1>c, AloneBounds DEF AloneProcs, Alone!Targets
  <2>6. PICK d : d = [[c EXCEPT !.done = @ \cup {o.task}] EXCEPT !.old = FALSE]
    OBVIOUS
  <2>7. file' = [file EXCEPT ![path] = d]
    BY <1>9, <2>1, <2>3, <2>6, <1>b, <1>h DEF Alone!Record, Alone!File, Alone!Write, Past
  <2>8. /\ d \in AloneContents /\ d.vars = o.sel /\ d.done = c.done \cup {o.task} /\ d.sum = c.sum
        /\ d.version = c.version /\ d.old = FALSE
    BY <2>4, <2>5, <2>6 DEF AloneContents
  <2>9. Describes(d, tree)
    BY <2>4, <2>8 DEF Describes
  <2>10. file'[path'] = d
    BY <2>1, <2>7, <1>d, <1>h DEF Past
  <2>11. AloneBuilder(r)'
    BY <2>1, <2>2, <2>4, <2>8, <2>10, <1>g, <1>h DEF AloneBuilder, Looked, Valid, Past
  <2> QED BY <2>1, <2>2, <2>7, <2>8, <2>9, <2>11, <1>h, <1>i DEF Past
<1>10. CASE Alone!Finish(p)
  <2>1. /\ proc' = [proc EXCEPT ![p] = Alone!Idle] /\ Alone!End(p)
        /\ UNCHANGED <<portfile, file, flocks, bounds>>
    BY <1>10 DEF Alone!Finish, Alone!End
  <2>2. CASE UNCHANGED <<dir, tree, path>>
    BY <2>1, <2>2, <1>d, <1>l
  <2>3. CASE tree' = {} /\ path' = 0 /\ dir' = FALSE
    <3>1. AloneTree'
      BY <2>3 DEF AloneTree
    <3>2. AloneBuilder(Alone!Idle)'
      BY <1>e DEF AloneBuilder
    <3> QED BY <2>1, <2>3, <3>1, <3>2, <1>b, <1>d, <1>e, <1>f, AloneStep1
  <2> QED BY <1>10, <2>2, <2>3 DEF Alone!Finish, Alone!DeleteWork, Alone!work
<1>11. CASE Alone!Die(p)
  <2>1. /\ bounds.deaths > 0 /\ bounds' = [bounds EXCEPT !.deaths = @ - 1] /\ Alone!End(p)
        /\ UNCHANGED <<portfile, dir, tree, path, file, flocks>>
    BY <1>11 DEF Alone!Die, Alone!work
  <2>2. bounds' \in [starts : Nat, cleans : Nat, deaths : Nat, files : 0 .. AloneBuilds.files]
    BY <2>1, <1>d
  <2> QED BY <2>1, <2>2, <1>l
<1> QED BY <1>1, <1>2, <1>3, <1>4, <1>5, <1>6, <1>7, <1>8, <1>9, <1>10, <1>11 DEF Alone!RunTarget

-----------------------------------------------------------------------------
\* The subject of a behaviour stays, and the other components leave the builds
\* alone.
BuildsInv == (subject = "shared" => SharedInv) /\ (subject = "alone" => AloneInv)

LEMMA SharedSafe ==
    SharedInv => Shared!TypeOK /\ Shared!Exclusive /\ Shared!RunsOnCompleted /\ Shared!DoneMeansBuilt
<1> SUFFICES ASSUME SharedInv
             PROVE  Shared!TypeOK /\ Shared!Exclusive /\ Shared!RunsOnCompleted
                    /\ Shared!DoneMeansBuilt
    OBVIOUS
<1>1. Shared!TypeOK /\ SharedFile /\ SharedDone /\ \A p \in Builders : SharedBuilder(p)
  BY DEF SharedInv
<1>2. Shared!Exclusive
  BY <1>1 DEF Shared!Exclusive, Shared!At, SharedBuilder, Past
<1>3. Shared!RunsOnCompleted
  BY <1>1 DEF Shared!RunsOnCompleted, Shared!At, SharedBuilder, SharedDone
<1>4. \A x \in tree : x.pf = 1
  BY <1>1 DEF Shared!TypeOK, Shared!Portfiles
<1>5. Shared!DoneMeansBuilt
  BY <1>1, <1>4 DEF Shared!DoneMeansBuilt, SharedFile, SharedDone
<1> QED BY <1>1, <1>2, <1>3, <1>5

LEMMA BuildsStart == CommandsInit => BuildsInv
BY SharedInit, AloneInit DEF CommandsInit, BuildsInv

LEMMA BuildsStep == BuildsInv /\ [CommandsNext]_allVars => BuildsInv'
<1> SUFFICES ASSUME BuildsInv, [CommandsNext]_allVars PROVE BuildsInv'
    OBVIOUS
<1>1. subject' = subject
  BY DEF CommandsNext, LockSteps, BuildSteps, UninstallSteps, UpgradeSteps, allVars
<1>2. CASE subject = "shared"
  <2>1. Shared!Next \/ UNCHANGED stateVars
    BY <1>2 DEF CommandsNext, LockSteps, BuildSteps, UninstallSteps, UpgradeSteps, allVars
  <2>2. CASE UNCHANGED stateVars
    BY <1>1, <1>2, <2>2 DEF BuildsInv, stateVars, SharedInv, SharedFile, SharedDone, SharedBuilder,
         Shared!TypeOK
  <2> QED BY <1>1, <1>2, <2>1, <2>2, SharedStep DEF BuildsInv
<1>3. CASE subject = "alone"
  <2>1. Alone!Next \/ UNCHANGED stateVars
    BY <1>3 DEF CommandsNext, LockSteps, BuildSteps, UninstallSteps, UpgradeSteps, allVars
  <2>2. CASE UNCHANGED stateVars
    <3>1. AloneInv
      BY <1>3 DEF BuildsInv
    <3>2. AloneTypes' /\ AloneTree' /\ OneBuilder'
      BY <2>2, <3>1 DEF AloneInv, stateVars, AloneTypes, AloneTree, OneBuilder, Describes
    <3>3. (\A p \in Builders : AloneBuilder(proc[p]))'
      BY <2>2, <3>1 DEF AloneInv, stateVars, AloneBuilder, Looked, HasOpen, HasNew, Valid
    <3> QED BY <1>1, <1>3, <3>2, <3>3 DEF BuildsInv, AloneInv
  <2>3. CASE Alone!Next
    <3>1. AloneInv
      BY <1>3 DEF BuildsInv
    <3>2. AloneInv'
      BY <2>3, <3>1, AloneUser, AloneOpens, AloneRuns DEF Alone!Next, Alone!OpenStatefile
    <3> QED BY <1>1, <1>3, <3>2 DEF BuildsInv
  <2> QED BY <2>1, <2>2, <2>3
<1> QED BY <1>1, <1>2, <1>3 DEF BuildsInv

\* Processes that build at the same time, in a directory whose state file is
\* current, run one target at a time, on what was completed; builds one after
\* another, in directories of any age, with edits and port clean between them,
\* never mix Portfiles or selections of variants; and what is recorded as done
\* was built (open_statefile, check_variants, target_run of portutil.tcl).
THEOREM BuildsAreSafeCorrect == CommandsSpec => []BuildsAreSafe
<1>1. BuildsInv => BuildsAreSafe
  BY SharedSafe, AloneSafe DEF BuildsInv, BuildsAreSafe
<1> QED BY <1>1, BuildsStart, BuildsStep, PTL DEF CommandsSpec

-----------------------------------------------------------------------------
(* Uninstalling: what a call relies on while those it has made go on.       *)

UnFrame ==
    [entry : PortVersions, up : BOOLEAN, down : BOOLEAN, via : {"target", "direct"},
     pc : {"start", "dependents", "deactivate", "note", "delete", "dependencies", "versions"},
     todo : SUBSET Nat, all : SUBSET Nat, remaining : SUBSET Nat, dep : Nat,
     versions : SUBSET Nat, kept : BOOLEAN]
UnTypes ==
    /\ plan \in Registries /\ stack \in Seq(UnFrame)
    /\ active \subseteq installed /\ installed \subseteq before /\ before \subseteq PortVersions
    /\ thrown => stack # <<>>

\* It may uninstall its entry: that is what was asked for, or follows from it.
Above == Un!Above({command.entry})
Below == Un!Below({command.entry})
Uses(e) == plan.needs[e] \cup plan.builds[e]
IsAsked(f) ==
    /\ f.entry \in before
    /\ f.entry = command.entry \/ f.up \/ f.down
    /\ f.up => command.up /\ f.entry \in Above
    /\ f.down => command.down /\ f.entry \in Below
Follows(f) ==
    /\ f.pc = "dependents" =>
         f.up /\ \A d \in f.todo : d \in before /\ PortOf[f.entry] \in plan.needs[d]
    /\ f.pc \in {"delete", "dependencies", "versions"} =>
         \A n \in f.todo \cup f.all \cup f.remaining : f.down /\ n \in Uses(f.entry)
    /\ f.pc \notin {"delete", "dependencies", "versions"} => f.remaining = {}
    /\ f.pc = "versions" =>
         f.down /\ f.dep \in Uses(f.entry)
         /\ \A v \in f.versions : v \in before /\ PortOf[v] = f.dep

\* What it found still holds: nothing depends on an active entry it goes on to
\* deactivate, but for what it has still to uninstall.
Stands(f, called, ins, act, frc) ==
    /\ f.pc = "dependents" => \A d \in ins : PortOf[f.entry] \in plan.needs[d] =>
                                  d \in f.todo \/ d \in called
    /\ f.pc = "deactivate" /\ ~frc /\ f.entry \in act =>
         \A d \in ins : PortOf[f.entry] \notin plan.needs[d]
    /\ f.pc \in {"note", "delete"} => f.entry \notin act
    /\ f.pc \in {"dependencies", "versions"} => f.entry \notin ins
    /\ f.pc # "start" /\ command.force => frc
Called(i) == IF i < Len(stack) THEN {stack[i + 1].entry} ELSE {}
UnCalls ==
    \A i \in 1 .. Len(stack) :
        /\ i < Len(stack) => stack[i].pc \in {"dependents", "versions"}
        /\ IsAsked(stack[i]) /\ Follows(stack[i])
        /\ (i = Len(stack) /\ thrown) \/ Stands(stack[i], Called(i), installed, active, forced)
UnInv == UnTypes /\ UnCalls /\ Un!NeededKept /\ Un!OnlyAsked

LEMMA LeastIn == ASSUME NEW S, S \subseteq Nat, S # {} PROVE Un!Least(S) \in S
<1> DEFINE R == OpToRel(<, Nat)
<1>1. IsWellFoundedOn(R, Nat)
  BY NatLessThanWellFounded
<1>2. \A x, y \in Nat : <<y, x>> \in R <=> y < x
  BY DEF OpToRel
<1> HIDE DEF R
<1>3. \E x \in S : \A y \in S : ~ (<<y, x>> \in R)
  BY <1>1, WFMin
<1>4. PICK x \in S : \A y \in S : ~ (<<y, x>> \in R)
  BY <1>3
<1>5. \A y \in S : x \in Nat /\ y \in Nat /\ ~(y < x)
  BY <1>2, <1>4
<1>6. \A y \in S : x <= y
  BY <1>5
<1> QED BY <1>6 DEF Un!Least

\* The innermost call changes, makes a call, or is over.
LEMMA TopSeq ==
    ASSUME NEW S, NEW s \in Seq(S), s # <<>>, NEW f \in S
    PROVE  LET t == [s EXCEPT ![Len(s)] = f] IN
           /\ t \in Seq(S) /\ Len(t) = Len(s) /\ t # <<>> /\ t[Len(s)] = f
           /\ \A i \in 1 .. Len(s) : i # Len(s) => t[i] = s[i]
OBVIOUS
LEMMA CallSeq ==
    ASSUME NEW S, NEW s \in Seq(S), NEW f \in S
    PROVE  LET t == Append(s, f) IN
           /\ t \in Seq(S) /\ Len(t) = Len(s) + 1 /\ t # <<>> /\ t[Len(t)] = f
           /\ \A i \in 1 .. Len(s) : t[i] = s[i]
OBVIOUS
LEMMA SubLen ==
    ASSUME NEW S, NEW s, NEW n \in Int, \A i \in 1 .. n : s[i] \in S, n >= 0
    PROVE  Len(SubSeq(s, 1, n)) = n
BY SubSeqProperties
LEMMA PopSeq ==
    ASSUME NEW S, NEW s \in Seq(S), s # <<>>
    PROVE  LET t == SubSeq(s, 1, Len(s) - 1) IN
           /\ t \in Seq(S) /\ Len(t) = Len(s) - 1 /\ (t = <<>> <=> Len(s) = 1)
           /\ \A i \in 1 .. Len(t) : t[i] = s[i]
<1> DEFINE t == SubSeq(s, 1, Len(s) - 1)
<1>1. Len(s) \in Nat /\ Len(s) > 0 /\ \A i \in 1 .. Len(s) - 1 : s[i] \in S
  BY EmptySeq
<1>2. t \in Seq(S)
  OBVIOUS
<1>3. Len(t) = Len(s) - 1
  <2>1. PICK n : n = Len(s) - 1 /\ n \in Int /\ n >= 0
    BY <1>1
  <2>2. \A i \in 1 .. n : s[i] \in S
    BY <1>1, <2>1
  <2>3. Len(SubSeq(s, 1, n)) = n
    BY <2>1, <2>2, SubLen
  <2> QED BY <2>1, <2>3
<1>4. \A i \in 1 .. Len(t) : t[i] = s[i]
  BY <1>1, <1>3
<1>5. t = <<>> <=> Len(t) = 0
  BY <1>2, EmptySeq
<1>6. Len(t) = 0 <=> Len(s) = 1
  BY <1>1, <1>3
<1> HIDE DEF t
<1>7. t \in Seq(S) /\ Len(t) = Len(s) - 1 /\ (t = <<>> <=> Len(s) = 1)
      /\ \A i \in 1 .. Len(t) : t[i] = s[i]
  BY <1>2, <1>3, <1>4, <1>5, <1>6
<1> QED BY <1>7 DEF t
LEMMA LastOf ==
    ASSUME NEW S, NEW s \in Seq(S), s # <<>>
    PROVE  Len(s) \in Nat /\ Len(s) \in 1 .. Len(s) /\ s[Len(s)] \in S
           /\ \A i \in 1 .. Len(s) : s[i] \in S
OBVIOUS

\* What follows from what was asked for.
LEMMA AboveClosed ==
    ASSUME NEW e \in Above, e \in before, NEW d \in before, PortOf[e] \in plan.needs[d]
    PROVE  d \in Above
<1> DEFINE to == [x \in before |-> {y \in before : PortOf[x] \in plan.needs[y]}]
<1>1. d \in to[e]
  OBVIOUS
<1> HIDE DEF to
<1>2. Above = Un!Reached({command.entry}, to)
  BY DEF Above, Un!Above, to
<1> QED BY <1>1, <1>2 DEF Un!Reached
LEMMA BelowClosed ==
    ASSUME NEW e \in Below, e \in before, NEW v \in before, PortOf[v] \in Uses(e),
           v \notin plan.requested
    PROVE  v \in Below
<1> DEFINE to == [x \in before |-> {y \in before \ plan.requested :
                                       PortOf[y] \in plan.needs[x] \cup plan.builds[x]}]
<1>1. v \in to[e]
  BY DEF Uses
<1> HIDE DEF to
<1>2. Below = Un!Reached({command.entry}, to)
  BY DEF Below, Un!Below, to
<1> QED BY <1>1, <1>2 DEF Un!Reached
LEMMA SelfReached ==
    ASSUME command.entry \in before PROVE command.entry \in Above /\ command.entry \in Below
BY DEF Above, Un!Above, Below, Un!Below, Un!Reached

Fixed == UNCHANGED <<plan, command, before>>
LEMMA AskedKept ==
    ASSUME Fixed PROVE Above' = Above /\ Below' = Below
BY DEF Fixed, Above, Un!Above, Below, Un!Below, Un!Reached
LEMMA FrameKept ==
    ASSUME Fixed, NEW f, IsAsked(f), Follows(f) PROVE IsAsked(f)' /\ Follows(f)'
<1>1. Above' = Above /\ Below' = Below
  BY AskedKept
<1>2. Uses(f.entry)' = Uses(f.entry)
  BY DEF Uses, Fixed
<1> QED BY <1>1, <1>2 DEF Fixed, IsAsked, Follows

LEMMA UnReplace ==
    ASSUME UnInv, Fixed, stack # <<>>, NEW f \in UnFrame, stack' = Un!Top(f),
           f.entry = Un!top.entry, IsAsked(f), Follows(f),
           installed' \subseteq installed, active' \subseteq active,
           active' \subseteq installed', forced => forced',
           thrown' \/ Stands(f, {}, installed', active', forced'),
           Un!NeededKept', Un!OnlyAsked'
    PROVE  UnInv'
<1>1. UnTypes /\ UnCalls
  BY DEF UnInv
<1>2. /\ stack' \in Seq(UnFrame) /\ Len(stack') = Len(stack) /\ stack' # <<>>
      /\ stack'[Len(stack)] = f
      /\ \A i \in 1 .. Len(stack) : i # Len(stack) => stack'[i] = stack[i]
  BY <1>1, TopSeq DEF UnTypes, Un!Top
<1>3. UnTypes'
  BY <1>1, <1>2 DEF UnTypes, Fixed
<1>4. Len(stack) \in Nat
  BY <1>1 DEF UnTypes
<1>5. ASSUME NEW i \in 1 .. Len(stack)
      PROVE  /\ i < Len(stack) => stack'[i].pc \in {"dependents", "versions"}
             /\ IsAsked(stack[i])' /\ Follows(stack[i])'
             /\ (i = Len(stack) /\ thrown')
                \/ Stands(stack[i], Called(i), installed, active, forced)'
  <2>1. CASE i = Len(stack)
    <3>1. Called(i)' = {}
      BY <1>2, <2>1 DEF Called
    <3>2. IsAsked(f)' /\ Follows(f)'
      BY FrameKept
    <3>3. thrown' \/ Stands(f, {}, installed, active, forced)'
      BY DEF Stands, Fixed
    <3> QED BY <1>2, <2>1, <3>1, <3>2, <3>3
  <2>2. CASE i < Len(stack)
    <3>1. PICK g : g = stack[i]
      OBVIOUS
    <3>2. /\ g.pc \in {"dependents", "versions"} /\ IsAsked(g) /\ Follows(g)
          /\ Stands(g, Called(i), installed, active, forced)
      BY <1>1, <2>2, <3>1 DEF UnCalls
    <3>3. IsAsked(g)' /\ Follows(g)'
      BY <3>2, FrameKept
    <3>4. Called(i)' = Called(i)
      <4>1. CASE i + 1 = Len(stack)
        BY <1>2, <1>4, <2>2, <4>1 DEF Called, Un!top
      <4>2. CASE i + 1 # Len(stack)
        BY <1>2, <1>4, <2>2, <4>2 DEF Called
      <4> QED BY <4>1, <4>2
    <3>5. PICK c : c = Called(i)
      OBVIOUS
    <3>7. Stands(g, c, installed, active, forced)'
      BY <3>2, <3>5 DEF Stands, Fixed
    <3>6. stack'[i] = g
      BY <1>2, <2>2, <3>1
    <3> QED BY <1>2, <2>2, <3>2, <3>3, <3>4, <3>5, <3>6, <3>7
  <2> QED BY <1>4, <2>1, <2>2
<1>6. UnCalls'
  BY <1>2, <1>5 DEF UnCalls
<1> QED BY <1>3, <1>6 DEF UnInv

LEMMA UnThrow ==
    ASSUME UnInv, Fixed, stack # <<>>, UNCHANGED <<stack, installed, active>>,
           thrown', forced => forced'
    PROVE  UnInv'
<1>1. UnTypes /\ UnCalls /\ Un!NeededKept /\ Un!OnlyAsked
  BY DEF UnInv
<1>2. UnTypes'
  BY <1>1 DEF UnTypes, Fixed
<1>3. Un!NeededKept' /\ Un!OnlyAsked'
  <2>1. Un!NeededKept'
    BY <1>1 DEF Un!NeededKept, Un!Versions, Fixed
  <2>2. (Above = Un!Above({command.entry}) /\ Below = Un!Below({command.entry}))
        /\ (Above = Un!Above({command.entry}) /\ Below = Un!Below({command.entry}))'
    BY DEF Above, Below
  <2>3. Un!OnlyAsked'
    BY <1>1, <2>2, AskedKept DEF Un!OnlyAsked, Fixed
  <2> QED BY <2>1, <2>3
<1>4. ASSUME NEW i \in 1 .. Len(stack)
      PROVE  /\ i < Len(stack) => stack[i].pc \in {"dependents", "versions"}
             /\ IsAsked(stack[i])' /\ Follows(stack[i])'
             /\ (i = Len(stack) /\ thrown')
                \/ Stands(stack[i], Called(i), installed, active, forced)'
  <2>1. PICK g : g = stack[i]
    OBVIOUS
  <2>2. /\ i < Len(stack) => g.pc \in {"dependents", "versions"} /\ Stands(g, Called(i), installed, active, forced)
        /\ IsAsked(g) /\ Follows(g)
    BY <1>1, <2>1 DEF UnCalls
  <2>3. IsAsked(g)' /\ Follows(g)'
    BY <2>2, FrameKept
  <2>4. stack'[i] = g /\ Called(i)' = Called(i) /\ Len(stack) \in Nat
    BY <1>1, <2>1 DEF Called, UnTypes
  <2>5. PICK c : c = Called(i)
    OBVIOUS
  <2>6. i < Len(stack) => Stands(g, c, installed, active, forced)'
    BY <2>2, <2>5 DEF Stands, Fixed
  <2> QED BY <2>1, <2>2, <2>3, <2>4, <2>5, <2>6
<1>5. UnCalls'
  BY <1>4 DEF UnCalls
<1> QED BY <1>2, <1>3, <1>5 DEF UnInv

LEMMA UnSame ==
    ASSUME UnInv, Fixed, UNCHANGED <<installed, active>>, forced => forced'
    PROVE  Un!NeededKept' /\ Un!OnlyAsked'
<1>1. Un!NeededKept /\ Un!OnlyAsked
  BY DEF UnInv
<1>2. Un!NeededKept'
  BY <1>1 DEF Un!NeededKept, Un!Versions, Fixed
<1>3. (Above = Un!Above({command.entry}) /\ Below = Un!Below({command.entry}))
      /\ (Above = Un!Above({command.entry}) /\ Below = Un!Below({command.entry}))'
  BY DEF Above, Below
<1>4. Un!OnlyAsked'
  BY <1>1, <1>3, AskedKept DEF Un!OnlyAsked, Fixed
<1> QED BY <1>2, <1>4

LEMMA UnCall ==
    ASSUME UnInv, Fixed, stack # <<>>, ~thrown, NEW f \in UnFrame, NEW g \in UnFrame,
           stack' = Append(Un!Top(f), g), f.entry = Un!top.entry,
           f.pc \in {"dependents", "versions"}, IsAsked(f), Follows(f),
           Stands(f, {g.entry}, installed, active, forced),
           g.pc = "start", g.remaining = {}, IsAsked(g),
           UNCHANGED <<installed, active, forced, thrown>>
    PROVE  UnInv'
<1>1. UnTypes /\ UnCalls
  BY DEF UnInv
<1>2. PICK t : t = Un!Top(f)
  OBVIOUS
<1>3. /\ t \in Seq(UnFrame) /\ Len(t) = Len(stack) /\ t[Len(stack)] = f
      /\ \A i \in 1 .. Len(stack) : i # Len(stack) => t[i] = stack[i]
  BY <1>1, <1>2, TopSeq DEF UnTypes, Un!Top
<1>4. /\ stack' \in Seq(UnFrame) /\ Len(stack') = Len(stack) + 1 /\ stack' # <<>>
      /\ stack'[Len(stack) + 1] = g /\ stack'[Len(stack)] = f
      /\ \A i \in 1 .. Len(stack) : i # Len(stack) => stack'[i] = stack[i]
  <2>1. PICK u : u = Append(t, g)
    OBVIOUS
  <2>2. u \in Seq(UnFrame) /\ Len(u) = Len(t) + 1 /\ u # <<>> /\ u[Len(u)] = g
        /\ \A i \in 1 .. Len(t) : u[i] = t[i]
    BY <1>3, <2>1, CallSeq
  <2>3. u = stack' /\ Len(stack) \in Nat /\ Len(stack) > 0
    BY <1>1, <1>2, <2>1, EmptySeq DEF UnTypes
  <2>4. PICK n : n = Len(stack)
    OBVIOUS
  <2>5. n \in Nat /\ n > 0 /\ Len(t) = n /\ Len(u) = n + 1
    BY <1>3, <2>2, <2>3, <2>4
  <2>6. u[n + 1] = g /\ u[n] = f /\ \A i \in 1 .. n : i # n => u[i] = stack[i]
    BY <1>3, <2>2, <2>4, <2>5
  <2> QED BY ONLY <2>2, <2>3, <2>4, <2>5, <2>6
<1>5. UnTypes'
  BY <1>1, <1>4 DEF UnTypes, Fixed
<1>6. Len(stack) \in Nat
  BY <1>1 DEF UnTypes
<1>7. Follows(g)
  BY DEF Follows
<1>8. ASSUME NEW i \in 1 .. Len(stack) + 1
      PROVE  /\ i < Len(stack) + 1 => stack'[i].pc \in {"dependents", "versions"}
             /\ IsAsked(stack[i])' /\ Follows(stack[i])'
             /\ (i = Len(stack') /\ thrown')
                \/ Stands(stack[i], Called(i), installed, active, forced)'
  <2>1. CASE i = Len(stack) + 1
    <3>1. IsAsked(g)' /\ Follows(g)' /\ Stands(g, {}, installed, active, forced)'
      BY <1>7, FrameKept DEF Stands
    <3>2. Called(i)' = {}
      <4>1. ~(i < Len(stack'))
        BY <1>4, <1>6, <2>1
      <4> QED BY <4>1 DEF Called
    <3>3. stack'[i] = g
      BY <1>4, <2>1
    <3>4. Stands(stack[i], Called(i), installed, active, forced)'
      BY <3>1, <3>2, <3>3 DEF Stands
    <3>5. IsAsked(stack[i])' /\ Follows(stack[i])'
      BY <3>1, <3>3
    <3>6. ~(i < Len(stack) + 1)
      BY <1>6, <2>1
    <3> QED BY <3>4, <3>5, <3>6
  <2>2. CASE i = Len(stack)
    <3>1. IsAsked(f)' /\ Follows(f)'
      BY FrameKept
    <3>2. Stands(f, {g.entry}, installed, active, forced)'
      BY DEF Stands, Fixed
    <3>3. Called(i)' = {g.entry}
      BY <1>4, <1>6, <2>2 DEF Called
    <3> QED BY <1>4, <1>6, <2>2, <3>1, <3>2, <3>3
  <2>3. CASE i < Len(stack)
    <3>1. PICK h : h = stack[i]
      OBVIOUS
    <3>2. /\ h.pc \in {"dependents", "versions"} /\ IsAsked(h) /\ Follows(h)
          /\ Stands(h, Called(i), installed, active, forced)
      BY <1>1, <1>6, <2>3, <3>1 DEF UnCalls
    <3>3. IsAsked(h)' /\ Follows(h)'
      BY <3>2, FrameKept
    <3>4. Called(i)' = Called(i)
      <4>1. CASE i + 1 = Len(stack)
        BY <1>4, <1>6, <2>3, <4>1 DEF Called, Un!top
      <4>2. CASE i + 1 # Len(stack)
        BY <1>4, <1>6, <2>3, <4>2 DEF Called
      <4> QED BY <4>1, <4>2
    <3>5. PICK c : c = Called(i)
      OBVIOUS
    <3>6. Stands(h, c, installed, active, forced)'
      BY <3>2, <3>5 DEF Stands, Fixed
    <3>7. stack'[i] = h
      BY <1>4, <1>6, <2>3, <3>1
    <3>8. (stack'[i] = h /\ Called(i)' = c) /\ Stands(h, c, installed, active, forced)'
      BY <3>4, <3>5, <3>6, <3>7
    <3>9. Stands(stack[i], Called(i), installed, active, forced)'
      BY <3>8, Zenon
    <3>10. IsAsked(stack[i])' /\ Follows(stack[i])'
      BY <3>3, <3>7
    <3> QED BY <3>2, <3>7, <3>9, <3>10
  <2>4. i = Len(stack) + 1 \/ i = Len(stack) \/ i < Len(stack)
    BY <1>6
  <2> QED BY <2>1, <2>2, <2>3, <2>4
<1>9. UnCalls'
  BY <1>4, <1>8 DEF UnCalls
<1> QED BY <1>5, <1>9, UnSame DEF UnInv

LEMMA UnPop ==
    ASSUME UnInv, Fixed, stack # <<>>, stack' = SubSeq(stack, 1, Len(stack) - 1),
           UNCHANGED <<installed, active, forced>>,
           thrown' => Len(stack) > 1, thrown' \/ Un!top.entry \notin installed
    PROVE  UnInv'
<1>1. UnTypes /\ UnCalls
  BY DEF UnInv
<1>2. PICK n : n = Len(stack) - 1
  OBVIOUS
<1>3. n \in Nat /\ Len(stack) = n + 1
  BY <1>1, <1>2, EmptySeq DEF UnTypes
<1>4. /\ stack' \in Seq(UnFrame) /\ Len(stack') = n /\ (stack' = <<>> <=> n = 0)
      /\ \A i \in 1 .. n : stack'[i] = stack[i]
  BY <1>1, <1>2, <1>3, PopSeq DEF UnTypes
<1>5. UnTypes'
  BY <1>1, <1>3, <1>4 DEF UnTypes, Fixed
<1>6. ASSUME NEW i \in 1 .. n
      PROVE  /\ i < n => stack'[i].pc \in {"dependents", "versions"}
             /\ IsAsked(stack[i])' /\ Follows(stack[i])'
             /\ (i = n /\ thrown') \/ Stands(stack[i], Called(i), installed, active, forced)'
  <2>1. PICK h : h = stack[i]
    OBVIOUS
  <2>2. /\ h.pc \in {"dependents", "versions"} /\ IsAsked(h) /\ Follows(h)
        /\ Stands(h, Called(i), installed, active, forced)
    BY <1>1, <1>3, <2>1 DEF UnCalls
  <2>3. IsAsked(h)' /\ Follows(h)' /\ stack'[i] = h
    BY <1>4, <2>1, <2>2, FrameKept
  <2>4. PICK c : c = Called(i)
    OBVIOUS
  <2>5. CASE i < n
    <3>1. Called(i)' = c
      <4>1. i + 1 \in 1 .. n
        BY <1>3, <2>5
      <4> QED BY <1>3, <1>4, <2>4, <2>5, <4>1 DEF Called
    <3>2. Stands(h, c, installed, active, forced)'
      BY <2>2, <2>4 DEF Stands, Fixed
    <3> QED BY <2>2, <2>3, <3>1, <3>2
  <2>6. CASE i = n /\ ~thrown'
    <3>1. c = {Un!top.entry}
      BY <1>3, <2>4, <2>6 DEF Called, Un!top
    <3>2. Called(i)' = {}
      BY <1>3, <1>4, <2>6 DEF Called
    <3>3. Un!top.entry \notin installed
      BY <2>6
    <3>4. PICK x : x = Un!top.entry
      OBVIOUS
    <3>5. Stands(h, {x}, installed, active, forced) /\ x \notin installed
      BY <2>2, <2>4, <3>1, <3>3, <3>4
    <3>7. h.pc = "dependents" => \A d \in installed : PortOf[h.entry] \in plan.needs[d] => d \in h.todo
      BY <3>5 DEF Stands
    <3>6. Stands(h, {}, installed, active, forced)'
      BY <3>5, <3>7 DEF Stands, Fixed
    <3>8. Stands(stack[i], Called(i), installed, active, forced)'
      BY <2>3, <3>2, <3>6 DEF Stands
    <3> QED BY <2>2, <2>3, <2>6, <3>8
  <2>7. CASE i = n /\ thrown'
    BY <2>3, <2>7, <1>3
  <2> QED BY <1>3, <2>5, <2>6, <2>7
<1>7. UnCalls'
  BY <1>3, <1>4, <1>6 DEF UnCalls
<1> QED BY <1>5, <1>7, UnSame DEF UnInv

LEMMA UnInit == Un!Init => UnInv
<1> SUFFICES ASSUME Un!Init PROVE UnInv
    OBVIOUS
<1>1. /\ plan \in Registries /\ installed = plan.installed /\ active = plan.active
      /\ stack = <<>> /\ ~thrown /\ before = installed
  BY DEF Un!Init
<1>2. Un!IsPlan(plan)
  BY <1>1, RegistriesAssumption DEF Un!UninstallAssumption
<1>3. UnTypes
  BY <1>1, <1>2, EmptySeq DEF UnTypes, Un!IsPlan
<1>4. UnCalls
  BY <1>1, EmptySeq DEF UnCalls
<1>5. Un!NeededKept
  BY <1>1, <1>2 DEF Un!NeededKept, Un!Versions, Un!IsPlan
<1>6. Un!OnlyAsked
  BY <1>1 DEF Un!OnlyAsked
<1> QED BY <1>3, <1>4, <1>5, <1>6 DEF UnInv

LEMMA UnCommand ==
    ASSUME UnInv, NEW e \in PortVersions, NEW up \in BOOLEAN, NEW down \in BOOLEAN,
           NEW force \in BOOLEAN, Un!Command(e, up, down, force)
    PROVE  UnInv'
<1>1. UnTypes /\ Un!NeededKept
  BY DEF UnInv
<1>2. /\ stack = <<>> /\ e \in installed /\ before' = installed
      /\ command' = [entry |-> e, up |-> up, down |-> down, force |-> force]
      /\ UNCHANGED <<plan, installed, active, forced, thrown>>
      /\ Un!CallFrom(<<>>, e, up, down)
  BY DEF Un!Command
<1>3. PICK via \in {"target", "direct"} : stack' = Append(<<>>, Un!Call(e, up, down, via))
  BY <1>2 DEF Un!CallFrom
<1>4. PICK g : g = Un!Call(e, up, down, via)
  OBVIOUS
<1>5. /\ g \in UnFrame /\ g.entry = e /\ g.up = up /\ g.down = down /\ g.pc = "start" /\ g.remaining = {}
  BY <1>4 DEF Un!Call, UnFrame
<1>6. stack' \in Seq(UnFrame) /\ Len(stack') = 1 /\ stack' # <<>> /\ stack'[1] = g
  <2>1. <<>> \in Seq(UnFrame) /\ Len(<<>>) = 0
    BY EmptySeq
  <2>2. PICK s \in Seq(UnFrame) : s = <<>> /\ Len(s) = 0
    BY <2>1
  <2>3. PICK t : t = Append(s, g)
    OBVIOUS
  <2>4. t \in Seq(UnFrame) /\ Len(t) = Len(s) + 1 /\ t # <<>> /\ t[Len(t)] = g
    BY <1>5, <2>3, CallSeq
  <2> QED BY <1>3, <1>4, <2>2, <2>3, <2>4
<1>7. UnTypes'
  BY <1>1, <1>2, <1>6 DEF UnTypes
<1>8. (command.entry = e /\ command.up = up /\ command.down = down /\ e \in before)'
  BY <1>1, <1>2 DEF UnTypes
<1>9. e \in Above' /\ e \in Below'
  BY <1>8 DEF Above, Un!Above, Below, Un!Below, Un!Reached
<1>10. IsAsked(g)' /\ Follows(g)' /\ Stands(g, {}, installed, active, forced)'
  BY <1>5, <1>8, <1>9 DEF IsAsked, Follows, Stands
<1>11. ASSUME NEW i \in 1 .. 1
       PROVE  /\ ~(i < Len(stack'))
              /\ IsAsked(stack[i])' /\ Follows(stack[i])'
              /\ Stands(stack[i], Called(i), installed, active, forced)'
  <2>1. i = 1 /\ ~(i < Len(stack'))
    BY <1>6
  <2>2. Called(i)' = {}
    BY <2>1 DEF Called
  <2>3. stack'[i] = g
    BY <1>6, <2>1
  <2>4. IsAsked(stack[i])' /\ Follows(stack[i])'
    BY <1>10, <2>3
  <2>5. Stands(stack[i], Called(i), installed, active, forced)'
    BY <1>10, <2>2, <2>3 DEF Stands
  <2> QED BY <2>1, <2>4, <2>5
<1>12. UnCalls'
  BY <1>6, <1>11 DEF UnCalls
<1>13. Un!NeededKept'
  BY <1>1, <1>2 DEF Un!NeededKept, Un!Versions
<1>14. Un!OnlyAsked'
  BY <1>2 DEF Un!OnlyAsked
<1> QED BY <1>7, <1>12, <1>13, <1>14 DEF UnInv

\* What is known of the innermost call.
LEMMA TopCall ==
    ASSUME UnInv, stack # <<>>
    PROVE  /\ Un!top \in UnFrame /\ IsAsked(Un!top) /\ Follows(Un!top)
           /\ ~thrown => Stands(Un!top, {}, installed, active, forced)
           /\ Un!IsPlan(plan) /\ active \subseteq installed /\ installed \subseteq before
           /\ before \subseteq PortVersions
<1>1. UnTypes /\ UnCalls
  BY DEF UnInv
<1>2. PICK n : n = Len(stack)
  OBVIOUS
<1>3. n \in Nat /\ n \in 1 .. Len(stack) /\ stack[n] \in UnFrame
  BY <1>1, <1>2, LastOf DEF UnTypes
<1>4. Un!top = stack[n] /\ Called(n) = {}
  BY <1>2, <1>3 DEF Un!top, Called
<1>5. IsAsked(stack[n]) /\ Follows(stack[n])
      /\ (thrown \/ Stands(stack[n], Called(n), installed, active, forced))
  BY <1>1, <1>3 DEF UnCalls
<1>6. Un!IsPlan(plan)
  BY <1>1, RegistriesAssumption DEF UnTypes, Un!UninstallAssumption
<1> QED BY <1>1, <1>3, <1>4, <1>5, <1>6 DEF UnTypes

LEMMA UsesNat ==
    ASSUME Un!IsPlan(plan), NEW e \in PortVersions PROVE Uses(e) \subseteq Nat
<1>1. \A n \in Un!Names : n \in Nat
  BY RegistriesAssumption DEF Un!UninstallAssumption, Un!Names
<1> QED BY <1>1 DEF Un!IsPlan, Uses

LEMMA UnGo ==
    ASSUME UnInv, Fixed, stack # <<>>, NEW f \in UnFrame, stack' = Un!Top(f),
           f.entry = Un!top.entry, IsAsked(f), Follows(f),
           UNCHANGED <<installed, active>>, forced => forced',
           Stands(f, {}, installed, active, forced')
    PROVE  UnInv'
<1>1. Un!NeededKept' /\ Un!OnlyAsked'
  BY UnSame
<1>2. active' \subseteq installed'
  BY TopCall
<1>3. installed' \subseteq installed /\ active' \subseteq active
  OBVIOUS
<1>4. Stands(f, {}, installed', active', forced')
  OBVIOUS
<1> QED BY <1>1, <1>2, <1>3, <1>4, UnReplace

LEMMA UnStart == UnInv /\ Un!Start => UnInv'
<1> SUFFICES ASSUME UnInv, Un!Start PROVE UnInv'
    OBVIOUS
<1>1. /\ stack # <<>> /\ ~thrown /\ Un!top.pc = "start" /\ forced' = (forced \/ command.force)
      /\ Un!Throw \/ \/ Un!top.up /\ Un!Steps([Un!top EXCEPT !.pc = "dependents",
                                                     !.todo = Un!Dependents(Un!top.entry)])
                     \/ /\ ~Un!top.up /\ ~Un!Refused(Un!top.entry)
                        /\ Un!Steps([Un!top EXCEPT !.pc = "deactivate"])
  BY DEF Un!Start, Un!At, Un!Running
<1>2. PICK t : t = Un!top
  OBVIOUS
<1>3. t \in UnFrame /\ IsAsked(t) /\ Follows(t) /\ Un!IsPlan(plan) /\ installed \subseteq before
      /\ active \subseteq installed /\ before \subseteq PortVersions
  BY <1>1, <1>2, TopCall
<1>4. CASE Un!Throw
  <2>1. Fixed /\ UNCHANGED <<stack, installed, active>> /\ thrown' /\ (forced => forced')
    BY <1>1, <1>4 DEF Fixed, Un!Throw, Un!history
  <2> QED BY <1>1, <2>1, UnThrow
<1>5. CASE t.up /\ Un!Steps([t EXCEPT !.pc = "dependents", !.todo = Un!Dependents(t.entry)])
  <2>1. PICK S : S = Un!Dependents(t.entry)
    OBVIOUS
  <2>2. PICK f : f = [t EXCEPT !.pc = "dependents", !.todo = S]
    OBVIOUS
  <2>3. S = {d \in installed : PortOf[t.entry] \in plan.needs[d]}
    BY <2>1 DEF Un!Dependents
  <2>4. S \in SUBSET Nat /\ \A d \in S : d \in before
    BY <1>3, <2>3, RegistriesAssumption DEF Un!UninstallAssumption
  <2>5. /\ f \in UnFrame /\ f.entry = t.entry /\ f.up = t.up /\ f.down = t.down
        /\ f.pc = "dependents" /\ f.remaining = t.remaining /\ f.todo = S
    BY <1>3, <2>2, <2>4 DEF UnFrame
  <2>6. Fixed /\ stack' = Un!Top(f) /\ UNCHANGED <<installed, active>>
    BY <1>5, <2>1, <2>2 DEF Un!Steps, Fixed, Un!history
  <2>7. IsAsked(f)
    BY <1>3, <2>5 DEF IsAsked
  <2>8. Follows(f)
    BY <1>1, <1>2, <1>3, <1>5, <2>3, <2>4, <2>5 DEF Follows
  <2>9. Stands(f, {}, installed, active, forced')
    BY <1>1, <2>3, <2>5 DEF Stands
  <2>10. f.entry = Un!top.entry /\ (forced => forced')
    BY <1>1, <1>2, <2>5
  <2> QED BY <1>1, <2>5, <2>6, <2>7, <2>8, <2>9, <2>10, UnGo
<1>6. CASE ~t.up /\ ~Un!Refused(t.entry) /\ Un!Steps([t EXCEPT !.pc = "deactivate"])
  <2>1. PICK f : f = [t EXCEPT !.pc = "deactivate"]
    OBVIOUS
  <2>2. /\ f \in UnFrame /\ f.entry = t.entry /\ f.up = t.up /\ f.down = t.down
        /\ f.pc = "deactivate" /\ f.remaining = t.remaining
    BY <1>3, <2>1 DEF UnFrame
  <2>3. Fixed /\ stack' = Un!Top(f) /\ UNCHANGED <<installed, active>>
    BY <1>6, <2>1 DEF Un!Steps, Fixed, Un!history
  <2>4. IsAsked(f)
    BY <1>3, <2>2 DEF IsAsked
  <2>5. Follows(f)
    BY <1>1, <1>2, <1>3, <2>2 DEF Follows
  <2>6. ~forced' /\ t.entry \in active => Un!Dependents(t.entry) = {}
    BY <1>6 DEF Un!Refused
  <2>7. ~forced' /\ t.entry \in active => \A d \in installed : PortOf[t.entry] \notin plan.needs[d]
    BY <2>6 DEF Un!Dependents
  <2>8. Stands(f, {}, installed, active, forced')
    BY <1>1, <2>2, <2>7 DEF Stands
  <2>9. f.entry = Un!top.entry /\ (forced => forced')
    BY <1>1, <1>2, <2>2
  <2> QED BY <1>1, <2>2, <2>3, <2>4, <2>5, <2>8, <2>9, UnGo
<1> QED BY <1>1, <1>2, <1>4, <1>5, <1>6

LEMMA UnDependents == UnInv /\ (Un!NextDependent \/ Un!DependentsDone) => UnInv'
<1> SUFFICES ASSUME UnInv, Un!NextDependent \/ Un!DependentsDone PROVE UnInv'
    OBVIOUS
<1>1. stack # <<>> /\ ~thrown /\ Un!top.pc = "dependents" /\ UNCHANGED forced
  BY DEF Un!NextDependent, Un!DependentsDone, Un!At, Un!Running
<1>2. PICK t : t = Un!top
  OBVIOUS
<1>3. t \in UnFrame /\ IsAsked(t) /\ Follows(t) /\ Stands(t, {}, installed, active, forced)
      /\ Un!IsPlan(plan) /\ installed \subseteq before /\ active \subseteq installed
      /\ before \subseteq PortVersions
  BY <1>1, <1>2, TopCall
<1>4. CASE Un!DependentsDone
  <2>1. t.todo = {} /\ Un!Steps([t EXCEPT !.pc = "deactivate"])
    BY <1>2, <1>4 DEF Un!DependentsDone
  <2>2. PICK f : f = [t EXCEPT !.pc = "deactivate"]
    OBVIOUS
  <2>3. /\ f \in UnFrame /\ f.entry = t.entry /\ f.up = t.up /\ f.down = t.down
        /\ f.pc = "deactivate" /\ f.remaining = t.remaining
    BY <1>3, <2>2 DEF UnFrame
  <2>4. Fixed /\ stack' = Un!Top(f) /\ UNCHANGED <<installed, active>>
    BY <2>1, <2>2 DEF Un!Steps, Fixed, Un!history
  <2>5. IsAsked(f) /\ Follows(f)
    BY <1>1, <1>2, <1>3, <2>3 DEF IsAsked, Follows
  <2>6. \A d \in installed : PortOf[t.entry] \notin plan.needs[d]
    BY <1>1, <1>2, <1>3, <2>1 DEF Stands
  <2>7. Stands(f, {}, installed, active, forced')
    BY <1>1, <1>2, <1>3, <2>3, <2>6 DEF Stands
  <2> QED BY <1>1, <1>2, <2>3, <2>4, <2>5, <2>7, UnGo
<1>5. CASE Un!NextDependent
  <2>1. PICK d : d = Un!Least(t.todo)
    OBVIOUS
  <2>2. PICK f : f = [t EXCEPT !.todo = @ \ {d}]
    OBVIOUS
  <2>3. t.todo # {} /\ t.todo \subseteq Nat
    BY <1>2, <1>3, <1>5 DEF Un!NextDependent, UnFrame
  <2>4. d \in t.todo
    BY <2>1, <2>3, LeastIn
  <2>5. /\ f \in UnFrame /\ f.entry = t.entry /\ f.up = t.up /\ f.down = t.down
        /\ f.pc = "dependents" /\ f.remaining = t.remaining /\ f.todo = t.todo \ {d}
    BY <1>1, <1>2, <1>3, <2>2 DEF UnFrame
  <2>6. IsAsked(f)
    BY <1>3, <2>5 DEF IsAsked
  <2>7. t.up /\ \A x \in t.todo : x \in before /\ PortOf[t.entry] \in plan.needs[x]
    BY <1>1, <1>2, <1>3 DEF Follows
  <2>8. Follows(f)
    BY <1>1, <1>2, <1>3, <2>5, <2>7 DEF Follows
  <2>9. CASE d \in installed
    <3>1. Un!CallFrom(Un!Top(f), d, TRUE, FALSE) /\ Fixed /\ UNCHANGED <<installed, active, thrown>>
      BY <1>2, <1>5, <2>1, <2>2, <2>9 DEF Un!NextDependent, Fixed, Un!history
    <3>2. PICK via \in {"target", "direct"} :
            stack' = Append(Un!Top(f), Un!Call(d, TRUE, FALSE, via))
      BY <3>1 DEF Un!CallFrom
    <3>3. PICK g : g = Un!Call(d, TRUE, FALSE, via)
      OBVIOUS
    <3>4. g \in UnFrame /\ g.entry = d /\ g.up = TRUE /\ g.down = FALSE /\ g.pc = "start"
          /\ g.remaining = {}
      BY <1>3, <2>4, <2>7, <3>3 DEF Un!Call, UnFrame
    <3>5. t.entry \in Above /\ t.entry \in before /\ command.up
      BY <1>3, <2>7 DEF IsAsked
    <3>6. d \in before /\ PortOf[t.entry] \in plan.needs[d]
      BY <2>4, <2>7
    <3>7. d \in Above
      BY <3>5, <3>6, AboveClosed
    <3>8. IsAsked(g)
      BY <3>4, <3>5, <3>6, <3>7 DEF IsAsked
    <3>9. Stands(f, {g.entry}, installed, active, forced)
      BY <1>1, <1>2, <1>3, <2>5, <3>4 DEF Stands
    <3>10. stack' = Append(Un!Top(f), g)
      BY <3>2, <3>3
    <3> QED BY <1>1, <1>2, <2>5, <2>6, <2>8, <3>1, <3>4, <3>8, <3>9, <3>10, UnCall
  <2>10. CASE d \notin installed
    <3>1. Fixed /\ stack' = Un!Top(f) /\ UNCHANGED <<installed, active>>
      BY <1>2, <1>5, <2>1, <2>2, <2>10 DEF Un!NextDependent, Un!Steps, Fixed, Un!history
    <3>2. Stands(f, {}, installed, active, forced')
      BY <1>1, <1>2, <1>3, <2>5, <2>10 DEF Stands
    <3> QED BY <1>1, <1>2, <2>5, <2>6, <2>8, <3>1, <3>2, UnGo
  <2> QED BY <2>9, <2>10
<1> QED BY <1>4, <1>5

LEMMA UnDeactivate == UnInv /\ Un!Deactivate => UnInv'
<1> SUFFICES ASSUME UnInv, Un!Deactivate PROVE UnInv'
    OBVIOUS
<1>1. stack # <<>> /\ ~thrown /\ Un!top.pc = "deactivate" /\ UNCHANGED forced
  BY DEF Un!Deactivate, Un!At, Un!Running
<1>2. PICK t : t = Un!top
  OBVIOUS
<1>3. t \in UnFrame /\ IsAsked(t) /\ Follows(t) /\ Stands(t, {}, installed, active, forced)
      /\ Un!IsPlan(plan) /\ installed \subseteq before /\ active \subseteq installed
      /\ before \subseteq PortVersions
  BY <1>1, <1>2, TopCall
<1>4. CASE Un!Throw
  <2>1. Fixed /\ UNCHANGED <<stack, installed, active>> /\ thrown' /\ (forced => forced')
    BY <1>1, <1>4 DEF Fixed, Un!Throw, Un!history
  <2> QED BY <1>1, <2>1, UnThrow
<1>5. CASE /\ active' = active \ {t.entry}
           /\ stack' = Un!Top([t EXCEPT !.pc = "note"])
           /\ UNCHANGED <<plan, installed, thrown, faults>> /\ UNCHANGED Un!history
  <2>1. PICK f : f = [t EXCEPT !.pc = "note"]
    OBVIOUS
  <2>2. /\ f \in UnFrame /\ f.entry = t.entry /\ f.up = t.up /\ f.down = t.down
        /\ f.pc = "note" /\ f.remaining = t.remaining
    BY <1>3, <2>1 DEF UnFrame
  <2>3. Fixed /\ stack' = Un!Top(f) /\ installed' = installed /\ active' = active \ {t.entry}
    BY <1>5, <2>1 DEF Fixed, Un!history
  <2>4. IsAsked(f) /\ Follows(f)
    BY <1>1, <1>2, <1>3, <2>2 DEF IsAsked, Follows
  <2>5. Stands(f, {}, installed', active', forced')
    BY <1>1, <1>2, <1>3, <2>2, <2>3 DEF Stands
  <2>6. ~forced /\ t.entry \in active => \A d \in installed : PortOf[t.entry] \notin plan.needs[d]
    BY <1>1, <1>2, <1>3 DEF Stands
  <2>7. Un!NeededKept'
    <3> SUFFICES ASSUME ~forced', NEW d \in installed', NEW n \in plan.needs[d],
                        \E v \in plan.active : PortOf[v] = n
                 PROVE  \E v \in installed' \cap active' : PortOf[v] = n
      BY <2>3 DEF Un!NeededKept, Un!Versions, Fixed
    <3>1. Un!NeededKept
      BY DEF UnInv
    <3>2. PICK v \in installed \cap active : PortOf[v] = n
      BY <1>1, <2>3, <3>1 DEF Un!NeededKept, Un!Versions
    <3>3. v # t.entry
      BY <1>1, <2>3, <2>6, <3>2
    <3> QED BY <2>3, <3>2, <3>3
  <2>8. Un!OnlyAsked'
    <3>1. Un!OnlyAsked
      BY DEF UnInv
    <3>2. (Above = Un!Above({command.entry}) /\ Below = Un!Below({command.entry}))
          /\ (Above = Un!Above({command.entry}) /\ Below = Un!Below({command.entry}))'
      BY DEF Above, Below
    <3> QED BY <2>3, <3>1, <3>2, AskedKept DEF Un!OnlyAsked, Fixed
  <2>9. f.entry = Un!top.entry /\ installed' \subseteq installed /\ active' \subseteq active
        /\ active' \subseteq installed' /\ (forced => forced')
    BY <1>1, <1>2, <1>3, <2>2, <2>3
  <2> QED BY <1>1, <2>2, <2>3, <2>4, <2>5, <2>7, <2>8, <2>9, UnReplace
<1> QED BY <1>2, <1>4, <1>5 DEF Un!Deactivate

LEMMA UnNote == UnInv /\ Un!NoteDependencies => UnInv'
<1> SUFFICES ASSUME UnInv, Un!NoteDependencies PROVE UnInv'
    OBVIOUS
<1>1. stack # <<>> /\ ~thrown /\ Un!top.pc = "note" /\ UNCHANGED forced
  BY DEF Un!NoteDependencies, Un!At, Un!Running
<1>2. PICK t : t = Un!top
  OBVIOUS
<1>3. t \in UnFrame /\ IsAsked(t) /\ Follows(t) /\ Stands(t, {}, installed, active, forced)
      /\ Un!IsPlan(plan) /\ installed \subseteq before /\ active \subseteq installed
      /\ before \subseteq PortVersions
  BY <1>1, <1>2, TopCall
<1>4. PICK known \in {plan.builds[t.entry], {}} :
        Un!Steps([t EXCEPT !.pc = "delete",
                           !.all = IF t.down THEN Un!Recorded(t.entry) \cup known ELSE {},
                           !.todo = IF t.down THEN Un!Recorded(t.entry) \cup known ELSE {}])
  <2>1. PICK known \in IF t.entry \in plan.opens THEN {plan.builds[t.entry]}
                       ELSE {plan.builds[t.entry], {}} :
          Un!Steps([t EXCEPT !.pc = "delete",
                             !.all = IF t.down THEN Un!Recorded(t.entry) \cup known ELSE {},
                             !.todo = IF t.down THEN Un!Recorded(t.entry) \cup known ELSE {}])
    BY <1>2 DEF Un!NoteDependencies
  <2> QED BY <2>1
<1>5. PICK S : S = IF t.down THEN Un!Recorded(t.entry) \cup known ELSE {}
  OBVIOUS
<1>6. PICK f1 : f1 = [t EXCEPT !.pc = "delete"]
  OBVIOUS
<1>12. PICK f2 : f2 = [f1 EXCEPT !.all = S]
  OBVIOUS
<1>13. PICK f : f = [f2 EXCEPT !.todo = S]
  OBVIOUS
<1>7. t.entry \in PortVersions
  BY <1>3 DEF UnFrame
<1>8. Uses(t.entry) \subseteq Nat
  BY <1>3, <1>7, UsesNat
<1>9. S \subseteq Uses(t.entry) /\ (~t.down => S = {})
  BY <1>5 DEF Un!Recorded, Uses
<1>10. S \in SUBSET Nat
  BY <1>8, <1>9
<1>14. f1 \in UnFrame /\ f1.entry = t.entry /\ f1.up = t.up /\ f1.down = t.down
       /\ f1.pc = "delete" /\ f1.remaining = t.remaining
  BY <1>3, <1>6 DEF UnFrame
<1>15. f2 \in UnFrame /\ f2.entry = t.entry /\ f2.up = t.up /\ f2.down = t.down
       /\ f2.pc = "delete" /\ f2.remaining = t.remaining /\ f2.all = S
  BY <1>10, <1>12, <1>14 DEF UnFrame
<1>11. /\ f \in UnFrame /\ f.entry = t.entry /\ f.up = t.up /\ f.down = t.down
       /\ f.pc = "delete" /\ f.remaining = t.remaining /\ f.all = S /\ f.todo = S
  BY <1>10, <1>13, <1>15 DEF UnFrame
<1>16. f = [t EXCEPT !.pc = "delete", !.all = S, !.todo = S]
  BY <1>3, <1>6, <1>12, <1>13 DEF UnFrame
<1>17. Fixed /\ stack' = Un!Top(f) /\ UNCHANGED <<installed, active>>
  BY <1>4, <1>5, <1>16 DEF Un!Steps, Fixed, Un!history
<1>18. t.remaining = {}
  BY <1>1, <1>2, <1>3 DEF Follows
<1>19. IsAsked(f)
  BY <1>3, <1>11 DEF IsAsked
<1>20. Follows(f)
  BY <1>9, <1>11, <1>18 DEF Follows
<1>21. Stands(f, {}, installed, active, forced')
  BY <1>1, <1>2, <1>3, <1>11 DEF Stands
<1> QED BY <1>1, <1>2, <1>11, <1>17, <1>19, <1>20, <1>21, UnGo

LEMMA UnDelete == UnInv /\ Un!Delete => UnInv'
<1> SUFFICES ASSUME UnInv, Un!Delete PROVE UnInv'
    OBVIOUS
<1>1. stack # <<>> /\ ~thrown /\ Un!top.pc = "delete" /\ UNCHANGED forced
  BY DEF Un!Delete, Un!At, Un!Running
<1>2. PICK t : t = Un!top
  OBVIOUS
<1>3. t \in UnFrame /\ IsAsked(t) /\ Follows(t) /\ Stands(t, {}, installed, active, forced)
      /\ Un!IsPlan(plan) /\ installed \subseteq before /\ active \subseteq installed
      /\ before \subseteq PortVersions
  BY <1>1, <1>2, TopCall
<1>4. CASE Un!Throw
  <2>1. Fixed /\ UNCHANGED <<stack, installed, active>> /\ thrown' /\ (forced => forced')
    BY <1>1, <1>4 DEF Fixed, Un!Throw, Un!history
  <2> QED BY <1>1, <2>1, UnThrow
<1>5. CASE /\ installed' = installed \ {t.entry}
           /\ stack' = Un!Top([t EXCEPT !.pc = "dependencies"])
           /\ UNCHANGED <<plan, active, thrown, faults>> /\ UNCHANGED Un!history
  <2>1. PICK f : f = [t EXCEPT !.pc = "dependencies"]
    OBVIOUS
  <2>2. /\ f \in UnFrame /\ f.entry = t.entry /\ f.up = t.up /\ f.down = t.down
        /\ f.pc = "dependencies" /\ f.todo = t.todo /\ f.all = t.all
        /\ f.remaining = t.remaining
    BY <1>3, <2>1 DEF UnFrame
  <2>3. Fixed /\ stack' = Un!Top(f) /\ installed' = installed \ {t.entry} /\ active' = active
    BY <1>5, <2>1 DEF Fixed, Un!history
  <2>4. IsAsked(f) /\ Follows(f)
    BY <1>1, <1>2, <1>3, <2>2 DEF IsAsked, Follows
  <2>5. Stands(f, {}, installed', active', forced')
    BY <1>1, <1>2, <1>3, <2>2, <2>3 DEF Stands
  <2>6. t.entry \notin active
    BY <1>1, <1>2, <1>3 DEF Stands
  <2>7. Un!NeededKept'
    <3> SUFFICES ASSUME ~forced', NEW d \in installed', NEW n \in plan.needs[d],
                        \E v \in plan.active : PortOf[v] = n
                 PROVE  \E v \in installed' \cap active' : PortOf[v] = n
      BY <2>3 DEF Un!NeededKept, Un!Versions, Fixed
    <3>1. Un!NeededKept
      BY DEF UnInv
    <3>2. PICK v \in installed \cap active : PortOf[v] = n
      BY <1>1, <2>3, <3>1 DEF Un!NeededKept, Un!Versions
    <3> QED BY <2>3, <2>6, <3>2
  <2>8. Un!OnlyAsked'
    <3>1. Un!OnlyAsked
      BY DEF UnInv
    <3>2. (Above = Un!Above({command.entry}) /\ Below = Un!Below({command.entry}))
          /\ (Above = Un!Above({command.entry}) /\ Below = Un!Below({command.entry}))'
      BY DEF Above, Below
    <3>3. t.entry \in before
          /\ (t.entry = command.entry \/ (command.up /\ t.entry \in Above)
              \/ (command.down /\ t.entry \in Below))
      BY <1>3 DEF IsAsked
    <3>4. t.entry = command.entry => t.entry \in Above
      BY <3>3, SelfReached
    <3>5. t.entry \in (IF command.up THEN Above ELSE {command.entry})
                      \cup (IF command.down THEN Below ELSE {})
      BY <3>3, <3>4
    <3>6. before \ installed \subseteq (IF command.up THEN Above ELSE {command.entry})
                                       \cup (IF command.down THEN Below ELSE {})
      BY <3>1, <3>2 DEF Un!OnlyAsked
    <3>7. before' \ installed' \subseteq (before \ installed) \cup {t.entry}
      BY <2>3 DEF Fixed
    <3>8. before' \ installed' \subseteq (IF command.up THEN Above ELSE {command.entry})
                                         \cup (IF command.down THEN Below ELSE {})
      BY <3>5, <3>6, <3>7
    <3> QED BY <2>3, <3>2, <3>8, AskedKept DEF Un!OnlyAsked, Fixed
  <2>9. f.entry = Un!top.entry /\ installed' \subseteq installed /\ active' \subseteq active
        /\ active' \subseteq installed' /\ (forced => forced')
    BY <1>1, <1>2, <1>3, <2>2, <2>3, <2>6
  <2> QED BY <1>1, <2>2, <2>3, <2>4, <2>5, <2>7, <2>8, <2>9, UnReplace
<1> QED BY <1>2, <1>4, <1>5 DEF Un!Delete

\* A step through the dependencies of what has been uninstalled: the call is
\* still where it was, or goes to the versions of one of them, or from it.
LEMMA UnOnward ==
    ASSUME UnInv, Fixed, stack # <<>>, ~thrown, NEW t, t = Un!top,
           t.pc \in {"dependencies", "versions"}, NEW f \in UnFrame, stack' = Un!Top(f),
           f.entry = t.entry, f.up = t.up, f.down = t.down,
           f.pc \in {"dependencies", "versions"}, Follows(f),
           UNCHANGED <<installed, active, forced>>
    PROVE  UnInv'
<1>1. IsAsked(t) /\ Stands(t, {}, installed, active, forced)
  BY TopCall
<1>2. IsAsked(f)
  BY <1>1 DEF IsAsked
<1>3. Stands(f, {}, installed, active, forced')
  BY <1>1 DEF Stands
<1> QED BY <1>2, <1>3, UnGo

LEMMA UnNextDependency == UnInv /\ Un!NextDependency => UnInv'
<1> SUFFICES ASSUME UnInv, Un!NextDependency PROVE UnInv'
    OBVIOUS
<1>1. stack # <<>> /\ ~thrown /\ Un!top.pc = "dependencies" /\ Un!top.todo # {}
      /\ UNCHANGED forced
  BY DEF Un!NextDependency, Un!At, Un!Running
<1>2. PICK t : t = Un!top
  OBVIOUS
<1>3. t \in UnFrame /\ Follows(t) /\ Un!IsPlan(plan) /\ installed \subseteq before
      /\ before \subseteq PortVersions
  BY <1>1, <1>2, TopCall
<1>4. PICK n : n = Un!Least(t.todo)
  OBVIOUS
<1>5. t.todo # {} /\ t.todo \subseteq Nat
  BY <1>1, <1>2, <1>3 DEF UnFrame
<1>6. n \in t.todo /\ n \in Nat
  BY <1>4, <1>5, LeastIn
<1>7. PICK V : V = Un!Versions(n)
  OBVIOUS
<1>8. V \in SUBSET Nat /\ \A v \in V : v \in before /\ PortOf[v] = n
  BY <1>3, <1>7, RegistriesAssumption DEF Un!Versions, Un!UninstallAssumption
<1>9. PICK to \in {"dependencies", "versions"} :
        to = IF V = {} THEN "dependencies" ELSE "versions"
  OBVIOUS
<1>10. Un!Steps([t EXCEPT !.todo = @ \ {n}, !.dep = n, !.versions = V, !.kept = FALSE, !.pc = to])
  BY <1>2, <1>4, <1>7, <1>9 DEF Un!NextDependency
<1>11. PICK f1 : f1 = [t EXCEPT !.todo = @ \ {n}]
  OBVIOUS
<1>12. PICK f2 : f2 = [f1 EXCEPT !.dep = n]
  OBVIOUS
<1>13. PICK f3 : f3 = [f2 EXCEPT !.versions = V]
  OBVIOUS
<1>14. PICK f4 : f4 = [f3 EXCEPT !.kept = FALSE]
  OBVIOUS
<1>15. PICK f : f = [f4 EXCEPT !.pc = to]
  OBVIOUS
<1>16. /\ f1 \in UnFrame /\ f1.entry = t.entry /\ f1.up = t.up /\ f1.down = t.down
       /\ f1.all = t.all /\ f1.remaining = t.remaining /\ f1.todo = t.todo \ {n}
  BY <1>3, <1>11 DEF UnFrame
<1>17. /\ f2 \in UnFrame /\ f2.entry = t.entry /\ f2.up = t.up /\ f2.down = t.down
       /\ f2.all = t.all /\ f2.remaining = t.remaining /\ f2.todo = t.todo \ {n} /\ f2.dep = n
  BY <1>6, <1>12, <1>16 DEF UnFrame
<1>18. /\ f3 \in UnFrame /\ f3.entry = t.entry /\ f3.up = t.up /\ f3.down = t.down
       /\ f3.all = t.all /\ f3.remaining = t.remaining /\ f3.todo = t.todo \ {n} /\ f3.dep = n
       /\ f3.versions = V
  BY <1>8, <1>13, <1>17 DEF UnFrame
<1>19. /\ f4 \in UnFrame /\ f4.entry = t.entry /\ f4.up = t.up /\ f4.down = t.down
       /\ f4.all = t.all /\ f4.remaining = t.remaining /\ f4.todo = t.todo \ {n} /\ f4.dep = n
       /\ f4.versions = V
  BY <1>14, <1>18 DEF UnFrame
<1>20. /\ f \in UnFrame /\ f.entry = t.entry /\ f.up = t.up /\ f.down = t.down
       /\ f.all = t.all /\ f.remaining = t.remaining /\ f.todo = t.todo \ {n} /\ f.dep = n
       /\ f.versions = V /\ f.pc = to
  BY <1>15, <1>19 DEF UnFrame
<1>21. f = [t EXCEPT !.todo = @ \ {n}, !.dep = n, !.versions = V, !.kept = FALSE, !.pc = to]
  BY <1>3, <1>11, <1>12, <1>13, <1>14, <1>15 DEF UnFrame
<1>22. Fixed /\ stack' = Un!Top(f) /\ UNCHANGED <<installed, active>>
  BY <1>10, <1>21 DEF Un!Steps, Fixed, Un!history
<1>23. \A x \in t.todo \cup t.all \cup t.remaining : t.down /\ x \in Uses(t.entry)
  BY <1>1, <1>2, <1>3 DEF Follows
<1>24. Follows(f)
  BY <1>6, <1>8, <1>9, <1>20, <1>23 DEF Follows
<1> QED BY <1>1, <1>2, <1>9, <1>20, <1>22, <1>24, UnOnward

LEMMA UnNextVersion == UnInv /\ Un!NextVersion => UnInv'
<1> SUFFICES ASSUME UnInv, Un!NextVersion PROVE UnInv'
    OBVIOUS
<1>1. stack # <<>> /\ ~thrown /\ Un!top.pc = "versions" /\ Un!top.versions # {}
      /\ UNCHANGED forced
  BY DEF Un!NextVersion, Un!At, Un!Running
<1>2. PICK t : t = Un!top
  OBVIOUS
<1>3. t \in UnFrame /\ IsAsked(t) /\ Follows(t) /\ Stands(t, {}, installed, active, forced)
      /\ Un!IsPlan(plan) /\ installed \subseteq before /\ before \subseteq PortVersions
  BY <1>1, <1>2, TopCall
<1>4. PICK v : v = Un!Least(t.versions)
  OBVIOUS
<1>5. t.versions # {} /\ t.versions \subseteq Nat
  BY <1>1, <1>2, <1>3 DEF UnFrame
<1>6. v \in t.versions
  BY <1>4, <1>5, LeastIn
<1>7. PICK f : f = [t EXCEPT !.versions = @ \ {v}]
  OBVIOUS
<1>8. PICK k : k = [f EXCEPT !.kept = TRUE]
  OBVIOUS
<1>9. /\ f \in UnFrame /\ f.entry = t.entry /\ f.up = t.up /\ f.down = t.down
      /\ f.all = t.all /\ f.remaining = t.remaining /\ f.todo = t.todo /\ f.dep = t.dep
      /\ f.versions = t.versions \ {v} /\ f.pc = "versions"
  BY <1>1, <1>2, <1>3, <1>7 DEF UnFrame
<1>10. /\ k \in UnFrame /\ k.entry = t.entry /\ k.up = t.up /\ k.down = t.down
       /\ k.all = t.all /\ k.remaining = t.remaining /\ k.todo = t.todo /\ k.dep = t.dep
       /\ k.versions = t.versions \ {v} /\ k.pc = "versions"
  BY <1>8, <1>9 DEF UnFrame
<1>11. Follows(f) /\ Follows(k)
  BY <1>1, <1>2, <1>3, <1>9, <1>10 DEF Follows
<1>12. \/ Un!Throw
       \/ Un!Steps(k)
       \/ Un!Steps(f)
       \/ /\ v \notin plan.requested /\ Un!CallFrom(Un!Top(f), v, FALSE, TRUE)
          /\ UNCHANGED <<plan, installed, active, thrown>> /\ UNCHANGED Un!history
  BY <1>2, <1>4, <1>7, <1>8 DEF Un!NextVersion
<1>13. CASE Un!Throw
  <2>1. Fixed /\ UNCHANGED <<stack, installed, active>> /\ thrown' /\ (forced => forced')
    BY <1>1, <1>13 DEF Fixed, Un!Throw, Un!history
  <2> QED BY <1>1, <2>1, UnThrow
<1>14. ASSUME NEW g \in {f, k}, Un!Steps(g) PROVE UnInv'
  <2>1. Fixed /\ stack' = Un!Top(g) /\ UNCHANGED <<installed, active>>
    BY <1>14 DEF Un!Steps, Fixed, Un!history
  <2>2. g \in UnFrame /\ g.entry = t.entry /\ g.up = t.up /\ g.down = t.down
        /\ g.pc \in {"dependencies", "versions"} /\ Follows(g)
    BY <1>9, <1>10, <1>11
  <2> QED BY <1>1, <1>2, <2>1, <2>2, UnOnward
<1>15. CASE /\ v \notin plan.requested /\ Un!CallFrom(Un!Top(f), v, FALSE, TRUE)
            /\ UNCHANGED <<plan, installed, active, thrown>> /\ UNCHANGED Un!history
  <2>1. Fixed
    BY <1>15 DEF Fixed, Un!history
  <2>2. PICK via \in {"target", "direct"} :
          stack' = Append(Un!Top(f), Un!Call(v, FALSE, TRUE, via))
    BY <1>15 DEF Un!CallFrom
  <2>3. PICK g : g = Un!Call(v, FALSE, TRUE, via)
    OBVIOUS
  <2>4. v \in before /\ PortOf[v] = t.dep /\ t.down /\ t.dep \in Uses(t.entry)
    BY <1>1, <1>2, <1>3, <1>6 DEF Follows
  <2>5. g \in UnFrame /\ g.entry = v /\ g.up = FALSE /\ g.down = TRUE /\ g.pc = "start"
        /\ g.remaining = {}
    BY <1>3, <2>3, <2>4 DEF Un!Call, UnFrame
  <2>6. t.entry \in Below /\ t.entry \in before /\ command.down
    BY <1>3, <2>4 DEF IsAsked
  <2>7. v \in Below
    BY <1>15, <2>4, <2>6, BelowClosed
  <2>8. IsAsked(g)
    BY <2>4, <2>5, <2>6, <2>7 DEF IsAsked
  <2>9. IsAsked(f)
    BY <1>3, <1>9 DEF IsAsked
  <2>10. Stands(f, {g.entry}, installed, active, forced)
    BY <1>1, <1>2, <1>3, <1>9 DEF Stands
  <2>11. stack' = Append(Un!Top(f), g)
    BY <2>2, <2>3
  <2>12. f.entry = Un!top.entry /\ f.pc \in {"dependents", "versions"}
    BY <1>2, <1>9
  <2>13. UNCHANGED <<installed, active, forced, thrown>>
    BY <1>1, <1>15
  <2> QED BY <1>1, <1>9, <1>11, <2>1, <2>5, <2>8, <2>9, <2>10, <2>11, <2>12, <2>13, UnCall
<1> QED BY <1>12, <1>13, <1>14, <1>15

LEMMA UnVersionsDone == UnInv /\ Un!VersionsDone => UnInv'
<1> SUFFICES ASSUME UnInv, Un!VersionsDone PROVE UnInv'
    OBVIOUS
<1>1. stack # <<>> /\ ~thrown /\ Un!top.pc = "versions" /\ UNCHANGED forced
  BY DEF Un!VersionsDone, Un!At, Un!Running
<1>2. PICK t : t = Un!top
  OBVIOUS
<1>3. t \in UnFrame /\ Follows(t)
  BY <1>1, <1>2, TopCall
<1>4. PICK R : R = IF t.kept THEN t.remaining \cup {t.dep} ELSE t.remaining
  OBVIOUS
<1>5. R \in SUBSET Nat /\ R \subseteq t.remaining \cup {t.dep}
  BY <1>3, <1>4 DEF UnFrame
<1>6. Un!Steps([t EXCEPT !.pc = "dependencies", !.remaining = R])
  BY <1>2, <1>4 DEF Un!VersionsDone
<1>7. PICK f : f = [t EXCEPT !.pc = "dependencies", !.remaining = R]
  OBVIOUS
<1>8. /\ f \in UnFrame /\ f.entry = t.entry /\ f.up = t.up /\ f.down = t.down
      /\ f.all = t.all /\ f.remaining = R /\ f.todo = t.todo /\ f.pc = "dependencies"
  BY <1>3, <1>5, <1>7 DEF UnFrame
<1>9. Fixed /\ stack' = Un!Top(f) /\ UNCHANGED <<installed, active>>
  BY <1>6, <1>7 DEF Un!Steps, Fixed, Un!history
<1>10. /\ \A x \in t.todo \cup t.all \cup t.remaining : t.down /\ x \in Uses(t.entry)
       /\ t.down /\ t.dep \in Uses(t.entry)
  BY <1>1, <1>2, <1>3 DEF Follows
<1>11. Follows(f)
  BY <1>5, <1>8, <1>10 DEF Follows
<1>12. t.pc \in {"dependencies", "versions"} /\ f.pc \in {"dependencies", "versions"}
  BY <1>1, <1>2, <1>8
<1> QED BY <1>1, <1>2, <1>8, <1>9, <1>11, <1>12, UnOnward

LEMMA UnAgain == UnInv /\ Un!Again => UnInv'
<1> SUFFICES ASSUME UnInv, Un!Again PROVE UnInv'
    OBVIOUS
<1>1. stack # <<>> /\ ~thrown /\ Un!top.pc = "dependencies" /\ UNCHANGED forced
  BY DEF Un!Again, Un!At, Un!Running
<1>2. PICK t : t = Un!top
  OBVIOUS
<1>3. t \in UnFrame /\ Follows(t)
  BY <1>1, <1>2, TopCall
<1>4. PICK R : R = t.remaining
  OBVIOUS
<1>5. Un!Steps([t EXCEPT !.all = R, !.todo = R, !.remaining = {}])
  BY <1>2, <1>4 DEF Un!Again
<1>6. PICK f1 : f1 = [t EXCEPT !.all = R]
  OBVIOUS
<1>7. PICK f2 : f2 = [f1 EXCEPT !.todo = R]
  OBVIOUS
<1>8. PICK f : f = [f2 EXCEPT !.remaining = {}]
  OBVIOUS
<1>9. /\ f1 \in UnFrame /\ f1.entry = t.entry /\ f1.up = t.up /\ f1.down = t.down
      /\ f1.all = R /\ f1.pc = "dependencies"
  BY <1>1, <1>2, <1>3, <1>4, <1>6 DEF UnFrame
<1>10. /\ f2 \in UnFrame /\ f2.entry = t.entry /\ f2.up = t.up /\ f2.down = t.down
       /\ f2.all = R /\ f2.todo = R /\ f2.pc = "dependencies"
  BY <1>3, <1>4, <1>7, <1>9 DEF UnFrame
<1>11. /\ f \in UnFrame /\ f.entry = t.entry /\ f.up = t.up /\ f.down = t.down
       /\ f.all = R /\ f.todo = R /\ f.remaining = {} /\ f.pc = "dependencies"
  BY <1>8, <1>10 DEF UnFrame
<1>12. f = [t EXCEPT !.all = R, !.todo = R, !.remaining = {}]
  BY <1>3, <1>6, <1>7, <1>8 DEF UnFrame
<1>13. Fixed /\ stack' = Un!Top(f) /\ UNCHANGED <<installed, active>>
  BY <1>5, <1>12 DEF Un!Steps, Fixed, Un!history
<1>14. \A x \in R : t.down /\ x \in Uses(t.entry)
  BY <1>1, <1>2, <1>3, <1>4 DEF Follows
<1>15. Follows(f)
  BY <1>11, <1>14 DEF Follows
<1>16. t.pc \in {"dependencies", "versions"} /\ f.pc \in {"dependencies", "versions"}
  BY <1>1, <1>2, <1>11
<1> QED BY <1>1, <1>2, <1>11, <1>13, <1>15, <1>16, UnOnward

LEMMA UnReturn == UnInv /\ Un!Return => UnInv'
<1> SUFFICES ASSUME UnInv, Un!Return PROVE UnInv'
    OBVIOUS
<1>1. stack # <<>> /\ ~thrown /\ Un!top.pc = "dependencies" /\ UNCHANGED <<forced, thrown>>
      /\ stack' = SubSeq(stack, 1, Len(stack) - 1)
      /\ UNCHANGED <<plan, installed, active, command, before>>
  BY DEF Un!Return, Un!Leave, Un!At, Un!Running
<1>2. Stands(Un!top, {}, installed, active, forced)
  BY <1>1, TopCall
<1>3. Un!top.entry \notin installed
  BY <1>1, <1>2 DEF Stands
<1>4. Fixed /\ UNCHANGED <<installed, active, forced>> /\ ~thrown'
  BY <1>1 DEF Fixed
<1> QED BY <1>1, <1>3, <1>4, UnPop

LEMMA UnUnwind == UnInv /\ Un!Unwind => UnInv'
<1> SUFFICES ASSUME UnInv, Un!Unwind PROVE UnInv'
    OBVIOUS
<1>1. UnTypes /\ stack # <<>> /\ thrown
  BY DEF UnInv, UnTypes, Un!Unwind
<1>2. PICK t : t = Un!top
  OBVIOUS
<1>3. t \in UnFrame /\ IsAsked(t) /\ Follows(t)
  BY <1>1, <1>2, TopCall
<1>4. CASE t.entry \notin installed /\ Un!Leave("ok") /\ thrown' = FALSE
  <2>1. Fixed /\ UNCHANGED <<installed, active, forced>> /\ ~thrown'
        /\ stack' = SubSeq(stack, 1, Len(stack) - 1)
    BY <1>4 DEF Fixed, Un!Leave
  <2>2. Un!top.entry \notin installed
    BY <1>2, <1>4
  <2> QED BY <1>1, <2>1, <2>2, UnPop
<1>5. CASE Un!Leave("error") /\ thrown' = (Len(stack) > 1)
  <2>1. Fixed /\ UNCHANGED <<installed, active, forced>>
        /\ stack' = SubSeq(stack, 1, Len(stack) - 1)
    BY <1>5 DEF Fixed, Un!Leave
  <2>2. CASE Len(stack) > 1
    <3>1. thrown'
      BY <1>5, <2>2
    <3> QED BY <1>1, <2>1, <2>2, <3>1, UnPop
  <2>3. CASE ~(Len(stack) > 1)
    <3>1. ~thrown' /\ Len(stack) = 1
      <4>1. Len(stack) \in Nat \ {0}
        BY <1>1, EmptySeq DEF UnTypes
      <4>2. Len(stack) = 1
        <5>1. PICK n \in Nat \ {0} : n = Len(stack)
          BY <4>1
        <5>2. ~(n > 1)
          BY <2>3, <5>1
        <5>3. n = 1
          BY <5>2
        <5> QED BY <5>1, <5>3
      <4>3. ~thrown'
        BY <1>5, <2>3
      <4> QED BY <4>2, <4>3
    <3>2. stack' \in Seq(UnFrame) /\ Len(stack') = 0 /\ stack' = <<>>
      BY <1>1, <2>1, <3>1, PopSeq DEF UnTypes
    <3>3. UnTypes'
      BY <1>1, <2>1, <3>1, <3>2 DEF UnTypes, Fixed
    <3>4. UnCalls'
      BY <3>2 DEF UnCalls
    <3>5. Un!NeededKept' /\ Un!OnlyAsked'
      BY <2>1, UnSame
    <3> QED BY <3>3, <3>4, <3>5 DEF UnInv
  <2> QED BY <2>2, <2>3
<1>6. CASE /\ stack' = Un!Top(Un!Call(t.entry, t.up, t.down, "direct"))
           /\ thrown' = FALSE
           /\ UNCHANGED <<plan, installed, active, forced, faults>> /\ UNCHANGED Un!history
  <2>1. PICK f : f = Un!Call(t.entry, t.up, t.down, "direct")
    OBVIOUS
  <2>2. /\ f \in UnFrame /\ f.entry = t.entry /\ f.up = t.up /\ f.down = t.down
        /\ f.pc = "start" /\ f.remaining = {}
    BY <1>3, <2>1 DEF Un!Call, UnFrame
  <2>3. Fixed /\ stack' = Un!Top(f) /\ UNCHANGED <<installed, active>> /\ (forced => forced')
    BY <1>6, <2>1 DEF Fixed, Un!history
  <2>4. IsAsked(f) /\ Follows(f) /\ Stands(f, {}, installed, active, forced')
    BY <1>3, <2>2 DEF IsAsked, Follows, Stands
  <2> QED BY <1>1, <1>2, <2>2, <2>3, <2>4, UnGo
<1> QED BY <1>2, <1>4, <1>5, <1>6 DEF Un!Unwind

LEMMA UnStep == UnInv /\ Un!Next => UnInv'
BY UnCommand, UnStart, UnDependents, UnDeactivate, UnNote, UnDelete, UnNextDependency,
   UnNextVersion, UnVersionsDone, UnAgain, UnReturn, UnUnwind DEF Un!Next, Un!Run

-----------------------------------------------------------------------------
(* Upgrading: what has gone, and what is about to come in its place.        *)

UpFrame ==
    [port : Nat, new : Nat, nodeps : BOOLEAN, follow : BOOLEAN, fresh : BOOLEAN,
     pc : {"look", "deps", "install", "clear", "deactivate", "activate", "dependents", "old"},
     ilist : SUBSET Nat, was : Nat, install : BOOLEAN, build : BOOLEAN, clear : BOOLEAN,
     todo : SUBSET Nat]
UpTypes ==
    /\ plan \in Upgrades /\ stack \in Seq(UpFrame)
    /\ installed \subseteq PortNumbers \X Nat /\ active \subseteq PortNumbers \X Nat
    /\ \A d, e \in active : d[1] = e[1] => d = e

\* A call has marked its ports as done before it makes others; it uninstalls what
\* it builds again, or old versions.
Marked(f) ==
    /\ f.pc = "look" => f.port \notin depscache /\ f.new = f.port /\ ~f.fresh /\ ~f.clear
    /\ f.pc # "look" => f.port \in PortNumbers /\ f.new \in PortNumbers
    /\ f.pc # "look" /\ ~f.fresh =>
         f.port \in depscache /\ f.new \in depscache /\ f.new = plan.replaced[f.port]
    /\ f.fresh => ~f.clear /\ f.pc \in {"deps", "activate"}
    /\ f.clear => f.new = f.port /\ (plan.force \/ f.new \in plan.override)
    /\ f.pc = "old" => plan.old /\ f.install /\ f.new = f.port
                       /\ plan.tree[f.port] \notin f.todo
\* What it has activated is still active, or could not be activated.
StaysDone(f) ==
    f.pc \in {"dependents", "old"} /\ f.install /\ f.new = f.port =>
        f.new \in broken \/ Up!Of(f.new) \in active
UpCalls ==
    \A i \in 1 .. Len(stack) :
        /\ i < Len(stack) => stack[i].pc \in {"deps", "dependents"}
        /\ Marked(stack[i]) /\ StaysDone(stack[i])
        /\ \A j \in 1 .. Len(stack) :
             i # j /\ ~stack[i].fresh /\ ~stack[j].fresh => stack[i].port # stack[j].port

\* A port that was active is, or it comes with the next steps.
Successors(e) == {e[1], plan.replaced[e[1]]}
Kept(e) ==
    \E n \in Successors(e) : n \in broken \/ Up!IsActive(n)
Awaits(f, e) ==
    /\ f.pc \in {"deactivate", "activate"} /\ ~f.fresh /\ f.new \in Successors(e)
    /\ f.pc = "deactivate" => f.new = f.port
Coming(e) == stack # <<>> /\ Awaits(stack[Len(stack)], e)
UpInv ==
    UpTypes /\ UpCalls /\ Up!OnlyOldGone /\ \A e \in plan.active : Kept(e) \/ Coming(e)

LEMMA LeastUp == ASSUME NEW S, S \subseteq Nat, S # {} PROVE Up!Least(S) \in S
<1>1. Un!Least(S) = Up!Least(S)
  BY DEF Un!Least, Up!Least
<1> QED BY <1>1, LeastIn

LEMMA UpPlan ==
    ASSUME UpTypes
    PROVE  /\ Up!IsPlan(plan) /\ PortNumbers \subseteq Nat
           /\ \A q \in PortNumbers :
                /\ plan.tree[q] \in Nat /\ plan.deps[q] \subseteq PortNumbers
                /\ plan.replaced[q] \in PortNumbers
                /\ plan.replaced[plan.replaced[q]] = plan.replaced[q]
                /\ plan.force => plan.replaced[q] = q
           /\ plan.indexed \subseteq PortNumbers
           /\ plan.nodeps \in BOOLEAN /\ plan.follow \in BOOLEAN
<1>1. plan \in Upgrades
  BY DEF UpTypes
<1>2. Up!IsPlan(plan) /\ PortNumbers \subseteq Nat
  BY <1>1, UpgradesAssumption DEF Up!UpgradeAssumption
<1>3. \A q \in PortNumbers :
        plan.replaced[plan.replaced[q]] = plan.replaced[q] /\ (plan.force => plan.replaced[q] = q)
  BY <1>1, ReplacementsAssumption
<1>4. /\ plan.tree \in [PortNumbers -> Nat \ {0}] /\ plan.deps \in [PortNumbers -> SUBSET PortNumbers]
      /\ plan.replaced \in [PortNumbers -> PortNumbers] /\ plan.indexed \subseteq PortNumbers
      /\ plan.nodeps \in BOOLEAN /\ plan.follow \in BOOLEAN
  BY <1>2 DEF Up!IsPlan
<1> QED BY <1>2, <1>3, <1>4

LEMMA IsActiveIs == \A n : Up!IsActive(n) <=> \E e \in active : e[1] = n
BY DEF Up!IsActive, Up!VersionsIn

\* The ports P may lose their active version, the others do not, unless they could
\* not be activated.
Losing(P) ==
    \A n : n \notin P =>
        /\ Up!IsActive(n) => Up!IsActive(n)' \/ n \in broken'
        /\ Up!Of(n) \in active => Up!Of(n)' \in active' \/ n \in broken'
Grows ==
    /\ plan' = plan /\ broken \subseteq broken' /\ depscache \subseteq depscache'
    /\ installed' \subseteq PortNumbers \X Nat /\ active' \subseteq PortNumbers \X Nat
    /\ \A d, e \in active' : d[1] = e[1] => d = e
    /\ Up!OnlyOldGone'

LEMMA KeptOn ==
    ASSUME Grows, NEW P, Losing(P), NEW e, Kept(e), P \cap Successors(e) = {} PROVE Kept(e)'
<1>1. Successors(e)' = Successors(e)
  BY DEF Successors, Grows
<1>2. PICK n \in Successors(e) : n \in broken \/ Up!IsActive(n)
  BY DEF Kept
<1>3. n \in broken' \/ Up!IsActive(n)'
  BY <1>2 DEF Losing, Grows
<1> QED BY <1>1, <1>3 DEF Kept

\* The calls below the innermost one.
LEMMA UpLower ==
    ASSUME UpInv, Grows, NEW P, Losing(P), stack # <<>>, P \subseteq {Up!top.port},
           Up!top.fresh => P = {}
    PROVE  \A i \in 1 .. Len(stack) - 1, g \in UpFrame : g = stack[i] =>
               g.pc \in {"deps", "dependents"} /\ Marked(g)' /\ StaysDone(g)'
<1> SUFFICES ASSUME NEW i \in 1 .. Len(stack) - 1, NEW g \in UpFrame, g = stack[i]
             PROVE  g.pc \in {"deps", "dependents"} /\ Marked(g)' /\ StaysDone(g)'
    OBVIOUS
<1>1. UpTypes /\ UpCalls
  BY DEF UpInv
<1>2. PICK n : n = Len(stack)
  OBVIOUS
<1>3. n \in Nat /\ i < n /\ n \in 1 .. Len(stack) /\ i \in 1 .. Len(stack) /\ i # n
      /\ Up!top = stack[n]
  BY <1>1, <1>2, LastOf DEF UpTypes, Up!top
<1>4. g = stack[i]
  OBVIOUS
<1>5. PICK t : t = stack[n]
  OBVIOUS
<1>6. g.pc \in {"deps", "dependents"} /\ Marked(g) /\ StaysDone(g)
  BY <1>1, <1>2, <1>3, <1>4 DEF UpCalls
<1>7. ~g.fresh /\ ~t.fresh => g.port # t.port
  BY <1>1, <1>3, <1>4, <1>5 DEF UpCalls
<1>8. Marked(g)'
  BY <1>6 DEF Marked, Grows
<1>9. StaysDone(g)'
  <2> SUFFICES ASSUME g.pc \in {"dependents", "old"}, g.install, g.new = g.port
               PROVE  g.new \in broken' \/ Up!Of(g.new)' \in active'
    BY DEF StaysDone
  <2>1. g.new \in broken \/ Up!Of(g.new) \in active
    BY <1>6 DEF StaysDone
  <2>2. ~g.fresh
    BY <1>6 DEF Marked
  <2>3. g.new \notin P
    BY <1>3, <1>5, <1>7, <2>2
  <2>4. PICK x : x = g.new
    OBVIOUS
  <2>5. Up!Of(x) \in active => Up!Of(x)' \in active' \/ x \in broken'
    BY <2>3, <2>4 DEF Losing
  <2>6. x \in broken => x \in broken'
    BY DEF Grows
  <2>7. x \in broken' \/ Up!Of(x)' \in active'
    BY <2>1, <2>4, <2>5, <2>6
  <2>8. Up!Of(x)' = Up!Of(g.new)'
    BY <2>4 DEF Up!Of
  <2> QED BY <2>4, <2>7 DEF Up!Of
<1> QED BY <1>4, <1>6, <1>8, <1>9

LEMMA UpReplace ==
    ASSUME UpInv, Grows, NEW P, Losing(P), stack # <<>>, P \subseteq {Up!top.port},
           Up!top.fresh => P = {}, NEW f \in UpFrame, stack' = Up!Top(f),
           f.port = Up!top.port, Up!top.fresh => f.fresh,
           Marked(f)', StaysDone(f)',
           \A e \in plan.active : Kept(e)' \/ Awaits(f, e)'
    PROVE  UpInv'
<1>1. UpTypes /\ UpCalls
  BY DEF UpInv
<1>2. PICK n : n = Len(stack)
  OBVIOUS
<1>3. n \in Nat /\ n \in 1 .. n
  BY <1>1, <1>2, LastOf DEF UpTypes
<1>4. /\ stack' \in Seq(UpFrame) /\ Len(stack') = n /\ stack' # <<>> /\ stack'[n] = f
      /\ \A i \in 1 .. n : i # n => stack'[i] = stack[i]
  BY <1>1, <1>2, TopSeq DEF UpTypes, Up!Top
<1>5. UpTypes'
  BY <1>1, <1>4 DEF UpTypes, Grows
<1>6. PICK t : t = Up!top /\ t = stack[n]
  BY <1>2 DEF Up!top
<1>7. \A i \in 1 .. n : ~stack'[i].fresh => ~stack[i].fresh /\ stack'[i].port = stack[i].port
  <2> TAKE i \in 1 .. n
  <2>1. CASE i = n
    BY <1>4, <1>6, <2>1
  <2>2. CASE i # n
    BY <1>4, <2>2
  <2> QED BY <2>1, <2>2
<1>8. \A i, j \in 1 .. n : i # j /\ ~stack[i].fresh /\ ~stack[j].fresh => stack[i].port # stack[j].port
  BY <1>1, <1>2 DEF UpCalls
<1>13. \A i \in 1 .. Len(stack) - 1, g \in UpFrame : g = stack[i] =>
           g.pc \in {"deps", "dependents"} /\ Marked(g)' /\ StaysDone(g)'
  BY UpLower
<1>9. ASSUME NEW i \in 1 .. n
      PROVE  /\ i < n => stack'[i].pc \in {"deps", "dependents"}
             /\ Marked(stack[i])' /\ StaysDone(stack[i])'
             /\ \A j \in 1 .. n :
                  i # j /\ ~stack'[i].fresh /\ ~stack'[j].fresh => stack'[i].port # stack'[j].port
  <2>1. \A j \in 1 .. n :
          i # j /\ ~stack'[i].fresh /\ ~stack'[j].fresh => stack'[i].port # stack'[j].port
    BY <1>7, <1>8
  <2>2. CASE i = n
    <3>1. ~(i < n) /\ stack'[i] = f
      BY <1>3, <1>4, <2>2
    <3>2. Marked(stack[i])' /\ StaysDone(stack[i])'
      BY <3>1
    <3> QED BY <2>1, <3>1, <3>2
  <2>3. CASE i # n
    <3>1. i \in 1 .. Len(stack) - 1
      BY <1>2, <1>3, <2>3
    <3>2. PICK g : g = stack[i]
      OBVIOUS
    <3>6. g \in UpFrame
      BY <1>1, <1>2, <3>2 DEF UpTypes
    <3>3. g.pc \in {"deps", "dependents"} /\ Marked(g)' /\ StaysDone(g)'
      BY <1>13, <3>1, <3>2, <3>6
    <3>4. stack'[i] = g
      BY <1>4, <2>3, <3>2
    <3>5. Marked(stack[i])' /\ StaysDone(stack[i])'
      BY <3>3, <3>4
    <3> QED BY <2>1, <3>3, <3>4, <3>5
  <2> QED BY <2>2, <2>3
<1>10. UpCalls'
  BY <1>4, <1>9 DEF UpCalls
<1>11. Up!OnlyOldGone' /\ plan' = plan
  BY DEF Grows
<1>12. \A e \in plan'.active : Kept(e)' \/ Coming(e)'
  <2> TAKE e \in plan'.active
  <2>1. Kept(e)' \/ Awaits(f, e)'
    BY <1>11
  <2>2. ASSUME Awaits(f, e)' PROVE Coming(e)'
    <3>1. Awaits(stack[Len(stack)], e)'
      BY <1>4, <2>2 DEF Awaits
    <3> QED BY <1>4, <3>1 DEF Coming
  <2> QED BY <2>1, <2>2
<1> QED BY <1>5, <1>10, <1>11, <1>12 DEF UpInv

LEMMA UpPop ==
    ASSUME UpInv, Grows, NEW P, Losing(P), stack # <<>>, P \subseteq {Up!top.port},
           Up!top.fresh => P = {}, stack' = SubSeq(stack, 1, Len(stack) - 1),
           \A e \in plan.active : Kept(e)'
    PROVE  UpInv'
<1>1. UpTypes /\ UpCalls
  BY DEF UpInv
<1>2. PICK n : n = Len(stack) - 1
  OBVIOUS
<1>3. n \in Nat /\ Len(stack) = n + 1
  BY <1>1, <1>2, EmptySeq DEF UpTypes
<1>4. /\ stack' \in Seq(UpFrame) /\ Len(stack') = n
      /\ \A i \in 1 .. n : stack'[i] = stack[i]
  BY <1>1, <1>2, <1>3, PopSeq DEF UpTypes
<1>5. UpTypes'
  BY <1>1, <1>4 DEF UpTypes, Grows
<1>6. \A i, j \in 1 .. n : i # j /\ ~stack[i].fresh /\ ~stack[j].fresh => stack[i].port # stack[j].port
  BY <1>1, <1>3 DEF UpCalls
<1>13. \A i \in 1 .. Len(stack) - 1, g \in UpFrame : g = stack[i] =>
           g.pc \in {"deps", "dependents"} /\ Marked(g)' /\ StaysDone(g)'
  BY UpLower
<1>7. ASSUME NEW i \in 1 .. n
      PROVE  /\ stack'[i].pc \in {"deps", "dependents"}
             /\ Marked(stack[i])' /\ StaysDone(stack[i])'
             /\ \A j \in 1 .. n :
                  i # j /\ ~stack'[i].fresh /\ ~stack'[j].fresh => stack'[i].port # stack'[j].port
  <2>1. PICK g : g = stack[i]
    OBVIOUS
  <2>2. i \in 1 .. Len(stack) - 1
    BY <1>2
  <2>3. g.pc \in {"deps", "dependents"} /\ Marked(g)' /\ StaysDone(g)'
    <3>1. g \in UpFrame
      BY <1>1, <1>3, <2>1 DEF UpTypes
    <3> QED BY <1>13, <2>1, <2>2, <3>1
  <2>4. stack'[i] = g
    BY <1>4, <2>1
  <2>5. Marked(stack[i])' /\ StaysDone(stack[i])'
    BY <2>3, <2>4
  <2>6. \A j \in 1 .. n :
          i # j /\ ~stack'[i].fresh /\ ~stack'[j].fresh => stack'[i].port # stack'[j].port
    BY <1>4, <1>6
  <2> QED BY <2>3, <2>4, <2>5, <2>6
<1>8. UpCalls'
  BY <1>4, <1>7 DEF UpCalls
<1>9. Up!OnlyOldGone' /\ plan' = plan
  BY DEF Grows
<1> QED BY <1>5, <1>8, <1>9 DEF UpInv

\* What is known of the innermost call.
LEMMA UpTopCall ==
    ASSUME UpInv, stack # <<>>
    PROVE  /\ Up!top \in UpFrame /\ Marked(Up!top) /\ StaysDone(Up!top)
           /\ UpTypes /\ Up!OnlyOldGone
           /\ \A e \in plan.active : Kept(e) \/ Awaits(Up!top, e)
<1>1. UpTypes /\ UpCalls /\ Up!OnlyOldGone /\ \A e \in plan.active : Kept(e) \/ Coming(e)
  BY DEF UpInv
<1>2. PICK n : n = Len(stack)
  OBVIOUS
<1>3. n \in 1 .. Len(stack) /\ stack[n] \in UpFrame /\ Up!top = stack[n]
  BY <1>1, <1>2, LastOf DEF UpTypes, Up!top
<1>4. Marked(stack[n]) /\ StaysDone(stack[n])
  BY <1>1, <1>3 DEF UpCalls
<1>5. \A e \in plan.active : Kept(e) \/ Awaits(stack[n], e)
  BY <1>1, <1>2 DEF Coming
<1> QED BY <1>1, <1>3, <1>4, <1>5

\* Steps that change no entry.
LEMMA UpSame ==
    ASSUME UpInv, UNCHANGED <<plan, installed, active>>, broken \subseteq broken',
           depscache \subseteq depscache'
    PROVE  /\ Grows /\ Losing({})
           /\ \A e : Kept(e) => Kept(e)'
           /\ \A f, e : Awaits(f, e) => Awaits(f, e)'
<1>1. UpTypes /\ Up!OnlyOldGone
  BY DEF UpInv
<1>2. Up!OnlyOldGone'
  BY <1>1 DEF Up!OnlyOldGone, Up!Of
<1>3. Grows
  BY <1>1, <1>2 DEF Grows, UpTypes
<1>4. Losing({})
  BY DEF Losing, Up!IsActive, Up!VersionsIn, Up!Of
<1>5. \A e : Kept(e) => Kept(e)'
  <2> SUFFICES ASSUME NEW e, Kept(e) PROVE Kept(e)'
    OBVIOUS
  <2>1. {} \cap Successors(e) = {}
    OBVIOUS
  <2> QED BY <1>3, <1>4, <2>1, KeptOn
<1>6. \A f, e : Awaits(f, e) => Awaits(f, e)'
  BY DEF Awaits, Successors
<1> QED BY <1>3, <1>4, <1>5, <1>6

LEMMA UpPush ==
    ASSUME UpInv, UNCHANGED <<plan, installed, active, broken, depscache>>, stack # <<>>,
           NEW f \in UpFrame, NEW g \in UpFrame, stack' = Append(Up!Top(f), g),
           f.port = Up!top.port, f.fresh = Up!top.fresh, f.pc \in {"deps", "dependents"},
           Up!top.pc \in {"deps", "dependents"}, Marked(f)', StaysDone(f)',
           g.pc = "look", Marked(g)'
    PROVE  UpInv'
<1>1. UpTypes /\ UpCalls
  BY DEF UpInv
<1>2. PICK n : n = Len(stack)
  OBVIOUS
<1>3. n \in Nat /\ n \in 1 .. n /\ n > 0
  BY <1>1, <1>2, LastOf DEF UpTypes
<1>4. PICK t : t = Up!Top(f)
  OBVIOUS
<1>5. /\ t \in Seq(UpFrame) /\ Len(t) = n /\ t[n] = f
      /\ \A i \in 1 .. n : i # n => t[i] = stack[i]
  BY <1>1, <1>2, <1>4, TopSeq DEF UpTypes, Up!Top
<1>6. /\ stack' \in Seq(UpFrame) /\ Len(stack') = n + 1 /\ stack' # <<>>
      /\ stack'[n + 1] = g /\ stack'[n] = f
      /\ \A i \in 1 .. n : i # n => stack'[i] = stack[i]
  <2>1. PICK u : u = Append(t, g)
    OBVIOUS
  <2>2. u \in Seq(UpFrame) /\ Len(u) = Len(t) + 1 /\ u # <<>> /\ u[Len(u)] = g
        /\ \A i \in 1 .. Len(t) : u[i] = t[i]
    BY <1>5, <2>1, CallSeq
  <2>3. u = stack'
    BY <1>4, <2>1
  <2> QED BY <1>3, <1>5, <2>2, <2>3
<1>7. Grows /\ Losing({}) /\ \A e : Kept(e) => Kept(e)'
  BY UpSame
<1>8. UpTypes'
  BY <1>1, <1>6 DEF UpTypes
<1>9. \A i \in 1 .. Len(stack) - 1, h \in UpFrame : h = stack[i] =>
          h.pc \in {"deps", "dependents"} /\ Marked(h)' /\ StaysDone(h)'
  <2>1. {} \subseteq {Up!top.port}
    OBVIOUS
  <2> QED BY <1>7, <2>1, UpLower
<1>10. ASSUME NEW i \in 1 .. n
       PROVE  /\ stack'[i].pc \in {"deps", "dependents"}
              /\ Marked(stack[i])' /\ StaysDone(stack[i])'
  <2>1. CASE i = n
    <3>1. stack'[i] = f
      BY <1>6, <2>1
    <3>2. Marked(stack[i])' /\ StaysDone(stack[i])'
      BY <3>1
    <3> QED BY <3>1, <3>2
  <2>2. CASE i # n
    <3>1. i \in 1 .. Len(stack) - 1
      BY <1>2, <1>3, <2>2
    <3>2. PICK h : h = stack[i]
      OBVIOUS
    <3>3. h \in UpFrame
      BY <1>1, <1>2, <3>2 DEF UpTypes
    <3>4. h.pc \in {"deps", "dependents"} /\ Marked(h)' /\ StaysDone(h)'
      BY <1>9, <3>1, <3>2, <3>3
    <3>5. stack'[i] = h
      BY <1>6, <2>2, <3>2
    <3>6. Marked(stack[i])' /\ StaysDone(stack[i])'
      BY <3>4, <3>5
    <3> QED BY <3>4, <3>5, <3>6
  <2> QED BY <2>1, <2>2
<1>11. \A i \in 1 .. n : stack'[i].fresh = stack[i].fresh /\ stack'[i].port = stack[i].port
  <2> TAKE i \in 1 .. n
  <2>1. Up!top = stack[n]
    BY <1>2 DEF Up!top
  <2>2. CASE i = n
    BY <1>6, <2>1, <2>2
  <2>3. CASE i # n
    BY <1>6, <2>3
  <2> QED BY <2>2, <2>3
<1>12. \A i \in 1 .. n : ~stack'[i].fresh => stack'[i].port \in depscache
  <2> SUFFICES ASSUME NEW i \in 1 .. n, ~stack'[i].fresh PROVE stack'[i].port \in depscache
    OBVIOUS
  <2>1. PICK h : h = stack'[i]
    OBVIOUS
  <2>2. h.pc \in {"deps", "dependents"} /\ ~h.fresh
    BY <1>10, <2>1
  <2>3. Marked(stack[i])'
    BY <1>10
  <2>4. Marked(h)'
    BY <2>1, <2>3
  <2> QED BY <2>1, <2>2, <2>4 DEF Marked
<1>13. g.port \notin depscache /\ ~g.fresh
  BY DEF Marked
<1>14. \A i, j \in 1 .. n : i # j /\ ~stack[i].fresh /\ ~stack[j].fresh => stack[i].port # stack[j].port
  BY <1>1, <1>2 DEF UpCalls
<1>15. \A i, j \in 1 .. n + 1 :
         i # j /\ ~stack'[i].fresh /\ ~stack'[j].fresh => stack'[i].port # stack'[j].port
  <2> TAKE i, j \in 1 .. n + 1
  <2>1. CASE i \in 1 .. n /\ j \in 1 .. n
    BY <1>11, <1>14, <2>1
  <2>2. CASE i = n + 1 /\ j \in 1 .. n
    BY <1>6, <1>12, <1>13, <2>2
  <2>3. CASE j = n + 1 /\ i \in 1 .. n
    BY <1>6, <1>12, <1>13, <2>3
  <2>4. CASE i = n + 1 /\ j = n + 1
    BY <2>4
  <2>5. (i = n + 1 \/ i \in 1 .. n) /\ (j = n + 1 \/ j \in 1 .. n)
    BY <1>3
  <2> QED BY <2>1, <2>2, <2>3, <2>4, <2>5
<1>16. StaysDone(g)'
  BY DEF StaysDone
<1>17. ASSUME NEW i \in 1 .. n + 1
       PROVE  /\ i < n + 1 => stack'[i].pc \in {"deps", "dependents"}
              /\ Marked(stack[i])' /\ StaysDone(stack[i])'
  <2>1. CASE i \in 1 .. n
    BY <1>10, <2>1
  <2>2. CASE i = n + 1
    <3>1. stack'[i] = g /\ ~(i < n + 1)
      BY <1>3, <1>6, <2>2
    <3>2. Marked(stack[i])' /\ StaysDone(stack[i])'
      BY <1>16, <3>1
    <3> QED BY <3>1, <3>2
  <2>3. i = n + 1 \/ i \in 1 .. n
    BY <1>3
  <2> QED BY <2>1, <2>2, <2>3
<1>18. UpCalls'
  BY <1>6, <1>15, <1>17 DEF UpCalls
<1>19. \A e \in plan.active : Kept(e)'
  <2>1. \A e \in plan.active : Kept(e) \/ Awaits(Up!top, e)
    BY UpTopCall
  <2>2. \A e \in plan.active : Kept(e)
    BY <2>1 DEF Awaits
  <2> QED BY <1>7, <2>2
<1> QED BY <1>7, <1>8, <1>18, <1>19 DEF UpInv, Grows

LEMMA UpInit == Up!Init => UpInv
<1> SUFFICES ASSUME Up!Init PROVE UpInv
    OBVIOUS
<1>1. /\ plan \in Upgrades /\ installed = plan.installed /\ active = plan.active /\ stack = <<>>
  BY DEF Up!Init
<1>2. Up!IsPlan(plan)
  BY <1>1, UpgradesAssumption DEF Up!UpgradeAssumption
<1>3. /\ plan.installed \subseteq PortNumbers \X (Nat \ {0})
      /\ plan.active \subseteq plan.installed
      /\ \A d, e \in plan.active : d[1] = e[1] => d = e
  BY <1>2 DEF Up!IsPlan
<1>4. PortNumbers \X (Nat \ {0}) \subseteq PortNumbers \X Nat
  OBVIOUS
<1>5. stack \in Seq(UpFrame) /\ Len(stack) = 0
  BY <1>1
<1>6. UpTypes
  BY <1>1, <1>3, <1>4, <1>5 DEF UpTypes
<1>7. UpCalls
  BY <1>5 DEF UpCalls
<1>8. Up!OnlyOldGone
  BY <1>1 DEF Up!OnlyOldGone
<1>9. \A e \in plan.active : Kept(e)
  <2> TAKE e \in plan.active
  <2>1. Up!IsActive(e[1])
    BY <1>1, IsActiveIs
  <2> QED BY <2>1 DEF Kept, Successors
<1> QED BY <1>6, <1>7, <1>8, <1>9 DEF UpInv

LEMMA UpGone ==
    ASSUME UpInv, plan' = plan, broken \subseteq broken', depscache \subseteq depscache',
           installed' \subseteq PortNumbers \X Nat, active' \subseteq PortNumbers \X Nat,
           \A d, e \in active' : d[1] = e[1] => d = e,
           \A e \in installed : e \in installed' \/
               (e[1] \in depscache' /\ ((plan.old /\ e # Up!Of(e[1])) \/ plan.force
                                        \/ e[1] \in plan.override))
    PROVE  Grows
<1>1. Up!OnlyOldGone
  BY DEF UpInv
<1>2. Up!OnlyOldGone'
  <2>1. ASSUME NEW e \in plan.installed, e \notin installed'
        PROVE  e[1] \in depscache' /\ ((plan.old /\ e # Up!Of(e[1])) \/ plan.force
                                        \/ e[1] \in plan.override)
    <3>1. CASE e \in installed
      BY <2>1, <3>1
    <3>2. CASE e \notin installed
      <4>1. e[1] \in depscache /\ ((plan.old /\ e # Up!Of(e[1])) \/ plan.force
                                        \/ e[1] \in plan.override)
        BY <1>1, <3>2 DEF Up!OnlyOldGone
      <4> QED BY <4>1
    <3> QED BY <3>1, <3>2
  <2>2. \A p : Up!Of(p)' = Up!Of(p)
    BY DEF Up!Of
  <2> QED BY <2>1, <2>2 DEF Up!OnlyOldGone
<1> QED BY <1>2 DEF Grows

\* Activating S, and perhaps losing what could not be activated.
LEMMA UpActivated ==
    ASSUME UpInv, NEW S, S \subseteq PortNumbers, NEW T, T \subseteq PortNumbers, NEW gone,
           gone \subseteq broken', plan' = plan, broken \subseteq broken',
           depscache \subseteq depscache', installed' = Up!Installed(T),
           \A e : e \in active' <=> e \in Up!Activated(S) /\ e[1] \notin gone
    PROVE  /\ Grows /\ Losing({})
           /\ \A q \in S : q \in gone \/ (Up!Of(q) \in active' /\ Up!IsActive(q)')
<1>1. UpTypes
  BY DEF UpInv
<1>2. /\ installed \subseteq PortNumbers \X Nat /\ active \subseteq PortNumbers \X Nat
      /\ \A d, e \in active : d[1] = e[1] => d = e
  BY <1>1 DEF UpTypes
<1>3. \A q : Up!Of(q)[1] = q /\ Up!Of(q)' = Up!Of(q)
  BY DEF Up!Of
<1>4. \A q \in PortNumbers : Up!Of(q) \in PortNumbers \X Nat
  BY <1>1, UpPlan DEF Up!Of
<1>5. installed' \subseteq PortNumbers \X Nat /\ installed \subseteq installed'
  BY <1>2, <1>4 DEF Up!Installed
<1>6. \A e : e \in active' <=> (e[1] \notin gone /\ ((e \in active /\ e[1] \notin S)
                                \/ \E q \in S : e = Up!Of(q)))
  BY DEF Up!Activated
<1>7. active' \subseteq PortNumbers \X Nat
  BY <1>2, <1>4, <1>6
<1>8. \A d, e \in active' : d[1] = e[1] => d = e
  BY <1>2, <1>3, <1>6
<1>9. Grows
  BY <1>5, <1>7, <1>8, UpGone
<1>10. \A n : Up!IsActive(n)' <=> \E e \in active' : e[1] = n
  BY DEF Up!IsActive, Up!VersionsIn
<1>11. \A q \in S : q \in gone \/ (Up!Of(q) \in active' /\ Up!IsActive(q)')
  BY <1>3, <1>6, <1>10
<1>12. \A n : n \in gone \/ (Up!IsActive(n) => Up!IsActive(n)')
  <2> SUFFICES ASSUME NEW n, n \notin gone, Up!IsActive(n) PROVE Up!IsActive(n)'
    OBVIOUS
  <2>1. PICK e \in active : e[1] = n
    BY IsActiveIs
  <2>2. CASE n \in S
    BY <1>11, <2>2
  <2>3. CASE n \notin S
    BY <1>6, <1>10, <2>1, <2>3
  <2> QED BY <2>2, <2>3
<1>13. \A n : n \in gone \/ (Up!Of(n) \in active => Up!Of(n)' \in active')
  BY <1>3, <1>6
<1>14. Losing({})
  BY <1>12, <1>13 DEF Losing
<1> QED BY <1>9, <1>11, <1>14

\* Uninstalling or deactivating one version.
LEMMA UpRemoved ==
    ASSUME UpInv, NEW d \in PortNumbers \X Nat, plan' = plan, broken' = broken,
           depscache' = depscache, active' = active \ {d},
           \/ installed' = installed
           \/ /\ installed' = installed \ {d} /\ d[1] \in depscache
              /\ (plan.old /\ d # Up!Of(d[1])) \/ plan.force \/ d[1] \in plan.override
    PROVE  /\ Grows /\ Losing({d[1]})
           /\ Up!Of(d[1]) \in active /\ d # Up!Of(d[1]) => Up!Of(d[1])' \in active'
<1>1. UpTypes
  BY DEF UpInv
<1>2. /\ installed \subseteq PortNumbers \X Nat /\ active \subseteq PortNumbers \X Nat
      /\ \A c, e \in active : c[1] = e[1] => c = e
  BY <1>1 DEF UpTypes
<1>3. \A q : Up!Of(q)[1] = q /\ Up!Of(q)' = Up!Of(q)
  BY DEF Up!Of
<1>4. installed' \subseteq PortNumbers \X Nat /\ active' \subseteq PortNumbers \X Nat
      /\ \A c, e \in active' : c[1] = e[1] => c = e
  BY <1>2
<1>5. \A e \in installed : e \in installed' \/
               (e[1] \in depscache' /\ ((plan.old /\ e # Up!Of(e[1])) \/ plan.force
                                        \/ e[1] \in plan.override))
  <2> TAKE e \in installed
  <2>1. CASE e = d
    BY <2>1
  <2>2. CASE e # d
    BY <2>2
  <2> QED BY <2>1, <2>2
<1>6. Grows
  BY <1>4, <1>5, UpGone
<1>7. \A n : Up!IsActive(n)' <=> \E e \in active' : e[1] = n
  BY DEF Up!IsActive, Up!VersionsIn
<1>8. Losing({d[1]})
  BY <1>3, <1>7, IsActiveIs DEF Losing
<1> QED BY <1>3, <1>6, <1>8

LEMMA MissingPorts ==
    /\ \A p : Up!Missing(p) \subseteq PortNumbers
    /\ \A p : \A D \in Up!Partly(p) : D \subseteq PortNumbers
<1>1. \A p : Up!Missing(p) \subseteq PortNumbers
  BY DEF Up!Missing
<1> QED BY <1>1 DEF Up!Partly

LEMMA CallFrame ==
    ASSUME NEW p \in Nat, NEW n \in BOOLEAN, NEW w \in BOOLEAN
    PROVE  LET c == Up!Call(p, n, w) IN
           /\ c \in UpFrame /\ c.port = p /\ c.new = p /\ c.pc = "look" /\ ~c.fresh /\ ~c.clear
BY DEF Up!Call, UpFrame

LEMMA InstalledNumbers == UpTypes => \A p : Up!Versions(p) # {} => p \in PortNumbers
<1> SUFFICES ASSUME UpTypes, NEW p, Up!Versions(p) # {} PROVE p \in PortNumbers
    OBVIOUS
<1>1. PICK e \in installed : e[1] = p
  BY DEF Up!Versions, Up!VersionsIn
<1>2. e \in PortNumbers \X Nat
  BY <1>1 DEF UpTypes
<1> QED BY <1>1, <1>2

LEMMA VersionsNat ==
    UpTypes => \A p : Up!Versions(p) \subseteq Nat /\ Up!VersionsIn(active, p) \subseteq Nat
<1> SUFFICES ASSUME UpTypes, NEW p
             PROVE  Up!Versions(p) \subseteq Nat /\ Up!VersionsIn(active, p) \subseteq Nat
    OBVIOUS
<1>1. installed \subseteq PortNumbers \X Nat /\ active \subseteq PortNumbers \X Nat
  BY DEF UpTypes
<1>2. \A e \in PortNumbers \X Nat : e[2] \in Nat
  OBVIOUS
<1> QED BY <1>1, <1>2 DEF Up!Versions, Up!VersionsIn

LEMMA UpStays ==
    ASSUME UpInv, stack # <<>>, Grows, Losing({}),
           ~(Up!top.pc \in {"deactivate", "activate"})
    PROVE  \A e \in plan.active : Kept(e)'
<1> SUFFICES ASSUME NEW e \in plan.active PROVE Kept(e)'
    OBVIOUS
<1>1. Kept(e) \/ Awaits(Up!top, e)
  BY UpTopCall
<1>2. Kept(e)
  BY <1>1 DEF Awaits
<1>3. {} \cap Successors(e) = {}
  OBVIOUS
<1> QED BY <1>2, <1>3, KeptOn

LEMMA UpReturn ==
    ASSUME UpInv, Grows, Losing({}), stack # <<>>, NEW code, Up!Return(code),
           \A e \in plan.active : Kept(e)'
    PROVE  UpInv'
<1>1. {} \subseteq {Up!top.port} /\ stack' = SubSeq(stack, 1, Len(stack) - 1)
  BY DEF Up!Return
<1> QED BY <1>1, UpPop

LEMMA UpGoOn ==
    ASSUME UpInv, Grows, Losing({}), stack # <<>>, NEW f \in UpFrame, stack' = Up!Top(f),
           f.port = Up!top.port, Up!top.fresh => f.fresh,
           Marked(f)', StaysDone(f)',
           \A e \in plan.active : Kept(e)' \/ Awaits(f, e)'
    PROVE  UpInv'
<1>1. {} \subseteq {Up!top.port}
  OBVIOUS
<1> QED BY <1>1, UpReplace

LEMMA UpAsk == UpInv /\ Up!Ask => UpInv'
<1> SUFFICES ASSUME UpInv, Up!Ask PROVE UpInv'
    OBVIOUS
<1>1. stack = <<>> /\ UNCHANGED <<plan, installed, active, broken, depscache>>
  BY DEF Up!Ask, Up!Same
<1>2. PICK p : p = Head(queue)
  OBVIOUS
<1>3. stack' = (IF p \in depscache \/ Up!Versions(p) = {} THEN stack
                ELSE <<Up!Call(p, plan.nodeps, plan.follow)>>)
  BY <1>2 DEF Up!Ask
<1>4. UpTypes /\ UpCalls
  BY DEF UpInv
<1>5. Grows /\ \A e : Kept(e) => Kept(e)'
  BY <1>1, UpSame
<1>6. \A e \in plan.active : Kept(e)'
  <2>1. \A e \in plan.active : Kept(e) \/ Coming(e)
    BY DEF UpInv
  <2> QED BY <1>1, <1>5, <2>1 DEF Coming
<1>7. UpTypes' /\ UpCalls'
  <2>1. CASE stack' = stack
    <3>1. Len(stack') = 0 /\ stack' \in Seq(UpFrame)
      BY <1>1, <2>1
    <3>2. UpTypes'
      BY <1>1, <1>4, <3>1 DEF UpTypes
    <3>3. UpCalls'
      BY <3>1 DEF UpCalls
    <3> QED BY <3>2, <3>3
  <2>2. CASE p \notin depscache /\ Up!Versions(p) # {}
    <3>1. p \in Nat /\ plan.nodeps \in BOOLEAN /\ plan.follow \in BOOLEAN
      BY <1>4, <2>2, InstalledNumbers, UpPlan
    <3>2. PICK c : c = Up!Call(p, plan.nodeps, plan.follow)
      OBVIOUS
    <3>3. c \in UpFrame /\ c.port = p /\ c.new = p /\ c.pc = "look" /\ ~c.fresh /\ ~c.clear
      BY <3>1, <3>2, CallFrame
    <3>4. stack' = <<c>>
      BY <1>3, <2>2, <3>2
    <3>5. stack' \in Seq(UpFrame) /\ Len(stack') = 1 /\ stack'[1] = c
      BY <3>3, <3>4
    <3>6. UpTypes'
      BY <1>1, <1>4, <3>5 DEF UpTypes
    <3>7. Marked(c)'
      BY <1>1, <2>2, <3>3 DEF Marked
    <3>8. StaysDone(c)'
      BY <3>3 DEF StaysDone
    <3>9. Marked(stack[1])' /\ StaysDone(stack[1])'
      BY <3>5, <3>7, <3>8
    <3>10. UpCalls'
      <4>1. \A i \in 1 .. Len(stack') : i = 1
        BY <3>5
      <4> QED BY <3>5, <3>9, <4>1 DEF UpCalls
    <3> QED BY <3>6, <3>10
  <2>3. stack' = stack \/ (p \notin depscache /\ Up!Versions(p) # {})
    BY <1>3
  <2> QED BY <2>1, <2>2, <2>3
<1>8. plan' = plan /\ Up!OnlyOldGone'
  BY <1>5 DEF Grows
<1> QED BY <1>6, <1>7, <1>8 DEF UpInv

LEMMA UpLookFails == UpInv /\ Up!LookFails => UpInv'
<1> SUFFICES ASSUME UpInv, Up!LookFails PROVE UpInv'
    OBVIOUS
<1>1. /\ stack # <<>> /\ Up!top.pc = "look"
      /\ UNCHANGED <<plan, installed, active>> /\ broken' = broken
      /\ depscache \subseteq depscache'
      /\ Up!Return(1) \/ Up!Return(2)
  BY DEF Up!LookFails, Up!At, Up!Same
<1>2. Grows /\ Losing({})
  BY <1>1, UpSame
<1>3. \A e \in plan.active : Kept(e)'
  BY <1>1, <1>2, UpStays
<1> QED BY <1>1, <1>2, <1>3, UpReturn

LEMMA UpLookFresh == UpInv /\ Up!LookFresh => UpInv'
<1> SUFFICES ASSUME UpInv, Up!LookFresh PROVE UpInv'
    OBVIOUS
<1>1. /\ stack # <<>> /\ Up!top.pc = "look"
      /\ UNCHANGED <<plan, installed, active>> /\ broken' = broken
      /\ Up!top.port \in plan.indexed
  BY DEF Up!LookFresh, Up!At, Up!Same
<1>2. depscache \subseteq depscache'
  BY DEF Up!LookFresh
<1>3. Grows /\ Losing({})
  BY <1>1, <1>2, UpSame
<1>4. \A e \in plan.active : Kept(e)'
  BY <1>1, <1>3, UpStays
<1>5. CASE Up!Return(0)
  BY <1>1, <1>3, <1>4, <1>5, UpReturn
<1>6. CASE stack' = Up!Top([Up!top EXCEPT !.fresh = TRUE, !.pc = "deps",
                                           !.todo = plan.deps[Up!top.port]])
  <2>1. PICK t : t = Up!top
    OBVIOUS
  <2>2. PICK a : a = [t EXCEPT !.fresh = TRUE]
    OBVIOUS
  <2>3. PICK b : b = [a EXCEPT !.pc = "deps"]
    OBVIOUS
  <2>4. PICK f : f = [b EXCEPT !.todo = plan.deps[t.port]]
    OBVIOUS
  <2>5. f = [t EXCEPT !.fresh = TRUE, !.pc = "deps", !.todo = plan.deps[t.port]]
    BY <2>2, <2>3, <2>4
  <2>6. t \in UpFrame /\ Marked(t) /\ UpTypes
    BY <1>1, <2>1, UpTopCall
  <2>7. t.port \in PortNumbers /\ plan.deps[t.port] \subseteq Nat
    BY <1>1, <2>1, <2>6, UpPlan
  <2>8. a \in UpFrame /\ a.fresh /\ a.port = t.port /\ a.new = t.new /\ a.clear = t.clear
    BY <2>2, <2>6 DEF UpFrame
  <2>9. b \in UpFrame /\ b.fresh /\ b.port = t.port /\ b.new = t.new /\ b.clear = t.clear
        /\ b.pc = "deps"
    BY <2>3, <2>8 DEF UpFrame
  <2>10. f \in UpFrame /\ f.fresh /\ f.port = t.port /\ f.new = t.new /\ f.clear = t.clear
         /\ f.pc = "deps"
    BY <2>4, <2>7, <2>9 DEF UpFrame
  <2>11. t.new = t.port
    BY <1>1, <2>1, <2>6 DEF Marked
  <2>12. Marked(f)'
    BY <1>1, <2>1, <2>6, <2>7, <2>10, <2>11 DEF Marked
  <2>13. StaysDone(f)'
    BY <2>10 DEF StaysDone
  <2>14. stack' = Up!Top(f)
    BY <1>6, <2>1, <2>5
  <2> QED BY <1>1, <1>3, <1>4, <2>1, <2>10, <2>12, <2>13, <2>14, UpGoOn
<1>7. Up!Return(0) \/ stack' = Up!Top([Up!top EXCEPT !.fresh = TRUE, !.pc = "deps",
                                           !.todo = plan.deps[Up!top.port]])
  BY DEF Up!LookFresh
<1> QED BY <1>5, <1>6, <1>7

LEMMA WasNat ==
    UpTypes => \A p : Up!IsActive(p) => Up!Greatest(Up!VersionsIn(active, p)) \in Nat
<1> SUFFICES ASSUME UpTypes, NEW p, Up!IsActive(p)
             PROVE  Up!Greatest(Up!VersionsIn(active, p)) \in Nat
    OBVIOUS
<1>1. PICK e \in active : e[1] = p
  BY IsActiveIs
<1>2. Up!VersionsIn(active, p) = {e[2]}
  BY <1>1 DEF Up!VersionsIn, UpTypes
<1>3. e[2] \in Nat
  BY <1>1, <1>2, VersionsNat
<1>4. PICK x : x = e[2]
  OBVIOUS
<1>5. Up!VersionsIn(active, p) = {x} /\ x \in Nat
  BY <1>2, <1>3, <1>4
<1>6. Up!Greatest({x}) \in {x}
  BY <1>5 DEF Up!Greatest
<1> QED BY <1>5, <1>6

LEMMA UpLookInstalled == UpInv /\ Up!LookInstalled => UpInv'
<1> SUFFICES ASSUME UpInv, Up!LookInstalled PROVE UpInv'
    OBVIOUS
<1> DEFINE p == Up!top.port
           new == plan.replaced[p]
           current == Up!Greatest(Up!Versions(p)) >= plan.tree[new] /\ ~plan.force
           override == current /\ new = p /\ p \in plan.override
           install == ~current \/ new # p \/ override
           already == Up!Of(new) \in installed
           was == IF Up!IsActive(p) THEN Up!Greatest(Up!VersionsIn(active, p)) ELSE 0
           build == install /\ (plan.force \/ override \/ ~already)
           clear == already /\ (plan.force \/ override)
           todo == IF Up!top.nodeps THEN {} ELSE plan.deps[new]
<1>1. /\ stack # <<>> /\ Up!top.pc = "look"
      /\ UNCHANGED <<plan, installed, active>> /\ broken' = broken
      /\ p \in plan.indexed /\ Up!Versions(p) # {}
      /\ depscache \subseteq depscache'
  BY DEF Up!LookInstalled, Up!At, Up!Same
<1>2. \/ Up!Return(1)
      \/ /\ depscache' = depscache \cup {p, new}
         /\ stack' = Up!Top([Up!top EXCEPT
                   !.new = new, !.ilist = Up!Versions(p), !.install = install,
                   !.was = was, !.build = build, !.clear = clear, !.pc = "deps", !.todo = todo])
  BY DEF Up!LookInstalled
<1>3. Grows /\ Losing({})
  BY <1>1, UpSame
<1>4. \A e \in plan.active : Kept(e)'
  BY <1>1, <1>3, UpStays
<1>5. CASE Up!Return(1)
  BY <1>1, <1>3, <1>4, <1>5, UpReturn
<1>6. UpTypes /\ Up!top \in UpFrame /\ Marked(Up!top)
  BY <1>1, UpTopCall
<1>7. p \in PortNumbers /\ new \in PortNumbers /\ PortNumbers \subseteq Nat
  BY <1>1, <1>6, UpPlan
<1>8. /\ Up!Versions(p) \subseteq Nat /\ was \in Nat /\ todo \subseteq Nat
  <2>1. Up!Versions(p) \subseteq Nat
    BY <1>6, VersionsNat
  <2>2. was \in Nat
    BY <1>6, WasNat
  <2>3. todo \subseteq Nat
    BY <1>6, <1>7, UpPlan
  <2> QED BY <2>1, <2>2, <2>3
<1>9. install \in BOOLEAN /\ build \in BOOLEAN /\ clear \in BOOLEAN
  OBVIOUS
<1>10. clear => new = p /\ (plan.force \/ p \in plan.override)
  BY <1>6, <1>7, UpPlan
<1> HIDE DEF p, new, install, was, build, clear, todo
<1>11. PICK ilist : ilist = Up!Versions(p)
  OBVIOUS
<1>12. CASE /\ depscache' = depscache \cup {p, new}
            /\ stack' = Up!Top([Up!top EXCEPT
                   !.new = new, !.ilist = Up!Versions(p), !.install = install,
                   !.was = was, !.build = build, !.clear = clear, !.pc = "deps", !.todo = todo])
  <2>1. PICK t : t = Up!top
    OBVIOUS
  <2>2. t \in UpFrame /\ t.port = p /\ ~t.fresh
    BY <1>1, <1>6, <2>1 DEF Marked, p
  <2>3. PICK n, w, d, i, b, c : n = new /\ w = was /\ d = todo /\ i = install /\ b = build /\ c = clear
    OBVIOUS
  <2>4. PICK f1 : f1 = [t EXCEPT !.new = n]
    OBVIOUS
  <2>5. PICK f2 : f2 = [f1 EXCEPT !.ilist = ilist]
    OBVIOUS
  <2>6. PICK f3 : f3 = [f2 EXCEPT !.install = i]
    OBVIOUS
  <2>7. PICK f4 : f4 = [f3 EXCEPT !.was = w]
    OBVIOUS
  <2>8. PICK f5 : f5 = [f4 EXCEPT !.build = b]
    OBVIOUS
  <2>9. PICK f6 : f6 = [f5 EXCEPT !.clear = c]
    OBVIOUS
  <2>10. PICK f7 : f7 = [f6 EXCEPT !.pc = "deps"]
    OBVIOUS
  <2>11. PICK f : f = [f7 EXCEPT !.todo = d]
    OBVIOUS
  <2>12. f1 \in UpFrame /\ f1.port = p /\ ~f1.fresh /\ f1.new = n
    BY <1>7, <2>2, <2>3, <2>4 DEF UpFrame
  <2>13. f2 \in UpFrame /\ f2.port = p /\ ~f2.fresh /\ f2.new = n
    BY <1>8, <1>11, <2>5, <2>12 DEF UpFrame
  <2>14. f3 \in UpFrame /\ f3.port = p /\ ~f3.fresh /\ f3.new = n
    BY <1>9, <2>3, <2>6, <2>13 DEF UpFrame
  <2>15. f4 \in UpFrame /\ f4.port = p /\ ~f4.fresh /\ f4.new = n
    BY <1>8, <2>3, <2>7, <2>14 DEF UpFrame
  <2>16. f5 \in UpFrame /\ f5.port = p /\ ~f5.fresh /\ f5.new = n
    BY <1>9, <2>3, <2>8, <2>15 DEF UpFrame
  <2>17. f6 \in UpFrame /\ f6.port = p /\ ~f6.fresh /\ f6.new = n /\ f6.clear = c
    BY <1>9, <2>3, <2>9, <2>16 DEF UpFrame
  <2>18. f7 \in UpFrame /\ f7.port = p /\ ~f7.fresh /\ f7.new = n /\ f7.clear = c /\ f7.pc = "deps"
    BY <2>10, <2>17 DEF UpFrame
  <2>19. f \in UpFrame /\ f.port = p /\ ~f.fresh /\ f.new = n /\ f.clear = c /\ f.pc = "deps"
    BY <1>8, <2>3, <2>11, <2>18 DEF UpFrame
  <2>20. f = [t EXCEPT !.new = n, !.ilist = ilist, !.install = i,
                   !.was = w, !.build = b, !.clear = c, !.pc = "deps", !.todo = d]
    BY <2>4, <2>5, <2>6, <2>7, <2>8, <2>9, <2>10, <2>11
  <2>21. stack' = Up!Top(f)
    BY <1>11, <1>12, <2>1, <2>3, <2>20
  <2>22. Marked(f)'
    <3>1. p \in depscache' /\ n \in depscache' /\ n \in PortNumbers /\ p \in PortNumbers
      BY <1>7, <1>12, <2>3
    <3>2. n = plan'.replaced[p]
      BY <1>1, <2>3 DEF new
    <3>3. plan' = plan
      BY <1>1
    <3>4. c => n = p /\ (plan.force \/ n \in plan.override)
      BY <1>10, <2>3
    <3> QED BY <2>19, <3>1, <3>2, <3>3, <3>4 DEF Marked
  <2>23. StaysDone(f)'
    BY <2>19 DEF StaysDone
  <2>24. f.port = Up!top.port /\ (Up!top.fresh => f.fresh)
    BY <2>1, <2>2, <2>19 DEF p
  <2> QED BY <1>1, <1>3, <1>4, <2>19, <2>21, <2>22, <2>23, <2>24, UpGoOn
<1> QED BY <1>2, <1>5, <1>12

LEMMA UpFollow == UpInv /\ Up!Follow => UpInv'
<1> SUFFICES ASSUME UpInv, Up!Follow PROVE UpInv'
    OBVIOUS
<1>1. /\ stack # <<>> /\ Up!top.pc \in {"deps", "dependents"} /\ Up!top.todo # {}
      /\ UNCHANGED <<plan, installed, active, broken, depscache>>
  BY DEF Up!Follow, Up!Same
<1>2. PICK t : t = Up!top
  OBVIOUS
<1>3. PICK d : d = Up!Least(t.todo)
  OBVIOUS
<1>4. PICK f : f = [t EXCEPT !.todo = @ \ {d}]
  OBVIOUS
<1>5. PICK up \in BOOLEAN : up = (t.pc = "dependents")
  OBVIOUS
<1>6. stack' = (IF d \in depscache THEN Up!Top(f) ELSE Append(Up!Top(f), Up!Call(d, up, up)))
  BY <1>2, <1>3, <1>4, <1>5 DEF Up!Follow
<1>7. t \in UpFrame /\ Marked(t) /\ StaysDone(t)
  BY <1>1, <1>2, UpTopCall
<1>8. t.todo \subseteq Nat /\ t.todo # {}
  BY <1>1, <1>2, <1>7 DEF UpFrame
<1>9. d \in Nat
  BY <1>3, <1>8, LeastUp
<1>10. f \in UpFrame /\ f.port = t.port /\ f.new = t.new /\ f.fresh = t.fresh /\ f.pc = t.pc
       /\ f.clear = t.clear /\ f.install = t.install
  BY <1>4, <1>7, <1>8 DEF UpFrame
<1>11. Marked(f)'
  BY <1>1, <1>2, <1>7, <1>10 DEF Marked
<1>12. StaysDone(f)'
  BY <1>1, <1>7, <1>10 DEF StaysDone, Up!Of
<1>13. CASE d \in depscache
  <2>1. Grows /\ Losing({})
    BY <1>1, UpSame
  <2>2. \A e \in plan.active : Kept(e)'
    BY <1>1, <2>1, UpStays
  <2>3. stack' = Up!Top(f) /\ f.port = Up!top.port /\ (Up!top.fresh => f.fresh)
    BY <1>2, <1>6, <1>10, <1>13
  <2> QED BY <1>1, <1>10, <1>11, <1>12, <2>1, <2>2, <2>3, UpGoOn
<1>14. CASE d \notin depscache
  <2>1. PICK g : g = Up!Call(d, up, up)
    OBVIOUS
  <2>2. g \in UpFrame /\ g.port = d /\ g.new = d /\ g.pc = "look" /\ ~g.fresh /\ ~g.clear
    BY <1>9, <2>1, CallFrame
  <2>3. Marked(g)'
    BY <1>1, <1>14, <2>2 DEF Marked
  <2>4. stack' = Append(Up!Top(f), g)
    BY <1>6, <1>14, <2>1
  <2>5. f.port = Up!top.port /\ f.fresh = Up!top.fresh /\ f.pc \in {"deps", "dependents"}
    BY <1>1, <1>2, <1>10
  <2> QED BY <1>1, <1>10, <1>11, <1>12, <2>2, <2>3, <2>4, <2>5, UpPush
<1> QED BY <1>13, <1>14

LEMMA UpGiveUp == UpInv /\ Up!GiveUp => UpInv'
<1> SUFFICES ASSUME UpInv, Up!GiveUp PROVE UpInv'
    OBVIOUS
<1>1. /\ stack # <<>> /\ Up!top.pc \in {"deps", "dependents"}
      /\ UNCHANGED <<plan, installed, active>> /\ broken' = broken /\ depscache' = depscache
      /\ Up!Return(status)
  BY DEF Up!GiveUp, Up!Same
<1>2. Grows /\ Losing({})
  BY <1>1, UpSame
<1>3. \A e \in plan.active : Kept(e)'
  BY <1>1, <1>2, UpStays
<1> QED BY <1>1, <1>2, <1>3, UpReturn

LEMMA UpThenDependents ==
    ASSUME UpInv, Grows, Losing({}), stack # <<>>, ~Up!top.fresh, Up!top.pc # "look",
           Up!ThenDependents(Up!top),
           NEW n, n = Up!top.new,
           Up!top.install /\ n = Up!top.port => n \in broken' \/ Up!Of(n)' \in active',
           \A e \in plan.active : Kept(e)'
    PROVE  UpInv'
<1>1. PICK t : t = Up!top
  OBVIOUS
<1>2. t \in UpFrame /\ Marked(t) /\ UpTypes
  BY <1>1, UpTopCall
<1>3. PICK d : d = IF t.follow THEN Up!Dependents(t.port) \cup Up!Dependents(t.new) ELSE {}
  OBVIOUS
<1>4. d \subseteq Nat
  BY <1>2, <1>3, UpPlan DEF Up!Dependents
<1>5. PICK f : f = [t EXCEPT !.pc = "dependents", !.todo = d]
  OBVIOUS
<1>6. stack' = Up!Top(f)
  BY <1>1, <1>3, <1>5 DEF Up!ThenDependents
<1>7. f \in UpFrame /\ f.port = t.port /\ f.new = t.new /\ f.fresh = t.fresh
      /\ f.pc = "dependents" /\ f.clear = t.clear /\ f.install = t.install
  BY <1>2, <1>4, <1>5 DEF UpFrame
<1>8. Marked(f)'
  BY <1>1, <1>2, <1>7 DEF Marked, Grows
<1>9. StaysDone(f)'
  <2>1. f.new = n
    BY <1>1, <1>7
  <2>2. f.install /\ f.new = f.port => n \in broken' \/ Up!Of(n)' \in active'
    BY <1>1, <1>7, <2>1
  <2> QED BY <2>1, <2>2 DEF StaysDone, Up!Of
<1>10. f.port = Up!top.port /\ (Up!top.fresh => f.fresh)
  BY <1>1, <1>7
<1> QED BY <1>6, <1>7, <1>8, <1>9, <1>10, UpGoOn

\* A step to another pc before the dependents.
LEMMA UpTurn ==
    ASSUME UpInv, Grows, Losing({}), stack # <<>>, Up!top.pc # "look",
           NEW onto \in {"install", "clear", "deactivate", "activate"},
           NEW f, f = [Up!top EXCEPT !.pc = onto], Up!top.fresh => onto = "activate", stack' = Up!Top(f),
           \A e \in plan.active : Kept(e)' \/ Awaits(f, e)'
    PROVE  UpInv'
<1>1. PICK t : t = Up!top
  OBVIOUS
<1>2. t \in UpFrame /\ Marked(t) /\ t.pc # "look"
  BY <1>1, UpTopCall
<1>3. f \in UpFrame /\ f.port = t.port /\ f.new = t.new /\ f.fresh = t.fresh
      /\ f.pc = onto /\ f.clear = t.clear
  BY <1>1, <1>2 DEF UpFrame
<1>4. Marked(f)'
  BY <1>1, <1>2, <1>3 DEF Marked, Grows
<1>5. StaysDone(f)'
  BY <1>3 DEF StaysDone
<1>6. f.port = Up!top.port /\ (Up!top.fresh => f.fresh)
  BY <1>1, <1>3
<1> QED BY <1>3, <1>4, <1>5, <1>6, UpGoOn

LEMMA UpDependenciesDone == UpInv /\ Up!DependenciesDone => UpInv'
<1> SUFFICES ASSUME UpInv, Up!DependenciesDone PROVE UpInv'
    OBVIOUS
<1>1. /\ stack # <<>> /\ Up!top.pc = "deps"
      /\ UNCHANGED <<plan, installed, active>> /\ broken' = broken /\ depscache' = depscache
  BY DEF Up!DependenciesDone, Up!At, Up!Same
<1>2. Grows /\ Losing({})
  BY <1>1, UpSame
<1>3. \A e \in plan.active : Kept(e)'
  BY <1>1, <1>2, UpStays
<1>4. CASE Up!top.fresh
  <2>1. PICK f : f = [Up!top EXCEPT !.pc = "activate"]
    OBVIOUS
  <2>2. stack' = Up!Top(f)
    BY <1>4, <2>1 DEF Up!DependenciesDone, Up!Go
  <2> QED BY <1>1, <1>2, <1>3, <2>1, <2>2, UpTurn
<1>5. CASE ~Up!top.fresh /\ ~Up!top.install
  <2>1. Up!ThenDependents(Up!top)
    BY <1>5 DEF Up!DependenciesDone
  <2>2. PICK n : n = Up!top.new
    OBVIOUS
  <2> QED BY <1>1, <1>2, <1>3, <1>5, <2>1, <2>2, UpThenDependents
<1>6. CASE ~Up!top.fresh /\ Up!top.install
  <2>1. PICK onto : onto = IF Up!top.build THEN "install" ELSE "clear"
    OBVIOUS
  <2>2. PICK f : f = [Up!top EXCEPT !.pc = onto]
    OBVIOUS
  <2>3. stack' = Up!Top(f)
    BY <1>6, <2>1, <2>2 DEF Up!DependenciesDone, Up!Go
  <2>4. onto \in {"install", "clear", "deactivate", "activate"}
    BY <2>1
  <2> QED BY <1>1, <1>2, <1>3, <1>6, <2>2, <2>3, <2>4, UpTurn
<1> QED BY <1>4, <1>5, <1>6

LEMMA UpActivates ==
    ASSUME UpInv, NEW S, S \subseteq PortNumbers, NEW T, T \subseteq PortNumbers,
           plan' = plan, broken \subseteq broken', depscache \subseteq depscache',
           installed' = Up!Installed(T), active' = Up!Activated(S)
    PROVE  Grows /\ Losing({}) /\ \A q \in S : Up!Of(q) \in active' /\ Up!IsActive(q)'
<1>1. PICK gone : gone = {}
  OBVIOUS
<1>2. gone \subseteq broken' /\ \A e : e \in active' <=> e \in Up!Activated(S) /\ e[1] \notin gone
  BY <1>1
<1>3. /\ Grows /\ Losing({})
      /\ \A q \in S : q \in gone \/ (Up!Of(q) \in active' /\ Up!IsActive(q)')
  BY <1>2, UpActivated
<1> QED BY <1>1, <1>3

LEMMA UpInstall == UpInv /\ Up!Install => UpInv'
<1> SUFFICES ASSUME UpInv, Up!Install PROVE UpInv'
    OBVIOUS
<1>1. /\ stack # <<>> /\ Up!top.pc = "install"
      /\ plan' = plan /\ depscache' = depscache /\ broken' = broken
  BY DEF Up!Install, Up!At
<1>2. PICK n : n = Up!top.new
  OBVIOUS
<1>3. n \in PortNumbers /\ ~Up!top.fresh
  BY <1>1, <1>2, UpTopCall DEF Marked
<1>4. CASE /\ installed' = Up!Installed(Up!Missing(n) \cup {n})
           /\ active' = Up!Activated(Up!Missing(n))
           /\ Up!Go([Up!top EXCEPT !.pc = "clear"])
  <2>1. Up!Missing(n) \subseteq PortNumbers /\ Up!Missing(n) \cup {n} \subseteq PortNumbers
    BY <1>3, MissingPorts
  <2>4. Grows /\ Losing({})
    <3>1. broken \subseteq broken' /\ depscache \subseteq depscache'
      BY <1>1
    <3>2. PICK S, T : S = Up!Missing(n) /\ T = Up!Missing(n) \cup {n}
      OBVIOUS
    <3>3. S \subseteq PortNumbers /\ T \subseteq PortNumbers /\ installed' = Up!Installed(T)
          /\ active' = Up!Activated(S)
      BY <1>4, <2>1, <3>2
    <3> QED BY <1>1, <3>1, <3>3, UpActivates
  <2>5. \A e \in plan.active : Kept(e)'
    BY <1>1, <2>4, UpStays
  <2>6. PICK f : f = [Up!top EXCEPT !.pc = "clear"]
    OBVIOUS
  <2>7. stack' = Up!Top(f)
    BY <1>4, <2>6 DEF Up!Go
  <2> QED BY <1>1, <1>3, <2>4, <2>5, <2>6, <2>7, UpTurn
<1>5. ASSUME NEW D \in Up!Partly(n), installed' = Up!Installed(D), active' = Up!Activated(D),
             Up!Return(1)
      PROVE  UpInv'
  <2>1. D \subseteq PortNumbers
    BY MissingPorts
  <2>4. Grows /\ Losing({})
    <3>1. broken \subseteq broken' /\ depscache \subseteq depscache'
      BY <1>1
    <3> QED BY <1>1, <1>5, <2>1, <3>1, UpActivates
  <2>5. \A e \in plan.active : Kept(e)'
    BY <1>1, <2>4, UpStays
  <2> QED BY <1>1, <1>5, <2>4, <2>5, UpReturn
<1>6. CASE Up!Return(1) /\ UNCHANGED <<installed, active>>
  <2>1. Grows /\ Losing({})
    BY <1>1, <1>6, UpSame
  <2>2. \A e \in plan.active : Kept(e)'
    BY <1>1, <2>1, UpStays
  <2> QED BY <1>1, <1>6, <2>1, <2>2, UpReturn
<1> QED BY <1>2, <1>4, <1>5, <1>6 DEF Up!Install

LEMMA UpClear == UpInv /\ Up!Clear => UpInv'
<1> SUFFICES ASSUME UpInv, Up!Clear PROVE UpInv'
    OBVIOUS
<1>1. /\ stack # <<>> /\ Up!top.pc = "clear"
      /\ plan' = plan /\ depscache' = depscache /\ broken' = broken
  BY DEF Up!Clear, Up!At
<1>2. PICK t : t = Up!top
  OBVIOUS
<1>3. t \in UpFrame /\ Marked(t) /\ UpTypes /\ t.pc = "clear"
      /\ \A e \in plan.active : Kept(e) \/ Awaits(t, e)
  BY <1>1, <1>2, UpTopCall
<1>4. \A e \in plan.active : Kept(e)
  BY <1>3 DEF Awaits
<1>5. ~t.fresh /\ t.port \in PortNumbers /\ t.new \in PortNumbers /\ t.port \in depscache
      /\ t.new \in depscache /\ t.new = plan.replaced[t.port]
  BY <1>3 DEF Marked
<1>6. CASE Up!Return(1) /\ UNCHANGED <<installed, active>>
  <2>1. Grows /\ Losing({})
    BY <1>1, <1>6, UpSame
  <2>2. \A e \in plan.active : Kept(e)'
    BY <1>1, <2>1, UpStays
  <2> QED BY <1>1, <1>6, <2>1, <2>2, UpReturn
<1>7. ASSUME Up!Go([t EXCEPT !.pc = "deactivate",
                     !.was = IF t.clear /\ <<t.port, @>> = Up!Of(t.new) THEN 0 ELSE @]),
             IF t.clear
             THEN installed' = installed \ {Up!Of(t.new)} /\ active' = active \ {Up!Of(t.new)}
             ELSE UNCHANGED <<installed, active>>
      PROVE  UpInv'
  <2>1. PICK w \in Nat : w = IF t.clear /\ <<t.port, t.was>> = Up!Of(t.new) THEN 0 ELSE t.was
    BY <1>3 DEF UpFrame
  <2>2. PICK f : f = [t EXCEPT !.pc = "deactivate", !.was = w]
    OBVIOUS
  <2>3. f \in UpFrame /\ f.port = t.port /\ f.new = t.new /\ f.fresh = t.fresh
        /\ f.pc = "deactivate" /\ f.clear = t.clear
    BY <1>3, <2>2 DEF UpFrame
  <2>4. stack' = Up!Top(f)
    BY <1>7, <2>1, <2>2 DEF Up!Go
  <2>5. f.port = Up!top.port /\ (Up!top.fresh => f.fresh)
    BY <1>2, <2>3
  <2>6. ASSUME Grows PROVE Marked(f)' /\ StaysDone(f)'
    <3>1. Marked(f)'
      BY <1>1, <1>3, <1>5, <2>3 DEF Marked
    <3>2. StaysDone(f)'
      BY <2>3 DEF StaysDone
    <3> QED BY <3>1, <3>2
  <2>7. CASE ~t.clear
    <3>1. Grows /\ Losing({})
      BY <1>1, <1>7, <2>7, UpSame
    <3>2. \A e \in plan.active : Kept(e)'
      BY <1>1, <3>1, UpStays
    <3> QED BY <1>1, <2>3, <2>4, <2>5, <2>6, <3>1, <3>2, UpGoOn
  <2>8. CASE t.clear
    <3>1. t.new = t.port /\ (plan.force \/ t.new \in plan.override)
      BY <1>3, <2>8 DEF Marked
    <3>2. PICK d : d = Up!Of(t.new)
      OBVIOUS
    <3>3. d \in PortNumbers \X Nat /\ d[1] = t.port
      BY <1>3, <1>5, <3>1, <3>2, UpPlan DEF Up!Of
    <3>4. active' = active \ {d} /\ installed' = installed \ {d} /\ d[1] \in depscache
          /\ ((plan.old /\ d # Up!Of(d[1])) \/ plan.force \/ d[1] \in plan.override)
      BY <1>5, <1>7, <2>8, <3>1, <3>2, <3>3
    <3>5. Grows /\ Losing({d[1]})
      BY <1>1, <3>3, <3>4, UpRemoved
    <3>6. PICK P : P = {t.port}
      OBVIOUS
    <3>7. Losing(P) /\ P \subseteq {Up!top.port} /\ (Up!top.fresh => P = {})
      BY <1>2, <1>5, <3>3, <3>5, <3>6
    <3>8. \A e \in plan.active : Kept(e)' \/ Awaits(f, e)'
      <4> TAKE e \in plan.active
      <4>1. CASE t.port \in Successors(e)
        <5>1. Successors(e)' = Successors(e)
          BY <1>1 DEF Successors
        <5>2. Awaits(f, e)'
          BY <1>5, <2>3, <3>1, <4>1, <5>1 DEF Awaits
        <5> QED BY <5>2
      <4>2. CASE t.port \notin Successors(e)
        <5>1. P \cap Successors(e) = {}
          BY <3>6, <4>2
        <5> QED BY <1>4, <3>5, <3>7, <5>1, KeptOn
      <4> QED BY <4>1, <4>2
    <3> QED BY <1>1, <2>3, <2>4, <2>5, <2>6, <3>5, <3>7, <3>8, UpReplace
  <2> QED BY <2>7, <2>8
<1>8. \/ Up!Return(1) /\ UNCHANGED <<installed, active>>
      \/ /\ Up!Go([t EXCEPT !.pc = "deactivate",
                     !.was = IF t.clear /\ <<t.port, @>> = Up!Of(t.new) THEN 0 ELSE @])
         /\ IF t.clear
             THEN installed' = installed \ {Up!Of(t.new)} /\ active' = active \ {Up!Of(t.new)}
             ELSE UNCHANGED <<installed, active>>
  BY <1>2 DEF Up!Clear
<1> QED BY <1>6, <1>7, <1>8

LEMMA UpDeactivate == UpInv /\ Up!Deactivate => UpInv'
<1> SUFFICES ASSUME UpInv, Up!Deactivate PROVE UpInv'
    OBVIOUS
<1>1. /\ stack # <<>> /\ Up!top.pc = "deactivate"
      /\ plan' = plan /\ installed' = installed /\ depscache' = depscache /\ broken' = broken
  BY DEF Up!Deactivate, Up!At
<1>2. PICK t : t = Up!top
  OBVIOUS
<1>3. t \in UpFrame /\ Marked(t) /\ UpTypes /\ t.pc = "deactivate"
      /\ \A e \in plan.active : Kept(e) \/ Awaits(t, e)
  BY <1>1, <1>2, UpTopCall
<1>4. ~t.fresh /\ t.port \in PortNumbers /\ t.new \in PortNumbers
      /\ t.new = plan.replaced[t.port]
  BY <1>3 DEF Marked
<1>5. CASE t.new # t.port /\ Up!Return(1) /\ active' = active
  <2>1. Grows /\ Losing({}) /\ \A e : Kept(e) => Kept(e)'
    BY <1>1, <1>5, UpSame
  <2>2. \A e \in plan.active : Kept(e)'
    BY <1>3, <1>5, <2>1 DEF Awaits
  <2> QED BY <1>1, <1>5, <2>1, <2>2, UpReturn
<1>6. ASSUME Up!Go([t EXCEPT !.pc = "activate"]),
             active' = IF t.was # 0 /\ t.new # t.port
                       THEN {e \in active : e # <<t.port, t.was>>} ELSE active
      PROVE  UpInv'
  <2>1. PICK f : f = [t EXCEPT !.pc = "activate"]
    OBVIOUS
  <2>2. f \in UpFrame /\ f.port = t.port /\ f.new = t.new /\ f.fresh = t.fresh
        /\ f.pc = "activate" /\ f.clear = t.clear
    BY <1>3, <2>1 DEF UpFrame
  <2>3. stack' = Up!Top(f)
    BY <1>6, <2>1 DEF Up!Go
  <2>4. f.port = Up!top.port /\ (Up!top.fresh => f.fresh)
    BY <1>2, <2>2
  <2>5. Marked(f)'
    BY <1>1, <1>3, <1>4, <2>2 DEF Marked
  <2>6. StaysDone(f)'
    BY <2>2 DEF StaysDone
  <2>7. \A e \in plan.active : Successors(e)' = Successors(e)
    BY <1>1 DEF Successors
  <2>8. \A e \in plan.active : t.new \in Successors(e) => Awaits(f, e)'
    BY <1>4, <2>2, <2>7 DEF Awaits
  <2>9. CASE active' = active
    <3>1. Grows /\ Losing({}) /\ \A e : Kept(e) => Kept(e)'
      BY <1>1, <2>9, UpSame
    <3>2. \A e \in plan.active : Kept(e)' \/ Awaits(f, e)'
      BY <1>3, <2>8, <3>1 DEF Awaits
    <3> QED BY <1>1, <2>2, <2>3, <2>4, <2>5, <2>6, <3>1, <3>2, UpGoOn
  <2>10. CASE t.new # t.port /\ active' = {e \in active : e # <<t.port, t.was>>}
    <3>1. PICK d : d = <<t.port, t.was>>
      OBVIOUS
    <3>2. d \in PortNumbers \X Nat /\ d[1] = t.port
      BY <1>3, <1>4, <3>1 DEF UpFrame
    <3>3. active' = active \ {d}
      BY <2>10, <3>1
    <3>4. Grows /\ Losing({d[1]})
      BY <1>1, <3>2, <3>3, UpRemoved
    <3>5. PICK P : P = {t.port}
      OBVIOUS
    <3>6. Losing(P) /\ P \subseteq {Up!top.port} /\ (Up!top.fresh => P = {})
      BY <1>2, <1>4, <3>2, <3>4, <3>5
    <3>7. \A e \in plan.active : Kept(e)' \/ Awaits(f, e)'
      <4> TAKE e \in plan.active
      <4>1. Kept(e)
        BY <1>3, <2>10 DEF Awaits
      <4>2. CASE t.port \notin Successors(e)
        <5>1. P \cap Successors(e) = {}
          BY <3>5, <4>2
        <5> QED BY <3>4, <3>6, <4>1, <5>1, KeptOn
      <4>3. CASE t.port \in Successors(e)
        <5>1. e[1] \in PortNumbers
          <6>1. Up!IsPlan(plan)
            BY <1>3, UpPlan
          <6>2. plan.active \subseteq PortNumbers \X (Nat \ {0})
            BY <6>1 DEF Up!IsPlan
          <6> QED BY <6>2
        <5>2. plan.replaced[plan.replaced[e[1]]] = plan.replaced[e[1]]
          BY <1>3, <5>1, UpPlan
        <5>3. CASE t.port = e[1]
          BY <1>4, <2>8, <5>3 DEF Successors
        <5>4. CASE t.port = plan.replaced[e[1]]
          BY <1>4, <2>10, <5>2, <5>4
        <5> QED BY <4>3, <5>3, <5>4 DEF Successors
      <4> QED BY <4>2, <4>3
    <3> QED BY <1>1, <2>2, <2>3, <2>4, <2>5, <2>6, <3>4, <3>6, <3>7, UpReplace
  <2> QED BY <1>6, <2>9, <2>10
<1>7. \/ t.new # t.port /\ Up!Return(1) /\ active' = active
      \/ /\ Up!Go([t EXCEPT !.pc = "activate"])
         /\ active' = IF t.was # 0 /\ t.new # t.port
                      THEN {e \in active : e # <<t.port, t.was>>} ELSE active
  BY <1>2 DEF Up!Deactivate
<1> QED BY <1>5, <1>6, <1>7

LEMMA UpAfter ==
    ASSUME UpInv, stack # <<>>, Grows, Losing({}), NEW n, n = Up!top.new,
           n \in broken' \/ Up!IsActive(n)'
    PROVE  \A e \in plan.active : Kept(e)'
<1> SUFFICES ASSUME NEW e \in plan.active PROVE Kept(e)'
    OBVIOUS
<1>1. Kept(e) \/ Awaits(Up!top, e)
  BY UpTopCall
<1>2. CASE Kept(e)
  <2>1. {} \cap Successors(e) = {}
    OBVIOUS
  <2> QED BY <1>2, <2>1, KeptOn
<1>3. CASE Awaits(Up!top, e)
  <2>1. n \in Successors(e)
    BY <1>3 DEF Awaits
  <2>2. Successors(e)' = Successors(e)
    BY DEF Successors, Grows
  <2> QED BY <2>1, <2>2 DEF Kept
<1> QED BY <1>1, <1>2, <1>3

LEMMA UpActivate == UpInv /\ Up!Activate => UpInv'
<1> SUFFICES ASSUME UpInv, Up!Activate PROVE UpInv'
    OBVIOUS
<1>1. /\ stack # <<>> /\ Up!top.pc = "activate" /\ plan' = plan /\ broken' = broken
      /\ depscache \subseteq depscache'
  BY DEF Up!Activate, Up!At
<1>2. PICK n : n = Up!top.new
  OBVIOUS
<1>3. n \in PortNumbers
  BY <1>1, <1>2, UpTopCall DEF Marked
<1>4. PICK S : S = Up!Missing(n) \cup {n}
  OBVIOUS
<1>5. S \subseteq PortNumbers /\ n \in S /\ broken \subseteq broken'
  BY <1>1, <1>3, <1>4, MissingPorts
<1>6. installed' = Up!Installed(S) /\ active' = Up!Activated(S)
  BY <1>2, <1>4 DEF Up!Activate
<1>7. Grows /\ Losing({}) /\ Up!Of(n) \in active' /\ Up!IsActive(n)'
  BY <1>1, <1>5, <1>6, UpActivates
<1>8. \A e \in plan.active : Kept(e)'
  BY <1>1, <1>2, <1>7, UpAfter
<1>9. CASE Up!top.fresh
  <2>1. Up!Return(0)
    BY <1>9 DEF Up!Activate
  <2> QED BY <1>1, <1>7, <1>8, <2>1, UpReturn
<1>10. CASE ~Up!top.fresh
  <2>1. Up!ThenDependents(Up!top)
    BY <1>10 DEF Up!Activate
  <2>2. Up!Of(n)' \in active'
    BY <1>1, <1>7 DEF Up!Of
  <2> QED BY <1>1, <1>2, <1>7, <1>8, <1>10, <2>1, <2>2, UpThenDependents
<1> QED BY <1>9, <1>10

LEMMA UpBreaks ==
    ASSUME UpInv, NEW n \in PortNumbers, Up!Breaks(n), plan' = plan, depscache' = depscache,
           broken' = broken \cup {n}
    PROVE  Grows /\ Losing({})
<1>1. broken \subseteq broken' /\ depscache \subseteq depscache'
  OBVIOUS
<1>2. CASE UNCHANGED <<installed, active>>
  BY <1>1, <1>2, UpSame
<1>3. ASSUME NEW D \in Up!Partly(n), installed' = Up!Installed(D), active' = Up!Activated(D)
      PROVE  Grows /\ Losing({})
  <2>1. D \subseteq PortNumbers
    BY MissingPorts
  <2> QED BY <1>1, <1>3, <2>1, UpActivates
<1>4. ASSUME installed' = Up!Installed(Up!Missing(n) \cup {n}), NEW gone \in {{}, {n}},
             active' = {e \in Up!Activated(Up!Missing(n)) : e[1] \notin gone}
      PROVE  Grows /\ Losing({})
  <2>1. PICK S, T : S = Up!Missing(n) /\ T = Up!Missing(n) \cup {n}
    OBVIOUS
  <2>2. S \subseteq PortNumbers /\ T \subseteq PortNumbers /\ installed' = Up!Installed(T)
    BY <1>4, <2>1, MissingPorts
  <2>3. gone \subseteq broken' /\ \A e : e \in active' <=> e \in Up!Activated(S) /\ e[1] \notin gone
    BY <1>4, <2>1
  <2> QED BY <1>1, <2>2, <2>3, UpActivated
<1> QED BY <1>2, <1>3, <1>4 DEF Up!Breaks

LEMMA UpActivateFails == UpInv /\ Up!ActivateFails => UpInv'
<1> SUFFICES ASSUME UpInv, Up!ActivateFails PROVE UpInv'
    OBVIOUS
<1>1. /\ stack # <<>> /\ Up!top.pc = "activate" /\ plan' = plan
      /\ depscache' = depscache
  BY DEF Up!ActivateFails, Up!At
<1>2. PICK n : n = Up!top.new
  OBVIOUS
<1>3. n \in PortNumbers /\ broken' = broken \cup {n}
  <2>1. n \in PortNumbers
    BY <1>1, <1>2, UpTopCall DEF Marked
  <2> QED BY <1>2, <2>1 DEF Up!ActivateFails
<1>4. \/ Up!Breaks(n) /\ IF Up!top.fresh THEN Up!Return(1) ELSE Up!ThenDependents(Up!top)
      \/ Up!Return(1) /\ UNCHANGED <<installed, active>>
  BY <1>2 DEF Up!ActivateFails
<1>5. Grows /\ Losing({})
  <2>1. CASE Up!Breaks(n)
    BY <1>1, <1>3, <2>1, UpBreaks
  <2>2. CASE UNCHANGED <<installed, active>>
    BY <1>1, <1>3, <2>2, UpSame
  <2> QED BY <1>4, <2>1, <2>2
<1>6. \A e \in plan.active : Kept(e)'
  BY <1>1, <1>2, <1>3, <1>5, UpAfter
<1>7. CASE Up!Return(1)
  BY <1>1, <1>5, <1>6, <1>7, UpReturn
<1>8. CASE ~Up!top.fresh /\ Up!ThenDependents(Up!top)
  <2>1. n \in broken'
    BY <1>3
  <2> QED BY <1>1, <1>2, <1>5, <1>6, <1>8, <2>1, UpThenDependents
<1> QED BY <1>4, <1>7, <1>8

LEMMA UpDependentsDone == UpInv /\ Up!DependentsDone => UpInv'
<1> SUFFICES ASSUME UpInv, Up!DependentsDone PROVE UpInv'
    OBVIOUS
<1>1. /\ stack # <<>> /\ Up!top.pc = "dependents"
      /\ UNCHANGED <<plan, installed, active>> /\ depscache' = depscache /\ broken' = broken
  BY DEF Up!DependentsDone, Up!At, Up!Same
<1>2. Grows /\ Losing({})
  BY <1>1, UpSame
<1>3. \A e \in plan.active : Kept(e)'
  BY <1>1, <1>2, UpStays
<1>4. CASE Up!Return(0)
  BY <1>1, <1>2, <1>3, <1>4, UpReturn
<1>5. CASE /\ Up!top.install /\ plan.old /\ Up!top.new = Up!top.port
           /\ Up!Go([Up!top EXCEPT !.pc = "old", !.todo = Up!OldVersions(Up!top)])
  <2>1. PICK t : t = Up!top
    OBVIOUS
  <2>2. t \in UpFrame /\ Marked(t) /\ StaysDone(t) /\ t.pc = "dependents"
    BY <1>1, <2>1, UpTopCall
  <2>3. PICK d : d = t.ilist \ {plan.tree[t.new]}
    OBVIOUS
  <2>4. d \subseteq Nat
    BY <2>2, <2>3 DEF UpFrame
  <2>5. PICK f : f = [t EXCEPT !.pc = "old", !.todo = d]
    OBVIOUS
  <2>6. f \in UpFrame /\ f.port = t.port /\ f.new = t.new /\ f.fresh = t.fresh
        /\ f.pc = "old" /\ f.clear = t.clear /\ f.install = t.install /\ f.todo = d
    BY <2>2, <2>4, <2>5 DEF UpFrame
  <2>7. stack' = Up!Top(f)
    BY <1>5, <2>1, <2>3, <2>5 DEF Up!Go, Up!OldVersions
  <2>8. t.install /\ plan.old /\ t.new = t.port
    BY <1>5, <2>1
  <2>9. Marked(f)'
    BY <1>1, <2>2, <2>3, <2>6, <2>8 DEF Marked
  <2>10. StaysDone(f)'
    BY <1>1, <2>2, <2>6 DEF StaysDone, Up!Of
  <2>11. f.port = Up!top.port /\ (Up!top.fresh => f.fresh)
    BY <2>1, <2>6
  <2> QED BY <1>1, <1>2, <1>3, <2>6, <2>7, <2>9, <2>10, <2>11, UpGoOn
<1> QED BY <1>4, <1>5 DEF Up!DependentsDone

LEMMA UpUninstallOld == UpInv /\ Up!UninstallOld => UpInv'
<1> SUFFICES ASSUME UpInv, Up!UninstallOld PROVE UpInv'
    OBVIOUS
<1>1. /\ stack # <<>> /\ Up!top.pc = "old" /\ plan' = plan
      /\ depscache' = depscache /\ broken' = broken
  BY DEF Up!UninstallOld, Up!At
<1>2. CASE Up!Return(0) /\ UNCHANGED <<installed, active>>
  <2>1. Grows /\ Losing({})
    BY <1>1, <1>2, UpSame
  <2>2. \A e \in plan.active : Kept(e)'
    BY <1>1, <2>1, UpStays
  <2> QED BY <1>1, <1>2, <2>1, <2>2, UpReturn
<1>3. CASE Up!Return(1) /\ UNCHANGED <<installed, active>>
  <2>1. Grows /\ Losing({})
    BY <1>1, <1>3, UpSame
  <2>2. \A e \in plan.active : Kept(e)'
    BY <1>1, <2>1, UpStays
  <2> QED BY <1>1, <1>3, <2>1, <2>2, UpReturn
<1>4. PICK t : t = Up!top
  OBVIOUS
<1>5. PICK v : v = Up!Least(t.todo)
  OBVIOUS
<1>6. ASSUME t.todo # {}, Up!Go([t EXCEPT !.todo = @ \ {v}]),
             \/ UNCHANGED <<installed, active>>
             \/ /\ installed' = installed \ {<<t.port, v>>}
                /\ active' = active \ {<<t.port, v>>}
      PROVE  UpInv'
  <2>1. t \in UpFrame /\ Marked(t) /\ StaysDone(t) /\ t.pc = "old" /\ UpTypes
        /\ \A e \in plan.active : Kept(e) \/ Awaits(t, e)
    BY <1>1, <1>4, UpTopCall
  <2>2. \A e \in plan.active : Kept(e)
    BY <2>1 DEF Awaits
  <2>3. PICK f : f = [t EXCEPT !.todo = @ \ {v}]
    OBVIOUS
  <2>4. f \in UpFrame /\ f.port = t.port /\ f.new = t.new /\ f.fresh = t.fresh
        /\ f.pc = "old" /\ f.clear = t.clear /\ f.install = t.install /\ f.todo = t.todo \ {v}
    BY <2>1, <2>3 DEF UpFrame
  <2>5. stack' = Up!Top(f)
    BY <1>6, <2>3 DEF Up!Go
  <2>6. Marked(f)'
    BY <1>1, <2>1, <2>4 DEF Marked
  <2>7. f.port = Up!top.port /\ (Up!top.fresh => f.fresh)
    BY <1>4, <2>4
  <2>8. CASE UNCHANGED <<installed, active>>
    <3>1. Grows /\ Losing({})
      BY <1>1, <2>8, UpSame
    <3>2. \A e \in plan.active : Kept(e)'
      BY <1>1, <3>1, UpStays
    <3>3. StaysDone(f)'
      BY <1>1, <2>1, <2>4, <2>8 DEF StaysDone, Up!Of
    <3> QED BY <1>1, <2>4, <2>5, <2>6, <2>7, <3>1, <3>2, <3>3, UpGoOn
  <2>9. CASE /\ installed' = installed \ {<<t.port, v>>}
             /\ active' = active \ {<<t.port, v>>}
    <3>1. /\ plan.old /\ t.install /\ t.new = t.port /\ plan.tree[t.port] \notin t.todo
          /\ ~t.fresh /\ t.port \in PortNumbers /\ t.port \in depscache
      BY <2>1 DEF Marked
    <3>2. PICK p : p = t.port
      OBVIOUS
    <3>3. v \in Nat /\ v # plan.tree[p]
      <4>1. t.todo \subseteq Nat
        BY <2>1 DEF UpFrame
      <4>2. v \in t.todo
        BY <1>5, <1>6, <4>1, LeastUp
      <4> QED BY <3>1, <3>2, <4>1, <4>2
    <3>4. PICK d : d = <<p, v>>
      OBVIOUS
    <3>5. d \in PortNumbers \X Nat /\ d[1] = p /\ d # Up!Of(p) /\ p \in depscache
      BY <3>1, <3>2, <3>3, <3>4 DEF Up!Of
    <3>6. active' = active \ {d} /\ installed' = installed \ {d}
      BY <2>9, <3>2, <3>4
    <3>7. Grows /\ Losing({d[1]})
          /\ (Up!Of(d[1]) \in active /\ d # Up!Of(d[1]) => Up!Of(d[1])' \in active')
      BY <1>1, <3>1, <3>5, <3>6, UpRemoved
    <3>8. p \in broken' \/ Up!Of(p)' \in active'
      <4>1. p \in broken \/ Up!Of(p) \in active
        BY <2>1, <3>1, <3>2 DEF StaysDone
      <4>2. Up!Of(p) \in active => Up!Of(p)' \in active'
        BY <3>5, <3>7 DEF Up!Of
      <4> QED BY <1>1, <4>1, <4>2
    <3>9. StaysDone(f)'
      BY <2>4, <3>1, <3>2, <3>8 DEF StaysDone, Up!Of
    <3>10. PICK P : P = {p}
      OBVIOUS
    <3>11. Losing(P) /\ P \subseteq {Up!top.port} /\ (Up!top.fresh => P = {})
      BY <1>4, <3>1, <3>2, <3>5, <3>7, <3>10
    <3>12. \A e \in plan.active : Kept(e)' \/ Awaits(f, e)'
      <4> TAKE e \in plan.active
      <4>1. CASE p \in Successors(e)
        <5>1. Successors(e)' = Successors(e)
          BY <1>1 DEF Successors
        <5>2. Up!Of(p)' \in active' => Up!IsActive(p)'
          BY DEF Up!IsActive, Up!VersionsIn, Up!Of
        <5> QED BY <3>8, <4>1, <5>1, <5>2 DEF Kept
      <4>2. CASE p \notin Successors(e)
        <5>1. P \cap Successors(e) = {}
          BY <3>10, <4>2
        <5> QED BY <2>2, <3>7, <3>11, <5>1, KeptOn
      <4> QED BY <4>1, <4>2
    <3> QED BY <1>1, <2>4, <2>5, <2>6, <2>7, <3>7, <3>9, <3>11, <3>12, UpReplace
  <2> QED BY <1>6, <2>8, <2>9
<1>7. \/ Up!Return(0) /\ UNCHANGED <<installed, active>>
      \/ Up!Return(1) /\ UNCHANGED <<installed, active>>
      \/ /\ t.todo # {} /\ Up!Go([t EXCEPT !.todo = @ \ {v}])
         /\ \/ UNCHANGED <<installed, active>>
            \/ /\ installed' = installed \ {<<t.port, v>>}
               /\ active' = active \ {<<t.port, v>>}
  BY <1>4, <1>5 DEF Up!UninstallOld
<1> QED BY <1>2, <1>3, <1>6, <1>7

LEMMA UpStep == UpInv /\ Up!Next => UpInv'
BY UpAsk, UpLookFails, UpLookFresh, UpLookInstalled, UpFollow, UpGiveUp, UpDependenciesDone,
   UpInstall, UpClear, UpDeactivate, UpActivate, UpActivateFails, UpDependentsDone,
   UpUninstallOld
   DEF Up!Next

-----------------------------------------------------------------------------
(* Both, as the subject of a behaviour.                                      *)

PortsInv == (subject = "uninstall" => UnInv) /\ (subject = "upgrade" => UpInv)

LEMMA PortsStart == CommandsInit => PortsInv
BY UnInit, UpInit DEF CommandsInit, PortsInv

LEMMA UnStutter == UnInv /\ UNCHANGED <<ports, uninstallVars>> => UnInv'
<1> SUFFICES ASSUME UnInv, UNCHANGED <<ports, uninstallVars>> PROVE UnInv'
    OBVIOUS
<1>1. /\ plan' = plan /\ installed' = installed /\ active' = active /\ stack' = stack
      /\ forced' = forced /\ command' = command /\ thrown' = thrown /\ before' = before
  BY DEF ports, uninstallVars
<1>2. UnTypes'
  BY <1>1 DEF UnInv, UnTypes
<1>3. UnCalls'
  <2>1. Above' = Above /\ Below' = Below
    BY <1>1 DEF Above, Below, Un!Above, Un!Below, Un!Reached
  <2>2. ASSUME NEW f PROVE (IsAsked(f) => IsAsked(f)') /\ (Follows(f) => Follows(f)')
    BY <1>1, <2>1 DEF IsAsked, Follows, Uses
  <2>3. \A f, c : Stands(f, c, installed, active, forced)
                  => Stands(f, c, installed, active, forced)'
    BY <1>1 DEF Stands
  <2>4. \A i : Called(i)' = Called(i)
    BY <1>1 DEF Called
  <2>5. UnCalls
    BY DEF UnInv
  <2>6. ASSUME NEW i \in 1 .. Len(stack)
        PROVE  /\ IsAsked(stack[i])' /\ Follows(stack[i])'
               /\ Stands(stack[i], Called(i), installed, active, forced)
                  => Stands(stack[i], Called(i), installed, active, forced)'
    <3>1. PICK f, c : f = stack[i] /\ c = Called(i)
      OBVIOUS
    <3>2. f = stack'[i] /\ c = Called(i)'
      BY <1>1, <2>4, <3>1
    <3>3. IsAsked(f) /\ Follows(f)
      BY <2>5, <2>6, <3>1 DEF UnCalls
    <3>4. IsAsked(f)' /\ Follows(f)'
      BY <2>2, <3>3
    <3>5. IsAsked(stack[i])' /\ Follows(stack[i])'
      BY <3>2, <3>4
    <3>6. Stands(f, c, installed, active, forced) => Stands(f, c, installed, active, forced)'
      BY <2>3
    <3>7. Stands(stack[i], Called(i), installed, active, forced)
          => Stands(stack[i], Called(i), installed, active, forced)'
      BY <3>1, <3>2, <3>6
    <3> QED BY <3>5, <3>7
  <2> QED BY <1>1, <2>5, <2>6 DEF UnCalls
<1>4. Un!NeededKept'
  <2>1. \A n : Un!Versions(n)' = Un!Versions(n)
    BY <1>1 DEF Un!Versions
  <2>2. Un!NeededKept
    BY DEF UnInv
  <2> QED BY <1>1, <2>1, <2>2 DEF Un!NeededKept
<1>5. Un!OnlyAsked'
  <2>1. Above' = Above /\ Below' = Below
    BY <1>1 DEF Above, Below, Un!Above, Un!Below, Un!Reached
  <2>2. before \ installed \subseteq
            (IF command.up THEN Above ELSE {command.entry})
            \cup (IF command.down THEN Below ELSE {})
    BY DEF UnInv, Un!OnlyAsked, Above, Below
  <2>3. (before \ installed \subseteq
            (IF command.up THEN Above ELSE {command.entry})
            \cup (IF command.down THEN Below ELSE {}))'
    BY <1>1, <2>1, <2>2
  <2> QED BY <2>3 DEF Un!OnlyAsked, Above, Below
<1> QED BY <1>2, <1>3, <1>4, <1>5 DEF UnInv

LEMMA UpStutter == UpInv /\ UNCHANGED <<ports, upgradeVars>> => UpInv'
<1> SUFFICES ASSUME UpInv, UNCHANGED <<ports, upgradeVars>> PROVE UpInv'
    OBVIOUS
<1>1. /\ plan' = plan /\ installed' = installed /\ active' = active /\ stack' = stack
      /\ broken' = broken /\ depscache' = depscache
  BY DEF ports, upgradeVars
<1>2. UpTypes' /\ Up!OnlyOldGone'
  BY <1>1 DEF UpInv, UpTypes, Up!OnlyOldGone, Up!Of
<1>3. UpCalls'
  BY ZenonT(60), <1>1 DEF UpInv, UpCalls, Marked, StaysDone, Up!Of
<1>4. (\A e \in plan.active : Kept(e) \/ Coming(e))'
  BY <1>1 DEF UpInv, Kept, Successors, Coming, Awaits, Up!IsActive, Up!VersionsIn
<1> QED BY <1>2, <1>3, <1>4 DEF UpInv

LEMMA PortsStep == PortsInv /\ [CommandsNext]_allVars => PortsInv'
<1> SUFFICES ASSUME PortsInv, [CommandsNext]_allVars PROVE PortsInv'
    OBVIOUS
<1>1. subject' = subject
  BY DEF CommandsNext, LockSteps, BuildSteps, UninstallSteps, UpgradeSteps, allVars
<1>2. CASE subject = "uninstall"
  <2>1. UnInv
    BY <1>2 DEF PortsInv
  <2>2. Un!Next \/ UNCHANGED <<ports, uninstallVars>>
    BY <1>2 DEF CommandsNext, LockSteps, BuildSteps, UninstallSteps, UpgradeSteps, allVars
  <2>3. UnInv'
    BY <2>1, <2>2, UnStep, UnStutter
  <2> QED BY <1>1, <1>2, <2>3 DEF PortsInv
<1>3. CASE subject = "upgrade"
  <2>1. UpInv
    BY <1>3 DEF PortsInv
  <2>2. Up!Next \/ UNCHANGED <<ports, upgradeVars>>
    BY <1>3 DEF CommandsNext, LockSteps, BuildSteps, UninstallSteps, UpgradeSteps, allVars
  <2>3. UpInv'
    BY <2>1, <2>2, UpStep, UpStutter
  <2> QED BY <1>1, <1>3, <2>3 DEF PortsInv
<1> QED BY <1>1, <1>2, <1>3 DEF PortsInv

\* Uninstalling: while nothing is forced, what an installed port depends on keeps
\* an active version, if it had one, at every moment, though a command may follow
\* dependents and dependencies, any step may fail and the error may be caught half
\* way (run_target); and only what was asked for goes, and what follows from it.
\* Upgrading: a port that was active is active in some version when the command
\* ends, or its replacement is, unless that could not be activated; and only old
\* versions go, and those that are built again (registry_uninstall::uninstall,
\* _upgrade of macports.tcl).
THEOREM PortsAreSafeCorrect == CommandsSpec => []PortsAreSafe
<1>1. UpInv => Up!ActiveKept /\ Up!OnlyOldGone
  <2> SUFFICES ASSUME UpInv PROVE Up!ActiveKept /\ Up!OnlyOldGone
      OBVIOUS
  <2>1. ASSUME Up!Ended, NEW e \in plan.active
        PROVE  \E n \in Successors(e) : n \in broken \/ Up!IsActive(n)
    BY <2>1 DEF UpInv, Kept, Coming, Up!Ended
  <2>2. Up!ActiveKept
    BY <2>1 DEF Up!ActiveKept, Successors
  <2> QED BY <2>2 DEF UpInv
<1>2. PortsInv => PortsAreSafe
  BY <1>1 DEF PortsInv, PortsAreSafe, UnInv
<1> QED BY <1>2, PortsStart, PortsStep, PTL DEF CommandsSpec
===============================================================================
