------------------------------ MODULE MCBaseTools -----------------------------
(* The C code behind the commands of base, beside the registry's transactions,  *)
(* for TLC. As in MCThreadExtension a behaviour is one of the subject it has    *)
(* from the start, the variables of the others stay 0, and variables of one     *)
(* name are the subject's.                                                      *)
EXTENDS Integers, FiniteSets, Sequences, TLC

CONSTANTS Subjects,  \* those that are checked
          Tracees, Conns, NoConn, Slots, TracePlans,
          InstallOptions, InstallFaults, MaxInstallFaults,
          MaxLines, PipeSize, NumFds,
          None, FileProcs, Entries, FilePaths, Name, Books, Lists, MaxCalls, Bare

VARIABLES subject, plan, calls, answer, pc, status,
          lib, main, slave, conn, proc, seen, tried,
          opt, existed, links, names, node, fd, rw, match, parent, faults, removed,
          db, work, writer, call, handles,
          copy, versionA, versionB, ptrA, ptrB, order,
          fdset, fds, read_failed, shell, code, back, other, writers, pipe, printed, shown, cut,
          task, ignore, targets, tree, stayed, todo, ent, skip, given, failed, changes,
          files, binary, uses, asked, parse, table, size, mapped, broken, missed, heap

traceVars == <<lib, main, slave, conn, proc, seen, tried>>
installVars == <<opt, existed, links, names, node, fd, rw, match, parent, faults, removed>>
ownerVars == <<db, work, writer, call, handles>>
versionVars == <<copy, versionA, versionB, ptrA, ptrB, order>>
systemVars == <<fdset, fds, read_failed, shell, code, back, other, writers, pipe, printed,
                shown, cut>>
walkVars == <<task, ignore, targets, tree, stayed, todo, ent, skip, given, failed, changes>>
scanVars == <<files, binary, uses, asked, parse, table, size, mapped, broken, missed, heap>>
sharedVars == <<subject, plan, calls, answer, pc, status>>
vars == <<sharedVars, traceVars, installVars, ownerVars, versionVars, systemVars, walkVars,
          scanVars>>

-------------------------------------------------------------------------------
(* Trace mode: a target that is not fenced and then one that is, with processes *)
(* that live on; every kind of file; children; a target whose prerun fails.     *)

Fenced == [fence |-> TRUE, deps |-> {"declared"}, fails |-> FALSE]
TracePlan(goals, n, does, paths) ==
    [targets |-> goals, calls |-> n, does |-> does, paths |-> paths, wakes |-> TRUE]
MCTracePlans ==
    {TracePlan(<<[Fenced EXCEPT !.fails = TRUE]>>, 0, {}, {}),
     TracePlan(<<[Fenced EXCEPT !.fence = FALSE], Fenced>>, 2, {"access"},
               {"undeclared", "outside"}),
     TracePlan(<<Fenced>>, 2, {"access"}, {"sandbox", "declared", "undeclared", "outside"}),
     TracePlan(<<Fenced>>, 3, {"access", "fork", "exec"}, {"undeclared"})}
Tr == INSTANCE Trace WITH
    Procs <- Tracees, Plans <- TracePlans
ASSUME TraceAssumption == Tr!TraceAssumption
ASSUME TraceLimits == Tr!WithinLimits

(* install: every combination of the options, up to two failures.               *)

MCInstallOptions == [safe : BOOLEAN, backup : BOOLEAN, compare : BOOLEAN, strip : BOOLEAN]
Inst == INSTANCE Install WITH
    Options <- InstallOptions, MaxFaults <- MaxInstallFaults, Faults <- InstallFaults
ASSUME InstallAssumption == Inst!InstallAssumption

(* Files of the registry: two ports that have a file of one path. m1 is active,  *)
(* n1 is not; or n1 is, with a moved out of the way, and depends on m; or is     *)
(* still to be installed. Two processes, one of which makes two calls.           *)

Row(where) == [there |-> TRUE, at |-> where, active |-> where # None, binary |-> FALSE]
NoRow == [there |-> FALSE, at |-> None, active |-> FALSE, binary |-> FALSE]
Book(states, placed, deps) ==
    [state |-> states, deps |-> deps,
     rows |-> [r \in {"m1", "n1"} \X {"a", "b", "a_bak"} |->
                  IF r \in DOMAIN placed THEN Row(placed[r]) ELSE NoRow]]
MCBooks ==
    {Book("m1" :> "installed" @@ "n1" :> "imaged",
          <<"m1", "a">> :> "a" @@ <<"m1", "b">> :> "b" @@ <<"n1", "a">> :> None, {}),
     Book("m1" :> "installed" @@ "n1" :> "installed",
          <<"m1", "a">> :> "a" @@ <<"n1", "a">> :> "a_bak", {<<"n1", "m">>}),
     Book("m1" :> "installed" @@ "n1" :> "unmade", <<"m1", "a">> :> "a", {})}
BothFiles == <<<<"b", "b">>, <<"a", "a">>>>
OneFile == <<<<"a", "a">>>>
MCLists ==
    [map |-> {BothFiles}, unmap |-> {OneFile}, deactivate |-> {BothFiles, OneFile},
     activate |-> {BothFiles, OneFile, <<<<"a", "a_bak">>>>}]
MCPortNames == [m1 |-> "m", n1 |-> "n"]
MCFileCalls == [p1 |-> 2, p2 |-> 1]
Own == INSTANCE RegistryFiles WITH
    Procs <- FileProcs, Paths <- FilePaths, Nobody <- None, Stale <- FALSE, Silent <- FALSE
ASSUME FilesAssumption == Own!FilesAssumption
ASSUME FilesLimits == Own!WithinLimits

(* Versions of up to three characters out of 0 1 2 a b and a dot, with words of  *)
(* one letter (of longer ones the property fails, README); one ends    *)
(* with a dot.                                                                   *)

Digits == {48, 49, 50}
Letters == {97, 98}
Versions ==
    {v \in UNION {[1 .. n -> Digits \cup Letters \cup {46}] : n \in 0 .. 3} :
        /\ \A i \in 1 .. Len(v) - 1 : ~({v[i], v[i + 1]} \subseteq Letters)
        /\ v = <<49, 46>> \/ v = <<>> \/ v[Len(v)] # 46}
Vers == INSTANCE VersionCompare WITH Copies <- {"pextlib", "cregistry"}

(* system: two lines, a pipe that holds one, three descriptors.                  *)

System == INSTANCE SystemCmd WITH
    Others <- BOOLEAN
ASSUME SystemAssumption == System!SystemAssumption

(* fs-traverse: two targets, in the first a directory with two entries beside a  *)
(* file, and another process that changes one.                                   *)

WalkPaths == {<<1>>, <<1, 1>>, <<1, 1, 1>>, <<1, 1, 2>>, <<1, 2>>, <<2>>, <<2, 1>>}
Trees == {S \in SUBSET WalkPaths : \A p \in S : Len(p) = 1 \/ SubSeq(p, 1, Len(p) - 1) \in S}
Walk == INSTANCE Traverse WITH
    Paths <- WalkPaths, Dirs <- {<<1>>, <<1, 1>>, <<1, 1, 2>>, <<2>>},
    Targets <- {<<<<1>>>>, <<<<1>>, <<2>>>>}, MaxChanges <- 1

(* The scan of binaries: programs of one and of two architectures that load two  *)
(* libraries; the one library in every state a file may be in, the other with or *)
(* without an id; a hash map that grows, and names that share buckets.           *)

Load(path, v) == [type |-> "load", name |-> path, version |-> v, compat |-> v]
Id(v) == [type |-> "id", name |-> None, version |-> v, compat |-> v]
Rest == [type |-> "other", name |-> None, version |-> 0, compat |-> 0]
SliceOf(arch, cmds) ==
    [magic |-> TRUE, arch |-> arch, cmds |-> cmds, room |-> 2 + 2 * Len(cmds)]
Universal(slices) == [magic |-> "fat", cut |-> FALSE, slices |-> slices]
Thin(arch, cmds) == [magic |-> "thin", cut |-> FALSE, slices |-> <<SliceOf(arch, cmds)>>]
Without(magic) == [magic |-> magic, cut |-> FALSE, slices |-> <<>>]
Ending(f, room) == [f EXCEPT !.slices[1].room = room]
BothArchs == Universal(<<SliceOf("i386", <<Id(1)>>), SliceOf("x86_64", <<Id(2)>>)>>)
Tools == {Thin("x86_64", <<Load("lib", 2), Rest, Load("dep", 1)>>),
          Universal(<<SliceOf("i386", <<Load("lib", 2)>>),
                      SliceOf("x86_64", <<Id(1), Load("dep", 1)>>)>>)}
Libs == {Without("absent"), Without("short"), Without("other"), BothArchs,
         [BothArchs EXCEPT !.cut = TRUE], [BothArchs EXCEPT !.slices[2].magic = FALSE],
         Ending(BothArchs, 3), Universal(<<SliceOf("i386", <<>>)>>)}
        \cup {Ending(Thin("x86_64", <<Id(2)>>), n) : n \in 0 .. 4}
Deps == {Thin("x86_64", <<Id(1), Load("lib", 1)>>), Thin("i386", <<Rest>>)}
Prog == Thin("i386", <<Load("lib", 1), Load("tool", 1)>>)
ScanPlans ==
    {[disk |-> [tool |-> t, prog |-> Prog, lib |-> l, dep |-> d],
      binaries |-> <<"tool", "prog", "dep">>] : t \in Tools, l \in Libs, d \in Deps}
Scan == INSTANCE BinaryScan WITH
    Paths <- {"tool", "prog", "lib", "dep"},
    Hash <- [tool |-> 0, prog |-> 2, lib |-> 6, dep |-> 3], Plans <- ScanPlans, Capacity <- 2,
    Failing <- {"EFILE", "EMMAP", "create", "alloc", "entry"}, MaxFaults <- 1
ASSUME ScanAssumption == Scan!ScanAssumption

-------------------------------------------------------------------------------
NoTrace == lib = 0 /\ main = 0 /\ slave = 0 /\ conn = 0 /\ proc = 0 /\ seen = 0 /\ tried = 0
NoInstall == opt = 0 /\ existed = 0 /\ links = 0 /\ names = 0 /\ node = 0 /\ fd = 0 /\ rw = 0
             /\ match = 0 /\ parent = 0 /\ faults = 0 /\ removed = 0
NoOwners == db = 0 /\ work = 0 /\ writer = 0 /\ call = 0 /\ handles = 0
NoVersions == copy = 0 /\ versionA = 0 /\ versionB = 0 /\ ptrA = 0 /\ ptrB = 0 /\ order = 0
NoSystem == fdset = 0 /\ fds = 0 /\ read_failed = 0 /\ shell = 0 /\ code = 0 /\ back = 0
            /\ other = 0 /\ writers = 0 /\ pipe = 0 /\ printed = 0 /\ shown = 0 /\ cut = 0
NoWalk == task = 0 /\ ignore = 0 /\ targets = 0 /\ tree = 0 /\ stayed = 0 /\ todo = 0 /\ ent = 0
          /\ skip = 0 /\ given = 0 /\ failed = 0 /\ changes = 0
NoScan == files = 0 /\ binary = 0 /\ uses = 0 /\ asked = 0 /\ parse = 0 /\ table = 0 /\ size = 0
          /\ mapped = 0 /\ broken = 0 /\ missed = 0 /\ heap = 0

Init ==
    /\ subject \in Subjects
    /\ IF subject = "trace" THEN Tr!Init ELSE NoTrace
    /\ IF subject = "install" THEN Inst!Init ELSE NoInstall
    /\ IF subject = "owners" THEN Own!Init ELSE NoOwners
    /\ IF subject = "version" THEN Vers!Init ELSE NoVersions
    /\ IF subject = "system" THEN System!Init ELSE NoSystem
    /\ IF subject = "walk" THEN Walk!Init ELSE NoWalk
    /\ IF subject = "scan" THEN Scan!Init ELSE NoScan
    /\ subject \notin {"trace", "scan"} => plan = 0
    /\ subject \notin {"trace", "owners"} => calls = 0
    /\ subject \notin {"owners", "scan"} => answer = 0
    /\ subject \notin {"install", "owners", "system", "scan"} => pc = 0
    /\ subject \notin {"system", "walk"} => status = 0

TraceSteps(A) ==
    /\ subject = "trace" /\ A
    /\ UNCHANGED <<subject, answer, pc, status, installVars, ownerVars, versionVars, systemVars,
                   walkVars, scanVars>>
InstallSteps(A) ==
    /\ subject = "install" /\ A
    /\ UNCHANGED <<subject, plan, calls, answer, status, traceVars, ownerVars, versionVars,
                   systemVars, walkVars, scanVars>>
OwnerSteps(A) ==
    /\ subject = "owners" /\ A
    /\ UNCHANGED <<subject, plan, status, traceVars, installVars, versionVars, systemVars,
                   walkVars, scanVars>>
VersionSteps(A) ==
    /\ subject = "version" /\ A
    /\ UNCHANGED <<subject, plan, calls, answer, pc, status, traceVars, installVars, ownerVars,
                   systemVars, walkVars, scanVars>>
SystemSteps(A) ==
    /\ subject = "system" /\ A
    /\ UNCHANGED <<subject, plan, calls, answer, traceVars, installVars, ownerVars, versionVars,
                   walkVars, scanVars>>
WalkSteps(A) ==
    /\ subject = "walk" /\ A
    /\ UNCHANGED <<subject, plan, calls, answer, pc, traceVars, installVars, ownerVars,
                   versionVars, systemVars, scanVars>>
ScanSteps(A) ==
    /\ subject = "scan" /\ A
    /\ UNCHANGED <<subject, calls, status, traceVars, installVars, ownerVars, versionVars,
                   systemVars, walkVars>>

Next == \/ TraceSteps(Tr!Next) \/ InstallSteps(Inst!Next) \/ OwnerSteps(Own!Next)
        \/ VersionSteps(Vers!Next) \/ SystemSteps(System!Next) \/ WalkSteps(Walk!Next)
        \/ ScanSteps(Scan!Next)

\* The fairness of each component.
Spec ==
    /\ Init /\ [][Next]_vars
    /\ WF_vars(TraceSteps(Tr!Main)) /\ WF_vars(TraceSteps(Tr!Slave))
    /\ \A p \in Tracees : WF_vars(TraceSteps(Tr!Proceed(p)))
    /\ WF_vars(SystemSteps(System!Caller)) /\ WF_vars(SystemSteps(System!Start))

-------------------------------------------------------------------------------
\* A target that is traced has a socket, so that its processes need not abort;
\* and none of them gets at a file that is neither in the sandbox nor of a port
\* that the target depends on (tracelib.c, darwintrace.c, porttrace.tcl).
FenceHolds ==
    /\ [](subject = "trace" => Tr!SocketOpened)
    /\ [][subject = "trace" => \A p \in Tracees :
            /\ main.pc = "target" /\ proc[p].target = main.target
            /\ proc'[p].verdict = "allowed" /\ proc[p].verdict # "allowed"
            => Tr!Permitted(p)]_vars

\* install: success means the file is in place; with -S or -b the old content or
\* the new can be found at every moment (xinstall.c).
InstallIsSafe == subject = "install" => Inst!Delivered /\ Inst!OldOrNew

\* The rows of the files table are a map of who holds which path, that calls of
\* different processes change one at a time; and what a call of a transaction
\* reports as done it has done for every file (entry.c).
OwnersImplemented ==
    /\ subject = "owners" => Own!Owners!Init
    /\ [][subject = "owners" => Own!Owners!Step /\ Own!Reported]_vars

\* Both copies of vercmp return the order that is meant (vercomp.c).
ReturnsOrder == subject = "version" => Vers!ReturnsOrder

\* system: success means exit code 0 and every line shown (system.c).
OkMeansDone == subject = "system" => System!OkMeansDone

\* fs-traverse gives each entry to the script once, and leaves nothing that
\* delete, or the pruning of empty directories, was to remove (fs-traverse.c).
WalkIsComplete == subject = "walk" => Walk!EachOnce /\ Walk!TaskDone

\* The scan blames the binaries that lack a library, whatever else is parsed, and
\* every result in the cache is found again, allocated and what its file says, as
\* the hash map grows (macports.tcl, libmachista.c, hashmap.c).
BinariesScanned == subject = "scan" => Scan!ResultsKept /\ Scan!BrokenFound

\* A target's trace comes to its end, and so does every question of a process
\* (processes do a bounded number of things); system returns once its shell and
\* what that left in the background have ended.
CallsEnd == <>[](
    /\ subject = "trace" =>
        /\ main.pc \in {"idle", "target"}
        /\ \A p \in Tracees : proc[p].pc \notin {"askmap", "askdep"}
    /\ subject = "system" =>
        (shell \in {"ended", "reaped"} /\ back # "running" => pc = "done"))
===============================================================================
