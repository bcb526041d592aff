------------------------------ MODULE BinaryScan ------------------------------
(***************************************************************************)
(* rev-upgrade's scan of the installed binaries for missing or             *)
(* incompatible libraries: the part of revupgrade_scanandrebuild in        *)
(* src/macports1.0/macports.tcl between create_handle and destroy_handle,  *)
(* macho_parse_file of src/machista1.0/libmachista.c with its cache of     *)
(* results, and the hash map that is the cache (hashmap.c).                *)
(*                                                                         *)
(* A file is a sequence of slices, one per architecture; sizes are in      *)
(* units: a header is one, a load command two, of which the first is its   *)
(* struct load_command. Paths in load commands are resolved already, and   *)
(* in the prefix.                                                          *)
(***************************************************************************)
EXTENDS Naturals, Sequences, FiniteSets, SequencesExt

CONSTANTS
    Paths,          \* of binaries and libraries
    Hash,           \* doHash
    Plans,          \* the files, and those the registry has as binaries
    Capacity,       \* INITIAL_CAPACITY
    Failing,        \* what may fail: calls and allocations
    MaxFaults,      \* how often
    None

\* .magic is the file's, .cut that the table of a universal file is incomplete,
\* .room the units there are of a slice.
IsCommand(c) == c.type \in {"id", "load", "other"} /\ {c.version, c.compat} \subseteq Nat
                /\ (c.type = "load" => c.name \in Paths)
IsFile(f) ==
    /\ f.magic \in {"absent", "short", "thin", "fat", "other"} /\ f.cut \in BOOLEAN
    /\ f.magic = "thin" => Len(f.slices) = 1 /\ ~f.cut /\ f.slices[1].magic
    /\ f.magic = "fat" => f.slices # <<>>
    /\ \A i \in DOMAIN f.slices :
          /\ f.slices[i].magic \in BOOLEAN /\ f.slices[i].room \in Nat
          /\ \A j \in DOMAIN f.slices[i].cmds : IsCommand(f.slices[i].cmds[j])
ScanAssumption ==
    /\ Hash \in [Paths -> Nat] /\ Capacity \in Nat \ {0} /\ MaxFaults \in Nat
    /\ \A p \in Plans : /\ \A f \in Paths : IsFile(p.disk[f])
                        /\ \A i \in DOMAIN p.binaries : p.binaries[i] \in Paths

VARIABLES
    plan,      \* the plan
    pc,        \* where the process is
    files,     \* binaries to scan
    binary,    \* the one that is scanned
    uses,      \* its load commands still to check, with their architecture
    asked,     \* whether it or a library is parsed
    parse,     \* macho_parse_file: path, result, slice, command
    answer,    \* what it returned
    table,     \* the buckets of the hash map, its capacity their number
    size,      \* the number of entries it counts
    heap,      \* the results that are allocated
    mapped,    \* files that are open and mapped
    broken,    \* broken_files
    missed     \* what has failed

vars == <<plan, pc, files, binary, uses, asked, parse, answer, table, size, heap, mapped, broken,
          missed>>
scanVars == <<plan, files, binary, uses, asked, broken>>

Init ==
    /\ plan \in Plans
    /\ pc = "scan" /\ files = plan.binaries /\ binary = None /\ uses = <<>> /\ asked = "binary"
    /\ parse = [path |-> None, res |-> 0, slice |-> 0, cmd |-> 0]
    /\ answer = [ret |-> "SUCCESS", res |-> 0]
    /\ table = [i \in 1 .. Capacity |-> <<>>] /\ size = 0
    /\ heap = <<>> /\ mapped = 0 /\ broken = {} /\ missed = <<>>

Fails(what) ==
    what \in Failing /\ Len(missed) < MaxFaults /\ missed' = Append(missed, what)

-------------------------------------------------------------------------------
(* The hash map. *)

Bucket(key, t) == 1 + (Hash[key] % Len(t))
Hits(key, t) == {e \in Range(t[Bucket(key, t)]) : e.key = key}
Threshold(t) == (3 * Len(t)) \div 4

\* Slip: the entries stay in their buckets.
GrownInPlace(t) == [i \in 1 .. 2 * Len(t) |-> IF i <= Len(t) THEN t[i] ELSE <<>>]

\* Every entry goes to the head of its new bucket.
Grown(t) ==
    [i \in 1 .. 2 * Len(t) |->
        Reverse(SelectSeq(FlattenSeq(t), LAMBDA e : 1 + (Hash[e.key] % (2 * Len(t))) = i))]

Inserted(key, value) ==
    [table EXCEPT ![Bucket(key, table)] = <<[key |-> key, value |-> value]>> \o @]

-------------------------------------------------------------------------------
(* macho_parse_file *)

file == plan.disk[parse.path]
slice == file.slices[parse.slice]
\* The first units of the slice are there.
Readable(units) == units <= slice.room

\* A result found in the cache is returned.
Ask(path) ==
    IF Hits(path, table) # {}
    THEN /\ answer' = [ret |-> "SUCCESS", res |-> (CHOOSE e \in Hits(path, table) : TRUE).value]
         /\ pc' = "judge" /\ UNCHANGED parse
    ELSE /\ parse' = [path |-> path, res |-> 0, slice |-> 1, cmd |-> 1]
         /\ pc' = "open" /\ UNCHANGED answer

Answers(code) == answer' = [ret |-> code, res |-> parse.res]

Open ==
    /\ pc = "open"
    /\ \/ /\ file.magic # "absent"
          /\ pc' = "create" /\ mapped' = mapped + 1 /\ UNCHANGED <<answer, missed>>
       \/ /\ file.magic = "absent" /\ UNCHANGED missed
          /\ pc' = "judge" /\ Answers("EFILE") /\ UNCHANGED mapped
       \/ /\ file.magic # "absent"
          /\ \E call \in {"EFILE", "EMMAP"} : Fails(call) /\ Answers(call)
          /\ pc' = "judge" /\ UNCHANGED mapped
    /\ UNCHANGED <<parse, table, size, heap>> /\ UNCHANGED scanVars

\* Without memory for the result the function returns at once.
Create ==
    /\ pc = "create"
    /\ \/ LET r == CHOOSE n \in 1 .. Cardinality(DOMAIN heap) + 1 : n \notin DOMAIN heap IN
          /\ parse' = [parse EXCEPT !.res = r]
          /\ heap' = [n \in DOMAIN heap \cup {r} |-> IF n = r THEN <<>> ELSE heap[n]]
          /\ pc' = "header" /\ UNCHANGED <<answer, missed>>
       \/ Fails("create") /\ pc' = "judge" /\ Answers("EMEM") /\ UNCHANGED <<parse, heap>>
    /\ UNCHANGED <<table, size, mapped>> /\ UNCHANGED scanVars

Freed == [n \in DOMAIN heap \ {parse.res} |-> heap[n]]

\* The file is unmapped and closed, and the function returns.
Gives(code, results) ==
    /\ heap' = results /\ mapped' = mapped - 1
    /\ answer' = [ret |-> code, res |-> IF code = "SUCCESS" THEN parse.res ELSE 0]
    /\ pc' = "judge"
    /\ UNCHANGED parse /\ UNCHANGED scanVars

Stops(code) == Gives(code, Freed) /\ UNCHANGED <<table, size>>

NoId == [version |-> 0, compat |-> 0]

Parsed(p, goes) ==
    /\ parse' = p /\ pc' = goes
    /\ UNCHANGED <<answer, table, size, mapped, missed>> /\ UNCHANGED scanVars

\* The next slice of a universal file, or the end.
Sliced ==
    IF parse.slice < Len(file.slices)
    THEN Parsed([parse EXCEPT !.slice = @ + 1, !.cmd = 1], "header")
    ELSE Parsed(parse, "put")

\* Architectures and load commands are put at the head of their lists.
WithArch(archs, arch) == <<[arch |-> arch, id |-> NoId, loads |-> <<>>]>> \o archs
WithLoad(arch, cmd) == [arch EXCEPT !.loads = <<cmd>> \o @]

\* parse_macho up to the first load command: the architecture goes to the head
\* of the list of the result.
Header ==
    /\ pc = "header"
    /\ \/ /\ \/ file.magic = "short"
             \/ file.magic = "fat" /\ file.cut
             \/ file.magic \in {"thin", "fat"} /\ ~Readable(1)
             \/ file.magic \in {"thin", "fat"} /\ slice.magic /\ ~Readable(2)
          /\ Stops("ERANGE") /\ UNCHANGED missed
       \/ /\ file.magic = "other" \/ (file.magic = "fat" /\ ~file.cut /\ ~slice.magic)
          /\ Stops("EMAGIC") /\ UNCHANGED missed
       \/ /\ file.magic \in {"thin", "fat"} /\ ~file.cut /\ slice.magic /\ Readable(2)
          /\ heap' = [heap EXCEPT ![parse.res] = WithArch(@, slice.arch)]
          /\ IF slice.cmds = <<>> THEN Sliced ELSE Parsed(parse, "command")
       \/ /\ file.magic \in {"thin", "fat"} /\ ~file.cut /\ slice.magic /\ Readable(1)
          /\ Fails("alloc") /\ Stops("EMEM")

\* The units of the slice before a load command.
Before(i) == 1 + 2 * (i - 1)

Slot(c) == [version |-> c.version, compat |-> c.compat]

\* One load command, and the start of the next, whether or not there is one.
Command ==
    /\ pc = "command"
    /\ LET c == slice.cmds[parse.cmd] IN
       \/ /\ ~Readable(Before(parse.cmd) + 3)
          /\ Stops("ERANGE") /\ UNCHANGED missed
       \/ /\ Readable(Before(parse.cmd) + 3)
          /\ heap' = [heap EXCEPT ![parse.res][1] =
                        CASE c.type = "id" -> [@ EXCEPT !.id = Slot(c)]
                          [] c.type = "load" -> WithLoad(@, c)
                          [] OTHER -> @]
          /\ IF parse.cmd < Len(slice.cmds)
             THEN Parsed([parse EXCEPT !.cmd = @ + 1], "command") ELSE Sliced
       \/ c.type # "other" /\ Fails("alloc") /\ Stops("EMEM")

\* The result is put into the cache, which grows when it has become full. An
\* entry whose larger table cannot be had has been inserted all the same.
Put ==
    /\ pc = "put"
    /\ \/ /\ table' = IF size < Threshold(table) THEN Inserted(parse.path, parse.res)
                      ELSE Grown(Inserted(parse.path, parse.res))
          /\ size' = size + 1 /\ Gives("SUCCESS", heap) /\ UNCHANGED missed
       \/ \E what \in {"entry", "table"} :
             /\ what = "table" => size >= Threshold(table)
             /\ Fails(what) /\ Gives("EMEM", Freed)
             /\ table' = IF what = "table" THEN Inserted(parse.path, parse.res) ELSE table
             /\ size' = IF what = "table" THEN size + 1 ELSE size

-------------------------------------------------------------------------------
(* The scan. *)

Caller == UNCHANGED <<plan, table, size, heap, mapped, missed>>

ScanBinary ==
    /\ pc = "scan" /\ uses = <<>> /\ files # <<>>
    /\ binary' = Head(files) /\ files' = Tail(files) /\ asked' = "binary"
    /\ Ask(Head(files))
    /\ UNCHANGED <<uses, broken>> /\ Caller

Loads(archs) ==
    FlattenSeq([i \in DOMAIN archs |->
        [j \in DOMAIN archs[i].loads |-> [arch |-> archs[i].arch, cmd |-> archs[i].loads[j]]]])

\* A binary that does not parse is passed over.
JudgeBinary ==
    /\ pc = "judge" /\ asked = "binary"
    /\ uses' = IF answer.ret = "SUCCESS" THEN Loads(heap[answer.res]) ELSE <<>>
    /\ pc' = "scan"
    /\ UNCHANGED <<files, binary, asked, parse, answer, broken>> /\ Caller

ScanLibrary ==
    /\ pc = "scan" /\ uses # <<>>
    /\ asked' = "library" /\ Ask(Head(uses).cmd.name)
    /\ UNCHANGED <<files, binary, uses, broken>> /\ Caller

\* The architecture of the binary is not in the library, or there its version is
\* another and not compatible.
TooOld(cmd, archs, arch) ==
    LET same == {i \in DOMAIN archs : archs[i].arch = arch}
        id == archs[CHOOSE i \in same : \A j \in same : i <= j].id IN
    same = {} \/ (cmd.version # id.version /\ cmd.compat > id.compat)

\* A library that is not there breaks the binary, one that cannot be read does not.
JudgeLibrary ==
    /\ pc = "judge" /\ asked = "library"
    /\ broken' =
         IF \/ answer.ret = "EFILE"
            \/ answer.ret = "SUCCESS" /\ TooOld(Head(uses).cmd, heap[answer.res], Head(uses).arch)
         THEN broken \cup {binary} ELSE broken
    /\ uses' = Tail(uses) /\ pc' = "scan"
    /\ UNCHANGED <<files, binary, asked, parse, answer>> /\ Caller

\* destroy_handle frees every result in the cache.
Destroy ==
    /\ pc = "scan" /\ uses = <<>> /\ files = <<>>
    /\ heap' = [n \in DOMAIN heap \ {e.value : e \in Range(FlattenSeq(table))} |-> heap[n]]
    /\ table' = <<>> /\ size' = 0 /\ pc' = "done"
    /\ UNCHANGED <<plan, files, binary, uses, asked, parse, answer, mapped, broken, missed>>

Next == \/ Open \/ Create \/ Header \/ Command \/ Put
        \/ ScanBinary \/ JudgeBinary \/ ScanLibrary \/ JudgeLibrary \/ Destroy

Spec == Init /\ [][Next]_vars

-------------------------------------------------------------------------------
\* What a file says, if all of it is there, with the struct of a load command
\* more (macho_parse_file).
IsWhole(f) ==
    /\ f.magic \in {"thin", "fat"} /\ ~f.cut
    /\ \A i \in DOMAIN f.slices :
          f.slices[i].magic /\ f.slices[i].room >= 2 + 2 * Len(f.slices[i].cmds)
Commands(s, type) == SelectSeq(s.cmds, LAMBDA c : c.type = type)
Said(s) ==
    [arch |-> s.arch, loads |-> Reverse(Commands(s, "load")),
     id |-> IF Commands(s, "id") = <<>> THEN NoId ELSE Slot(Last(Commands(s, "id")))]
Content(f) == Reverse([i \in DOMAIN f.slices |-> Said(f.slices[i])])

\* Each path has one result in the cache, where it is found, allocated and what
\* the file says, however often the map has grown; between calls nothing else is
\* allocated, and no file open but those for which there was no memory for a result.
ResultsKept ==
    LET entries == FlattenSeq(table) IN
    /\ pc # "done" => \A i \in DOMAIN entries :
          /\ entries[i].value \in DOMAIN heap
          /\ IsWhole(plan.disk[entries[i].key])
          /\ heap[entries[i].value] = Content(plan.disk[entries[i].key])
          /\ Hits(entries[i].key, table) = {entries[i]}
          /\ \A j \in DOMAIN entries : entries[i].value = entries[j].value => i = j
    /\ pc \in {"scan", "judge", "done"} =>
          /\ DOMAIN heap = {entries[i].value : i \in DOMAIN entries}
          /\ mapped = Len(SelectSeq(missed, LAMBDA what : what = "create"))

\* The binaries the files themselves show to lack a library; what fails can hide
\* one, and only a file that could not be opened blames another.
Lacks(b) ==
    LET f == plan.disk[b] IN
    /\ IsWhole(f)
    /\ \E i \in DOMAIN f.slices :
         \E c \in Range(Commands(f.slices[i], "load")) :
            LET lib == plan.disk[c.name] IN
            \/ lib.magic = "absent"
            \/ IsWhole(lib) /\ ~\E k \in DOMAIN lib.slices :
                  /\ lib.slices[k].arch = f.slices[i].arch
                  /\ \/ c.version = Said(lib.slices[k]).id.version
                     \/ c.compat <= Said(lib.slices[k]).id.compat
BrokenFound ==
    pc = "done" =>
        LET lacking == {b \in Range(plan.binaries) : Lacks(b)} IN
        /\ "EFILE" \notin Range(missed) => broken \subseteq lacking
        /\ missed = <<>> => broken = lacking
===============================================================================
