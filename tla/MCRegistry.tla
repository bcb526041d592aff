----------------------------- MODULE MCRegistry -----------------------------
(* What several processes, or commands, keep and share as values: the registry's *)
(* database, with two processes of which p1 may do more; file maps; keyed lists   *)
(* and lists in shared variables. A behaviour is one of the subject it has from   *)
(* the start. The registry is opened by no one, and the variables of the others   *)
(* stay 0, while they are not the subject.                                        *)
EXTENDS Registry, TLC

CONSTANTS p1, p2, NotOpen

VARIABLES subject,
          file, temp, mapLock, map, at, answer, mapCalls, plan,
          objects, holds, ran, said,
          cell, bound, kept, bucketLocked

mapVars == <<file, temp, mapLock, map, at, answer, mapCalls, plan>>
keyedVars == <<objects, holds, ran>>
listVars == <<cell, bound, kept, bucketLocked>>
allVars == <<subject, vars, mapVars, keyedVars, said, listVars>>

MCProcs == {p1, p2}
MCCalls == [p \in MCProcs |-> IF p = p1 THEN 7 ELSE 2]

(* File maps: one process with names that begin with each other, files in one   *)
(* directory and below it; or two processes and one file. What is unset is a    *)
(* file: neither a directory nor below a file.                                  *)

TreePaths == {<<<<1>>>>, <<<<1, 2>>>>, <<<<2>>, <<1>>>>, <<<<2>>, <<1, 2>>>>,
              <<<<2>>, <<1>>, <<2>>>>}
MapPlan(who, paths, gone, n, habits) ==
    [procs |-> who, paths |-> paths, removed |-> gone, calls |-> n, habits |-> habits]
MapPlans ==
    {MapPlan({"p"}, TreePaths, TreePaths \ {<<<<2>>, <<1>>>>, <<<<2>>, <<1>>, <<2>>>>}, 5, {"ram"}),
     MapPlan({"p", "q"}, {<<<<2>>, <<1, 2>>>>}, {<<<<2>>, <<1, 2>>>>}, 6, {"readonly", "close"})}
Map == INSTANCE FileMap WITH
    lock <- mapLock, calls <- mapCalls, Procs <- {"p", "q"}, Vars <- {"u"}, Values <- {"port", "other"}, Plans <- MapPlans
ASSUME FileMapAssumption == Map!FileMapAssumption

(* Keyed lists: two variables and a shared element; two keys, one of them also *)
(* a list.                                                                     *)

J == <<"j">>
JK == <<"j", "k">>
CellWrites == {<<<<J, "x">>>>, <<<<JK, "v1">>>>}
KeyWrites == {<<<<JK, "x">>>>, <<<<J, "x">>, <<JK, "v1">>>>, <<<<<<"k">>, "v1">>>>,
              <<<<J, "v2">>>>, <<<<<<"">>, "x">>>>}
Keyed == INSTANCE KeyedList WITH
    heap <- objects, Vars <- {"v1", "v2"}, Cell <- "cell", Words <- {"x"}, Writes <- KeyWrites,
    CellWrites <- CellWrites, Erasures <- {<<J>>, <<JK, J>>}, Paths <- {J, JK},
    MaxObjs <- 9, Spare <- 5, MaxDepth <- 2, MaxCommands <- 4

(* Lists: a word, a broken word, a list in a list; indexes at and behind the   *)
(* ends.                                                                       *)

I(n) == [kind |-> "int", n |-> n]
E(n) == [kind |-> "end", n |-> n]
Bad == [kind |-> "bad", n |-> 0]
Text(w) == [word |-> w, list |-> <<>>]
ElementLists == INSTANCE SvLists WITH
    held <- bucketLocked, Broken <- "{", Any <- Text("*"), Values <- {Text("a"), Text("{"), Text("")},
    Indexes <- {I(-1), I(1), I(2), E(0), E(1), Bad},
    Deep <- {<<I(0)>>, <<E(0), I(0)>>, <<I(1), E(0)>>, <<I(0), Bad>>},
    MaxLen <- 2, MaxDepth <- 2

-------------------------------------------------------------------------------
NoMapYet == file = 0 /\ temp = 0 /\ mapLock = 0 /\ map = 0 /\ at = 0 /\ answer = 0 /\ mapCalls = 0
            /\ plan = 0
NoKeyed == objects = 0 /\ holds = 0 /\ ran = 0
NoLists == cell = 0 /\ bound = 0 /\ kept = 0 /\ bucketLocked = 0

StoresInit ==
    /\ Init
    /\ subject \in {"registry", "map", "keyed", "lists"}
    /\ subject # "registry" => db = Blank("absent")
    /\ \/ subject = "registry" /\ NoMapYet /\ NoKeyed /\ said = 0 /\ NoLists
       \/ subject = "map" /\ Map!Init /\ NoKeyed /\ said = 0 /\ NoLists
       \/ subject = "keyed" /\ NoMapYet /\ Keyed!Init /\ NoLists
       \/ subject = "lists" /\ NoMapYet /\ NoKeyed /\ ElementLists!Init

RegistrySteps(A) ==
    subject = "registry" /\ A /\ UNCHANGED <<subject, mapVars, keyedVars, said, listVars>>
MapSteps(A) == subject = "map" /\ A /\ UNCHANGED <<subject, vars, keyedVars, said, listVars>>
KeyedSteps(A) == subject = "keyed" /\ A /\ UNCHANGED <<subject, vars, mapVars, listVars>>
ListSteps(A) == subject = "lists" /\ A /\ UNCHANGED <<subject, vars, mapVars, keyedVars>>

StoresNext ==
    \/ \E p \in Procs : RegistrySteps(Step(p))
    \/ MapSteps(Map!Next) \/ KeyedSteps(Keyed!Next) \/ ListSteps(ElementLists!Next)

\* The fairness of Registry.
StoresSpec ==
    /\ StoresInit /\ [][StoresNext]_allVars
    /\ \A p \in Procs : WF_allVars(RegistrySteps(
            Open(p) \/ CannotOpen(p) \/ Proceed(p) \/ Crash(p) \/ ScriptEnds(p)))

-------------------------------------------------------------------------------
\* Processes that open, change, save, revert and close the file map of one file
\* see one map that changes as a whole (filemap.c). Keyed lists share objects and
\* never a change (tclXkeylist.c); the list commands of tsv do to the element what
\* Tcl's do, and the store gets its value (threadSvListCmd.c).
ValuesImplemented ==
    /\ subject = "map" => Map!Abstract!Init
    /\ subject = "keyed" => Keyed!Values!Init
    /\ subject = "lists" => ElementLists!Lists!Init
    /\ [][/\ subject = "map" => Map!Abstract!Step
          /\ subject = "keyed" => Keyed!Values!Step
          /\ subject = "lists" => ElementLists!Lists!Step]_allVars
===============================================================================
