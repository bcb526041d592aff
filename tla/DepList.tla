------------------------------- MODULE DepList -------------------------------
(***************************************************************************)
(* The evaluation of a dependency list, from                               *)
(* src/macports1.0/macports_dlist.tcl.  dlist_eval is the scheduler of     *)
(* MacPorts: it orders the targets of one port (eval_targets), the         *)
(* variants of one port (eval_variants) and the ports that one port        *)
(* depends on (mportexec).                                                 *)
(*                                                                         *)
(* An item ("ditem") provides tokens, requires tokens, and uses tokens;    *)
(* "uses" is a soft dependency, which only delays.  The Tcl list the loop  *)
(* shrinks is kept as the list it was given, "list", which fixes the       *)
(* order, and the set of items still in it, "waiting".  The handler and    *)
(* the test condition are the caller's code: their results are free.       *)
(***************************************************************************)
EXTENDS Naturals, Sequences, FiniteSets, SequencesExt

CONSTANTS
    Ditems,     \* the dependency items
    Tokens,     \* the names that items provide, require and use
    Graphs,     \* the dependency graphs considered
    Lists       \* the lists considered, as dlist_eval is given them

IsGraph(g) ==
    /\ g.provides \in [Ditems -> SUBSET Tokens]
    /\ g.requires \in [Ditems -> SUBSET Tokens]
    /\ g.uses \in [Ditems -> SUBSET Tokens]

\* A list holds no item twice: dlist_append_dependents looks before it appends.
ASSUME DepListAssumption ==
    /\ IsFiniteSet(Ditems) /\ IsFiniteSet(Tokens)
    /\ \A g \in Graphs : IsGraph(g)
    /\ \A l \in Lists : /\ l \in Seq(Ditems)
                        /\ \A i, j \in 1..Len(l) : l[i] = l[j] => i = j

VARIABLES
    graph,      \* the keys of every item
    list,       \* the list as it was given: the order in which items are tried
    canfail,    \* the argument of that name
    waiting,    \* the items still in the list
    status,     \* statusdict: token -> "none" (not there), "bad" (0), "good" (1)
    pc,         \* "prerun", "select", "running" (in the handler), "returned"
    running,    \* the item given to the handler, as a set of at most one
    outcome     \* history: what has become of every item

vars == <<graph, list, canfail, waiting, status, pc, running, outcome>>

Outcomes == {"no", "satisfied", "ok", "failed", "threw"}

TypeOK ==
    /\ graph \in Graphs
    /\ list \in Lists
    /\ canfail \in BOOLEAN
    /\ waiting \in SUBSET Ditems
    /\ status \in [Tokens -> {"none", "bad", "good"}]
    /\ pc \in {"prerun", "select", "running", "returned"}
    /\ running \in SUBSET Ditems
    /\ outcome \in [Ditems -> Outcomes]

Items(l) == {l[i] : i \in 1..Len(l)}

Init ==
    /\ graph \in Graphs
    /\ list \in Lists
    /\ canfail \in BOOLEAN
    /\ waiting = Items(list)
    /\ status = [t \in Tokens |-> "none"]
    /\ pc = "prerun"
    /\ running = {}
    /\ outcome = [d \in Ditems |-> "no"]
-----------------------------------------------------------------------------
\* Slip: a token in the dictionary counts as met, with whatever result.
UnmetIfUnknown(tokens) == {t \in tokens : status[t] = "none"}

\* dlist_count_unmet counts these.
Unmet(tokens) == {t \in tokens : status[t] # "good"}

\* Slip: an item counts as pending only if it provides all of the tokens.
HasPendingAll(tokens) ==
    \E d \in waiting : tokens # {} /\ tokens \subseteq graph.provides[d]

\* Slip: the list that is searched is the one dlist_eval was given.
HasPendingInList(tokens) ==
    \E d \in Items(list) : graph.provides[d] \cap tokens # {}

\* dlist_has_pending
HasPending(tokens) == \E d \in waiting : graph.provides[d] \cap tokens # {}

\* The items dlist_get_next does not skip.
Eligible(d) ==
    /\ d \in waiting
    /\ Unmet(graph.requires[d]) = {}
    /\ Unmet(graph.uses[d]) # {} => ~HasPending(graph.uses[d])

Before(d, e) ==
    \E i, j \in 1..Len(list) : i < j /\ list[i] = d /\ list[j] = e

\* Fewer unmet soft dependencies, or as many and earlier in the list.
Better(d, e) ==
    LET cost(x) == Cardinality(Unmet(graph.uses[x])) IN
    cost(d) < cost(e) \/ (cost(d) = cost(e) /\ Before(d, e))

\* dlist_get_next returns d.
Next_Item(d) ==
    /\ Eligible(d)
    /\ \A e \in waiting \ {d} : Eligible(e) => Better(d, e)

\* Slip: the dictionary is replaced where it should be extended.
SetStatusOnly(d, value) ==
    [t \in graph.provides[d] |-> value]

SetStatus(d, value) ==
    [t \in Tokens |-> IF t \in graph.provides[d] THEN value ELSE status[t]]

\* The pre-run: the items for which the test condition is 1 are taken out.
PreRun(S) ==
    /\ pc = "prerun"
    /\ S \subseteq waiting
    /\ waiting' = waiting \ S
    /\ status' = [t \in Tokens |-> IF \E d \in S : t \in graph.provides[d]
                                   THEN "good" ELSE status[t]]
    /\ outcome' = [d \in Ditems |-> IF d \in S THEN "satisfied" ELSE outcome[d]]
    /\ pc' = "select"
    /\ UNCHANGED <<graph, list, canfail, running>>

\* The selector finds an item; the handler is called with it.
Select(d) ==
    /\ pc = "select"
    /\ Next_Item(d)
    /\ running' = {d}
    /\ pc' = "running"
    /\ UNCHANGED <<graph, list, canfail, waiting, status, outcome>>

\* The selector returns {}: what is left of the list is returned.
Exhausted ==
    /\ pc = "select"
    /\ \A d \in waiting : ~Eligible(d)
    /\ pc' = "returned"
    /\ UNCHANGED <<graph, list, canfail, waiting, status, running, outcome>>

\* Slip: the item is not deleted from the list.
HandlerSucceedsUndeleted(d) ==
    /\ pc = "running"
    /\ d \in running
    /\ status' = SetStatus(d, "good")
    /\ pc' = "select"
    /\ running' = {}
    /\ outcome' = [outcome EXCEPT ![d] = "ok"]
    /\ UNCHANGED <<graph, list, canfail, waiting>>

\* The handler returns 0, or nothing, which counts as 0.
HandlerSucceeds(d) ==
    /\ pc = "running"
    /\ d \in running
    /\ status' = SetStatus(d, "good")
    /\ waiting' = waiting \ {d}
    /\ pc' = "select"
    /\ running' = {}
    /\ outcome' = [outcome EXCEPT ![d] = "ok"]
    /\ UNCHANGED <<graph, list, canfail>>

\* Slip: the item is deleted before canfail is looked at.
HandlerFailsDeleted(d) ==
    /\ pc = "running"
    /\ d \in running
    /\ status' = SetStatus(d, "bad")
    /\ waiting' = waiting \ {d}
    /\ pc' = IF canfail THEN "select" ELSE "returned"
    /\ running' = {}
    /\ outcome' = [outcome EXCEPT ![d] = "failed"]
    /\ UNCHANGED <<graph, list, canfail>>

\* The handler returns something else: without canfail the loop ends here,
\* with the item still in the list that is returned.
HandlerFails(d) ==
    /\ pc = "running"
    /\ d \in running
    /\ status' = SetStatus(d, "bad")
    /\ IF canfail
       THEN waiting' = waiting \ {d} /\ pc' = "select"
       ELSE waiting' = waiting /\ pc' = "returned"
    /\ running' = {}
    /\ outcome' = [outcome EXCEPT ![d] = "failed"]
    /\ UNCHANGED <<graph, list, canfail>>

\* The handler raises an error: the list is returned whatever canfail is, and
\* the status of the item's tokens stays as it was.
HandlerThrows(d) ==
    /\ pc = "running"
    /\ d \in running
    /\ pc' = "returned"
    /\ running' = {}
    /\ outcome' = [outcome EXCEPT ![d] = "threw"]
    /\ UNCHANGED <<graph, list, canfail, waiting, status>>

\* dlist_eval has returned.
Done == pc = "returned" /\ UNCHANGED vars

Next ==
    \/ \E S \in SUBSET waiting : PreRun(S)
    \/ \E d \in waiting : Select(d)
    \/ Exhausted
    \/ \E d \in running : HandlerSucceeds(d)
    \/ \E d \in running : HandlerFails(d)
    \/ \E d \in running : HandlerThrows(d)
    \/ Done

Spec == Init /\ [][Next]_vars

\* The loop is sequential code and every handler returns.
FairSpec == Spec /\ WF_vars(Next)
-----------------------------------------------------------------------------
Failed == {d \in Ditems : outcome[d] \in {"failed", "threw"}}

\* An item whose handler is running has every token it requires provided by an
\* item of the list that was already satisfied or whose handler returned 0
\* (portutil's targets and mportexec's dependencies rely on it).
RequiresProvided ==
    \A d \in running : \A t \in graph.requires[d] :
        \E e \in Items(list) : /\ t \in graph.provides[e]
                               /\ outcome[e] \in {"satisfied", "ok"}

\* An item runs after every other item of the list that provides a token it
\* uses, unless every token it uses has been provided already (the delay of
\* dlist_get_next).
SoftOrder ==
    \A d \in running :
        \/ \A t \in graph.uses[d] :
              \E e \in Items(list) : /\ t \in graph.provides[e]
                                     /\ outcome[e] \in {"satisfied", "ok"}
        \/ \A e \in Items(list) :
              graph.provides[e] \cap graph.uses[d] # {} => outcome[e] # "no"

\* Without canfail the first failure is the last thing that happens, and an
\* item that failed is in the list the caller is given: this is how
\* eval_targets and mportexec see that something went wrong.
FailureIsReported ==
    /\ \A d \in Failed : d \in waiting \/ (canfail /\ outcome[d] = "failed")
    /\ Failed # {} /\ ~canfail => pc = "returned" /\ Cardinality(Failed) = 1

\* What one item waits for: providers of a token it requires or uses.
DependsOn(d, e) ==
    graph.provides[e] \cap (graph.requires[d] \cup graph.uses[d]) # {}

\* Every dependency cycle lies in some set each of whose members has a
\* dependency inside the set.
Acyclic ==
    \A S \in SUBSET Items(list) :
        S # {} => \E d \in S : \A e \in S : ~DependsOn(d, e)

Closed ==
    \A d \in Items(list) : \A t \in graph.requires[d] :
        \E e \in Items(list) : t \in graph.provides[e]

\* If every required token has a provider in the list, no dependency is
\* circular and no handler fails, then the whole list is evaluated.
AcyclicListCompletes ==
    pc = "returned" /\ Failed = {} /\ Acyclic /\ Closed => waiting = {}

\* dlist_eval returns, whatever the graph: cycles are no reason to loop.
Terminates == <>(pc = "returned")

\* The comment of dlist_get_next says of items delayed by unfulfilled soft
\* dependencies that they "will eventually be returned if there are no
\* alternatives": no item whose hard dependencies are met is left over.
SoftDelayEnds ==
    pc = "returned" /\ Failed = {} =>
        \A d \in waiting : Unmet(graph.requires[d]) # {}

\* Besides the order of what runs: the state is well formed, a failure is left
\* in the list for the caller, a list without cycles is completed when every
\* handler succeeds, and soft dependencies delay (dlist_eval, dlist_get_next).
EvaluationIsSound ==
    TypeOK /\ RequiresProvided /\ FailureIsReported /\ AcyclicListCompletes /\ SoftOrder

Abstract == INSTANCE DepOrder

\* Evaluating the list keeps the promise of DepOrder.
ImplementsDepOrder == Abstract!Spec

-----------------------------------------------------------------------------
(* dlist_append_dependents, with which eval_targets and mportexec select,   *)
(* from all targets or all open ports, those that one of them needs;        *)
(* dlist_eval is given its result. Soft dependencies are not followed.      *)

\* Slip: the providers are appended, but not what they require.
DirectDependents(g, dlist, root) ==
    <<root>> \o SelectSeq(dlist, LAMBDA e : e # root /\ g.provides[e] \cap g.requires[root] # {})

\* The providers in the list of what d requires.
Providers(g, dlist, d) == {e \in Items(dlist) : g.provides[e] \cap g.requires[d] # {}}

\* They are followed in the order of the list (of tokens that more than one item
\* provides the order is that of the first).
AppendDependents(g, dlist, root) ==
    LET append[call \in Ditems \X Seq(Ditems)] ==
            LET d == call[1]
                result == call[2]
            IN  IF d \in Items(result) THEN result
                ELSE FoldLeft(LAMBDA found, e : IF e \in Providers(g, dlist, d)
                                                THEN append[<<e, found>>] ELSE found,
                              Append(result, d), dlist)
    IN  append[<<root, <<>>>>]

\* What is selected is all that the root needs, provider by provider, and
\* nothing else, whatever cycles there are; and the root is in front
\* (dlist_append_dependents).
SelectsNeeded(dlist, root) ==
    LET needs(d) == {e \in Items(dlist) : graph.provides[e] \cap graph.requires[d] # {}}
        closed(S) == root \in S /\ \A d \in S : needs(d) \subseteq S
    IN  /\ closed(Items(list)) /\ Head(list) = root
        /\ \A S \in SUBSET Items(list) : closed(S) => S = Items(list)
        /\ \A i, j \in 1..Len(list) : list[i] = list[j] => i = j
=============================================================================
