------------------------------ MODULE DepOrder ------------------------------
(***************************************************************************)
(* What evaluating a dependency list promises, without saying how: items   *)
(* are run one at a time, none of them twice, and none before every token  *)
(* it requires has been provided by an item that succeeded.  DepList, the  *)
(* model of dlist_eval in macports_dlist.tcl, implements it.               *)
(***************************************************************************)
CONSTANTS
    Ditems,     \* the dependency items
    Tokens      \* the names that items provide, require and use

VARIABLES
    graph,      \* [provides, requires, uses]: the keys of every item
    outcome,    \* what has become of every item
    running     \* the item whose handler is running, as a set of at most one

vars == <<graph, outcome, running>>

Good == {"satisfied", "ok"}

Provided(t) ==
    \E d \in Ditems : t \in graph.provides[d] /\ outcome[d] \in Good

Init ==
    /\ \A d \in Ditems : outcome[d] = "no"
    /\ running = {}

\* Before anything runs, some items may be found to be satisfied already.
Presatisfy(S) ==
    /\ \A d \in Ditems : outcome[d] = "no"
    /\ running = {}
    /\ outcome' = [d \in Ditems |-> IF d \in S THEN "satisfied" ELSE "no"]
    /\ UNCHANGED <<graph, running>>

Start(d) ==
    /\ running = {}
    /\ outcome[d] = "no"
    /\ \A t \in graph.requires[d] : Provided(t)
    /\ running' = {d}
    /\ UNCHANGED <<graph, outcome>>

Finish(d, result) ==
    /\ running = {d}
    /\ running' = {}
    /\ outcome' = [outcome EXCEPT ![d] = result]
    /\ UNCHANGED graph

Next ==
    \/ \E S \in SUBSET Ditems : Presatisfy(S)
    \/ \E d \in Ditems :
          \/ Start(d)
          \/ \E result \in {"ok", "failed", "threw"} : Finish(d, result)

Spec == Init /\ [][Next]_vars
=============================================================================
