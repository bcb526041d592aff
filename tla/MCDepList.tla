------------------------------ MODULE MCDepList ------------------------------
(***************************************************************************)
(* Instances of DepList.  Three items, each providing a token of its own,  *)
(* and possibly the first one's as well; a fourth token has no provider.   *)
(* Every item requires and uses some of the tokens; all graphs of a        *)
(* family are considered, so one order of the list is enough: any other    *)
(* order is the same as another graph of the family.  The list is the      *)
(* whole one, or what dlist_append_dependents selects for one item.        *)
(***************************************************************************)
EXTENDS DepList, TLC

CONSTANTS d1, d2, d3, t1, t2, t3, t4

MCDitems == {d1, d2, d3}
MCTokens == {t1, t2, t3, t4}

Own == (d1 :> {t1}) @@ (d2 :> {t2}) @@ (d3 :> {t3})
Shared == (d1 :> {t1}) @@ (d2 :> {t2}) @@ (d3 :> {t1, t3})

Few(n) == {S \in SUBSET MCTokens : Cardinality(S) <= n}

\* Hard and soft dependencies on at most one token each.
SimpleGraphs ==
    [provides : {Own, Shared},
     requires : [MCDitems -> Few(1)],
     uses : [MCDitems -> {{}, {t1}, {t2}, {t3}}]]

\* Soft dependencies on up to two tokens; only the last item requires one.
SoftGraphs ==
    [provides : {Own, Shared},
     requires : {(d1 :> {}) @@ (d2 :> {}) @@ (d3 :> S) : S \in Few(1)},
     uses : [MCDitems -> Few(2)]]

MCGraphs == SimpleGraphs \cup SoftGraphs

Whole == <<d1, d2, d3>>
MCLists == {Whole}
Selections ==
    UNION {{s \in [1..n -> MCDitems] : \A i, j \in 1..n : i # j => s[i] # s[j]} : n \in 1..3}

\* The items of the list are dependency items.
ASSUME WholeAssumption == {d1, d2, d3} \subseteq Ditems

Selected(root) == list = AppendDependents(graph, Whole, root)
CasesInit ==
    /\ Init
    /\ list = Whole \/ \E root \in Ditems : Selected(root)
CasesSpec == CasesInit /\ [][Next]_vars /\ WF_vars(Next)
-----------------------------------------------------------------------------
\* What dlist_append_dependents selects from the whole list for an item is all
\* that the item needs, and the item is in front.
SelectionIsNeeded == pc = "prerun" /\ list # Whole => SelectsNeeded(Whole, Head(list))
=============================================================================
