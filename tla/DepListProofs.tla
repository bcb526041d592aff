---------------------------- MODULE DepListProofs ----------------------------
(***************************************************************************)
(* Theorems about DepList, for every set of items and tokens, every        *)
(* dependency graph and every list.                                        *)
(***************************************************************************)
EXTENDS MCDepList, FiniteSetTheorems, WellFoundedInduction, TLAPS

\* Where the control is, and what it says about the other variables.
ControlInv ==
    /\ running # {} <=> pc = "running"
    /\ running \subseteq waiting
    /\ waiting \subseteq Items(list)
    /\ \A d, e \in running : d = e
    /\ pc # "returned" => \A d \in waiting : outcome[d] = "no"
    /\ pc = "prerun" => \A d \in Ditems : outcome[d] = "no"

\* A token is good only if some item of the list has really provided it.
StatusInv ==
    \A t \in Tokens : status[t] = "good" =>
        \E e \in Items(list) : /\ t \in graph.provides[e]
                               /\ outcome[e] \in {"satisfied", "ok"}

\* The items of a list are dependency items.
LEMMA ItemsType == ASSUME NEW l \in Lists PROVE Items(l) \subseteq Ditems
  BY DepListAssumption DEF Items

\* The keys of an item are sets of tokens.
LEMMA GraphType ==
    ASSUME NEW g \in Graphs, NEW d \in Ditems
    PROVE  /\ g.provides[d] \subseteq Tokens
           /\ g.requires[d] \subseteq Tokens
           /\ g.uses[d] \subseteq Tokens
  BY DepListAssumption DEF IsGraph

\* Every variable keeps its type, whatever the graph and the handlers do.
THEOREM TypeCorrect == Spec => []TypeOK
<1>1. Init => TypeOK
  BY ItemsType DEF Init, TypeOK, Outcomes
<1>2. TypeOK /\ [Next]_vars => TypeOK'
  <2> SUFFICES ASSUME TypeOK, [Next]_vars PROVE TypeOK'
    OBVIOUS
  <2> USE DEF TypeOK
  <2>1. ASSUME NEW S \in SUBSET waiting, PreRun(S) PROVE TypeOK'
    BY <2>1 DEF PreRun, Outcomes
  <2>2. ASSUME NEW d \in waiting, Select(d) PROVE TypeOK'
    BY <2>2 DEF Select
  <2>3. CASE Exhausted
    BY <2>3 DEF Exhausted
  <2>4. ASSUME NEW d \in running, HandlerSucceeds(d) PROVE TypeOK'
    BY <2>4 DEF HandlerSucceeds, SetStatus, Outcomes
  <2>5. ASSUME NEW d \in running, HandlerFails(d) PROVE TypeOK'
    BY <2>5 DEF HandlerFails, SetStatus, Outcomes
  <2>6. ASSUME NEW d \in running, HandlerThrows(d) PROVE TypeOK'
    BY <2>6 DEF HandlerThrows, Outcomes
  <2>7. CASE UNCHANGED vars
    BY <2>7 DEF vars
  <2> QED
    BY <2>1, <2>2, <2>3, <2>4, <2>5, <2>6, <2>7 DEF Next, Done
<1> QED
  BY <1>1, <1>2, PTL DEF Spec

\* The control invariant holds throughout.
LEMMA ControlCorrect == Spec => []ControlInv
<1>1. Init => ControlInv
  BY ItemsType DEF Init, ControlInv
<1>2. TypeOK /\ TypeOK' /\ ControlInv /\ [Next]_vars => ControlInv'
  <2> SUFFICES ASSUME TypeOK, TypeOK', ControlInv, [Next]_vars PROVE ControlInv'
    OBVIOUS
  <2> USE DEF TypeOK, ControlInv, Items
  <2>1. ASSUME NEW S \in SUBSET waiting, PreRun(S) PROVE ControlInv'
    BY <2>1 DEF PreRun
  <2>2. ASSUME NEW d \in waiting, Select(d) PROVE ControlInv'
    BY <2>2 DEF Select
  <2>3. CASE Exhausted
    BY <2>3 DEF Exhausted
  <2>4. ASSUME NEW d \in running, HandlerSucceeds(d) PROVE ControlInv'
    BY <2>4 DEF HandlerSucceeds
  <2>5. ASSUME NEW d \in running, HandlerFails(d) PROVE ControlInv'
    BY <2>5 DEF HandlerFails
  <2>6. ASSUME NEW d \in running, HandlerThrows(d) PROVE ControlInv'
    BY <2>6 DEF HandlerThrows
  <2>7. CASE UNCHANGED vars
    BY <2>7 DEF vars
  <2> QED
    BY <2>1, <2>2, <2>3, <2>4, <2>5, <2>6, <2>7 DEF Next, Done
<1> QED
  BY <1>1, <1>2, TypeCorrect, PTL DEF Spec

\* A token is recorded as good only after an item provided it.
LEMMA StatusCorrect == Spec => []StatusInv
<1>1. Init => StatusInv
  BY DEF Init, StatusInv
<1>2. TypeOK /\ ControlInv /\ StatusInv /\ [Next]_vars => StatusInv'
  <2> SUFFICES ASSUME TypeOK, ControlInv, StatusInv, [Next]_vars PROVE StatusInv'
    OBVIOUS
  <2> USE DEF TypeOK, StatusInv, Items
  <2>1. ASSUME NEW S \in SUBSET waiting, PreRun(S) PROVE StatusInv'
    <3>1. S \subseteq Items(list) /\ Items(list) \subseteq Ditems
      BY ItemsType DEF ControlInv
    <3> HIDE DEF Items
    <3>2. Items(list)' = Items(list)
      BY <2>1 DEF PreRun, Items
    <3> QED
      BY <2>1, <3>1, <3>2 DEF PreRun
  <2>2. ASSUME NEW d \in waiting, Select(d) PROVE StatusInv'
    BY <2>2 DEF Select
  <2>3. CASE Exhausted
    BY <2>3 DEF Exhausted
  <2>4. ASSUME NEW d \in running, HandlerSucceeds(d) PROVE StatusInv'
    <3>1. d \in Items(list) /\ d \in Ditems
      BY DEF ControlInv
    <3> QED
      BY <2>4, <3>1 DEF HandlerSucceeds, SetStatus
  <2>5. ASSUME NEW d \in running, HandlerFails(d) PROVE StatusInv'
    <3>1. outcome[d] = "no"
      BY DEF ControlInv
    <3> QED
      BY <2>5, <3>1 DEF HandlerFails, SetStatus
  <2>6. ASSUME NEW d \in running, HandlerThrows(d) PROVE StatusInv'
    <3>1. outcome[d] = "no"
      BY DEF ControlInv
    <3> QED
      BY <2>6, <3>1 DEF HandlerThrows
  <2>7. CASE UNCHANGED vars
    BY <2>7 DEF vars
  <2> QED
    BY <2>1, <2>2, <2>3, <2>4, <2>5, <2>6, <2>7 DEF Next, Done
<1> QED
  BY <1>1, <1>2, TypeCorrect, ControlCorrect, PTL DEF Spec
-----------------------------------------------------------------------------
\* No handler runs before every token its item requires has been provided by
\* an item of the list, for every graph and every list.
THEOREM RequiresProvidedCorrect == Spec => []RequiresProvided
<1>1. Init => RequiresProvided
  BY DEF Init, RequiresProvided
<1>2. TypeOK /\ ControlInv /\ StatusInv /\ RequiresProvided /\ [Next]_vars
         => RequiresProvided'
  <2> SUFFICES ASSUME TypeOK, ControlInv, StatusInv, RequiresProvided, [Next]_vars
               PROVE  RequiresProvided'
    OBVIOUS
  <2>1. ASSUME NEW d \in waiting, Select(d) PROVE RequiresProvided'
    <3>1. graph.requires[d] \subseteq Tokens
      BY GraphType, ItemsType DEF TypeOK, ControlInv
    <3>2. \A t \in graph.requires[d] : status[t] = "good"
      BY <2>1 DEF Select, Next_Item, Eligible, Unmet
    <3> QED
      BY <2>1, <3>1, <3>2 DEF Select, RequiresProvided, StatusInv, Items
  <2>2. ASSUME NEW S \in SUBSET waiting, PreRun(S) PROVE RequiresProvided'
    BY <2>2 DEF PreRun, RequiresProvided, ControlInv
  <2>3. CASE Exhausted
    BY <2>3 DEF Exhausted, RequiresProvided, ControlInv
  <2>4. ASSUME NEW d \in running,
               HandlerSucceeds(d) \/ HandlerFails(d) \/ HandlerThrows(d)
        PROVE  RequiresProvided'
    BY <2>4 DEF HandlerSucceeds, HandlerFails, HandlerThrows, RequiresProvided
  <2>5. CASE UNCHANGED vars
    BY <2>5 DEF vars, RequiresProvided, Items
  <2> QED
    BY <2>1, <2>2, <2>3, <2>4, <2>5 DEF Next, Done
<1> QED
  BY <1>1, <1>2, TypeCorrect, ControlCorrect, StatusCorrect, PTL DEF Spec

\* An item that has left the list has come to something, and until something
\* fails it has provided its tokens; nothing is left that could still run.
LeftInv ==
    /\ \A e \in Items(list) \ waiting : outcome[e] # "no"
    /\ Failed = {} =>
          \A e \in Items(list) \ waiting : \A t \in graph.provides[e] : status[t] = "good"
    /\ pc = "returned" /\ Failed = {} => \A d \in waiting : ~Eligible(d)

\* What is tested of an item depends on the list, its graph and the status only.
LEMMA EligibleKept ==
    ASSUME UNCHANGED <<graph, waiting, status>>, NEW d
    PROVE  Eligible(d)' <=> Eligible(d)
  BY DEF Eligible, Unmet, HasPending

\* The invariant of what has left the list holds throughout.
LEMMA LeftCorrect == Spec => []LeftInv
<1>1. Init => LeftInv
  BY DEF Init, LeftInv
<1>2. TypeOK /\ ControlInv /\ LeftInv /\ [Next]_vars => LeftInv'
  <2> SUFFICES ASSUME TypeOK, ControlInv, LeftInv, [Next]_vars PROVE LeftInv'
    OBVIOUS
  <2>0. /\ Items(list) \subseteq Ditems /\ Items(list') = Items(list)
        /\ waiting \subseteq Items(list) /\ running \subseteq waiting
        /\ \A d \in Ditems : graph.provides[d] \subseteq Tokens
    <3>1. list' = list
      BY DEF Next, vars, PreRun, Select, Exhausted, HandlerSucceeds, HandlerFails,
             HandlerThrows, Done
    <3> QED BY <3>1, ItemsType, GraphType DEF TypeOK, ControlInv
  <2>1. ASSUME NEW S \in SUBSET waiting, PreRun(S) PROVE LeftInv'
    <3>1. \A e \in Items(list) \ waiting' : e \in S \/ e \notin waiting
      BY <2>1 DEF PreRun
    <3>2. Failed' \subseteq Failed
      BY <2>1 DEF PreRun, Failed
    <3>3. Items(list) \ waiting = {}
      BY <2>0, <2>1 DEF PreRun, ControlInv, LeftInv
    <3> QED
      BY <2>0, <2>1, <3>1, <3>2, <3>3 DEF PreRun, LeftInv
  <2>2. ASSUME NEW d \in waiting, Select(d) PROVE LeftInv'
    BY <2>0, <2>2 DEF Select, LeftInv, Failed
  <2>3. CASE Exhausted
    BY <2>0, <2>3, EligibleKept DEF Exhausted, LeftInv, Failed
  <2>4. ASSUME NEW d \in running, HandlerSucceeds(d) PROVE LeftInv'
    <3>1. d \in Ditems /\ outcome[d] = "no"
      BY <2>0, <2>4 DEF HandlerSucceeds, ControlInv
    <3>2. Failed' = Failed
      BY <2>4, <3>1 DEF HandlerSucceeds, Failed, TypeOK
    <3> QED
      BY <2>0, <2>4, <3>1, <3>2 DEF HandlerSucceeds, SetStatus, LeftInv, TypeOK
  <2>5. ASSUME NEW d \in running, HandlerFails(d) \/ HandlerThrows(d) PROVE LeftInv'
    <3>1. d \in Failed'
      BY <2>0, <2>5 DEF HandlerFails, HandlerThrows, Failed, TypeOK
    <3>2. \A e \in Items(list) \ waiting' : outcome'[e] # "no"
      BY <2>0, <2>5 DEF HandlerFails, HandlerThrows, LeftInv, TypeOK
    <3> QED
      BY <2>0, <3>1, <3>2 DEF LeftInv
  <2>6. CASE UNCHANGED vars
    BY <2>0, <2>6, EligibleKept DEF vars, LeftInv, Failed
  <2> QED
    BY <2>1, <2>2, <2>3, <2>4, <2>5, <2>6 DEF Next, Done
<1> QED
  BY <1>1, <1>2, TypeCorrect, ControlCorrect, PTL DEF Spec

\* A failure stays in the list that is returned, and without canfail is the last
\* thing that happens.
LEMMA ReportedCorrect == Spec => []FailureIsReported
<1>1. Init => FailureIsReported
  BY DEF Init, FailureIsReported, Failed
<1>2. TypeOK /\ ControlInv /\ FailureIsReported /\ [Next]_vars => FailureIsReported'
  <2> SUFFICES ASSUME TypeOK, ControlInv, FailureIsReported, [Next]_vars
               PROVE  FailureIsReported'
    OBVIOUS
  <2>0. running \subseteq Ditems /\ running \subseteq waiting
    BY DEF TypeOK, ControlInv
  <2>1. ASSUME NEW S \in SUBSET waiting, PreRun(S) PROVE FailureIsReported'
    <3>1. Failed' = {}
      BY <2>1 DEF PreRun, Failed, ControlInv
    <3> QED BY <3>1 DEF FailureIsReported
  <2>2. ASSUME NEW d \in waiting, Select(d) PROVE FailureIsReported'
    BY <2>2 DEF Select, FailureIsReported, Failed
  <2>3. CASE Exhausted
    BY <2>3 DEF Exhausted, FailureIsReported, Failed
  <2>4. ASSUME NEW d \in running, HandlerSucceeds(d) PROVE FailureIsReported'
    <3>1. outcome[d] = "no" /\ pc = "running"
      BY <2>0, <2>4 DEF HandlerSucceeds, ControlInv
    <3>2. Failed' = Failed /\ d \notin Failed
      BY <2>0, <2>4, <3>1 DEF HandlerSucceeds, Failed, TypeOK
    <3>3. \A e \in Failed : (e \in waiting' /\ outcome'[e] = outcome[e]) \/ e \notin waiting
      BY <2>0, <2>4, <3>2 DEF HandlerSucceeds, TypeOK
    <3>4. Failed # {} => canfail
      BY <3>1 DEF FailureIsReported
    <3>5. \A e \in Failed : outcome'[e] = outcome[e]
      BY <2>0, <2>4, <3>2 DEF HandlerSucceeds, TypeOK, Failed
    <3> QED
      BY <2>4, <3>2, <3>3, <3>4, <3>5 DEF HandlerSucceeds, FailureIsReported
  <2>5. ASSUME NEW d \in running, HandlerFails(d) \/ HandlerThrows(d)
        PROVE  FailureIsReported'
    <3>1. outcome[d] = "no" /\ pc = "running" /\ d \in waiting
      BY <2>0, <2>5 DEF HandlerFails, HandlerThrows, ControlInv
    <3>2. Failed' = Failed \cup {d} /\ d \notin Failed
      BY <2>0, <2>5, <3>1 DEF HandlerFails, HandlerThrows, Failed, TypeOK
    <3>3. \A e \in Failed : outcome'[e] = outcome[e]
      BY <2>0, <2>5, <3>2 DEF HandlerFails, HandlerThrows, TypeOK, Failed
    <3>4. d \in waiting' \/ (canfail /\ outcome'[d] = "failed")
      BY <2>0, <2>5, <3>1 DEF HandlerFails, HandlerThrows, TypeOK
    <3>5. ~canfail => Failed' = {d} /\ pc' = "returned"
      BY <2>5, <3>1, <3>2 DEF HandlerFails, HandlerThrows, FailureIsReported
    <3>6. Cardinality({d}) = 1
      BY FS_Singleton
    <3>7. canfail' = canfail /\ waiting \ {d} \subseteq waiting'
      BY <2>5 DEF HandlerFails, HandlerThrows
    <3>8. \A e \in Failed' : e \in waiting' \/ (canfail' /\ outcome'[e] = "failed")
      BY <3>2, <3>3, <3>4, <3>7 DEF FailureIsReported
    <3> QED
      BY <3>5, <3>6, <3>7, <3>8 DEF FailureIsReported
  <2>6. CASE UNCHANGED vars
    BY <2>6 DEF vars, FailureIsReported, Failed
  <2> QED
    BY <2>1, <2>2, <2>3, <2>4, <2>5, <2>6 DEF Next, Done
<1> QED
  BY <1>1, <1>2, TypeCorrect, ControlCorrect, PTL DEF Spec

\* Of a list without cycles, whose requirements are all in it, something can run
\* until nothing is left.
LEMMA NothingLeft ==
    ASSUME TypeOK, ControlInv, LeftInv PROVE AcyclicListCompletes
<1> SUFFICES ASSUME pc = "returned", Failed = {}, Acyclic, Closed, waiting # {} PROVE FALSE
  BY DEF AcyclicListCompletes
<1>1. waiting \in SUBSET Items(list) /\ Items(list) \subseteq Ditems
  BY ItemsType DEF ControlInv, TypeOK
<1>2. PICK d \in waiting : \A e \in waiting : ~DependsOn(d, e)
  BY <1>1 DEF Acyclic
<1>3. \A e \in waiting : /\ graph.provides[e] \cap graph.requires[d] = {}
                         /\ graph.provides[e] \cap graph.uses[d] = {}
  BY <1>2 DEF DependsOn
<1>4. ~HasPending(graph.uses[d])
  BY <1>3 DEF HasPending
<1>5. \A t \in graph.requires[d] : status[t] = "good"
  <2> TAKE t \in graph.requires[d]
  <2>1. PICK e \in Items(list) : t \in graph.provides[e]
    BY <1>1 DEF Closed
  <2>2. e \notin waiting
    BY <1>3, <2>1
  <2> QED BY <2>1, <2>2 DEF LeftInv
<1>6. Eligible(d)
  BY <1>4, <1>5 DEF Eligible, Unmet
<1> QED BY <1>6 DEF LeftInv

\* An item that is chosen does not come before what it uses.
LEMMA SoftCorrect == Spec => []SoftOrder
<1>1. Init => SoftOrder
  BY DEF Init, SoftOrder
<1>2. TypeOK /\ ControlInv /\ StatusInv /\ LeftInv /\ SoftOrder /\ [Next]_vars => SoftOrder'
  <2> SUFFICES ASSUME TypeOK, ControlInv, StatusInv, LeftInv, SoftOrder, [Next]_vars
               PROVE  SoftOrder'
    OBVIOUS
  <2>1. ASSUME NEW d \in waiting, Select(d) PROVE SoftOrder'
    <3>0. /\ running' = {d} /\ Eligible(d)
          /\ UNCHANGED <<graph, list, outcome, status, waiting>>
      BY <2>1 DEF Select, Next_Item
    <3>1. d \in Ditems /\ graph.uses[d] \subseteq Tokens
      BY GraphType DEF TypeOK
    <3>2. CASE Unmet(graph.uses[d]) = {}
      <4>1. \A t \in graph.uses[d] : t \in Tokens /\ status[t] = "good"
        BY <3>1, <3>2 DEF Unmet
      <4> QED BY <3>0, <4>1 DEF StatusInv, SoftOrder, Items
    <3>3. CASE Unmet(graph.uses[d]) # {}
      <4>1. \A e \in waiting : graph.provides[e] \cap graph.uses[d] = {}
        BY <3>0, <3>3 DEF Eligible, HasPending
      <4>2. \A e \in Items(list) : graph.provides[e] \cap graph.uses[d] # {} => outcome[e] # "no"
        BY <4>1 DEF LeftInv
      <4> QED BY <3>0, <4>2 DEF SoftOrder, Items
    <3> QED BY <3>2, <3>3
  <2>2. ASSUME NEW S \in SUBSET waiting, PreRun(S) PROVE SoftOrder'
    BY <2>2 DEF PreRun, SoftOrder, ControlInv
  <2>3. CASE Exhausted
    BY <2>3 DEF Exhausted, SoftOrder, ControlInv
  <2>4. ASSUME NEW d \in running,
               HandlerSucceeds(d) \/ HandlerFails(d) \/ HandlerThrows(d)
        PROVE  SoftOrder'
    BY <2>4 DEF HandlerSucceeds, HandlerFails, HandlerThrows, SoftOrder
  <2>5. CASE UNCHANGED vars
    BY <2>5 DEF vars, SoftOrder, Items
  <2> QED
    BY <2>1, <2>2, <2>3, <2>4, <2>5 DEF Next, Done
<1> QED
  BY <1>1, <1>2, TypeCorrect, ControlCorrect, StatusCorrect, LeftCorrect, PTL DEF Spec

\* For every graph and list and every result of the handlers, evaluation is
\* sound: what runs has what it requires, a failure stays in the list that is
\* returned, an acyclic list is completed, and soft dependencies delay.
THEOREM EvaluationIsSoundCorrect == Spec => []EvaluationIsSound
<1>1. TypeOK /\ ControlInv /\ LeftInv /\ RequiresProvided /\ FailureIsReported /\ SoftOrder
         => EvaluationIsSound
  BY NothingLeft DEF EvaluationIsSound
<1> QED
  BY <1>1, TypeCorrect, ControlCorrect, LeftCorrect, RequiresProvidedCorrect,
     ReportedCorrect, SoftCorrect, PTL

\* Evaluating a dependency list implements DepOrder: items run one at a time,
\* none twice, none before what it requires is provided.
THEOREM Refinement == Spec => ImplementsDepOrder
<1>1. Init => Abstract!Init
  BY DEF Init, Abstract!Init
<1>2. TypeOK /\ ControlInv /\ RequiresProvided' /\ [Next]_vars
         => [Abstract!Next]_(Abstract!vars)
  <2> SUFFICES ASSUME TypeOK, ControlInv, RequiresProvided', [Next]_vars
               PROVE  Abstract!Next \/ UNCHANGED Abstract!vars
    OBVIOUS
  <2> USE DEF Abstract!Next, Abstract!vars
  <2>1. ASSUME NEW S \in SUBSET waiting, PreRun(S) PROVE Abstract!Presatisfy(S)
    BY <2>1 DEF PreRun, Abstract!Presatisfy, ControlInv
  <2>2. ASSUME NEW d \in waiting, Select(d) PROVE Abstract!Start(d)
    <3>1. outcome[d] = "no" /\ running = {}
      BY <2>2 DEF Select, ControlInv
    <3>2. \A t \in graph.requires[d] : Abstract!Provided(t)
      <4>1. Items(list) \subseteq Ditems
        BY ItemsType DEF TypeOK
      <4> QED
        BY <2>2, <4>1 DEF Select, RequiresProvided, Items, Abstract!Provided,
                          Abstract!Good
    <3> QED
      BY <2>2, <3>1, <3>2 DEF Select, Abstract!Start
  <2>3. ASSUME NEW d \in running,
               HandlerSucceeds(d) \/ HandlerFails(d) \/ HandlerThrows(d)
        PROVE  \E result \in {"ok", "failed", "threw"} : Abstract!Finish(d, result)
    <3>1. running = {d}
      BY DEF ControlInv
    <3> QED
      BY <2>3, <3>1 DEF HandlerSucceeds, HandlerFails, HandlerThrows,
                        Abstract!Finish
  <2>4. CASE Exhausted \/ UNCHANGED vars
    BY <2>4 DEF Exhausted, vars
  <2>5. waiting \subseteq Ditems /\ running \subseteq Ditems
    BY DEF TypeOK
  <2> QED
    BY <2>1, <2>2, <2>3, <2>4, <2>5 DEF Next, Done
<1> QED
  BY <1>1, <1>2, TypeCorrect, ControlCorrect, RequiresProvidedCorrect, PTL
  DEF Spec, Abstract!Spec, ImplementsDepOrder

-----------------------------------------------------------------------------
(* Induction over numbers: the least that is not in a set.                   *)

\* What holds of 0, and of n + 1 if of n, holds of every number.
LEMMA Inductive ==
    ASSUME NEW S, S \subseteq Nat, 0 \in S, \A n \in S : n + 1 \in S
    PROVE  S = Nat
<1> DEFINE R == OpToRel(<, Nat)
<1>1. IsWellFoundedOn(R, Nat)
  BY NatLessThanWellFounded
<1>2. \A x, y \in Nat : <<y, x>> \in R <=> y < x
  BY DEF OpToRel
<1> HIDE DEF R
<1> SUFFICES ASSUME Nat \ S # {} PROVE FALSE
  OBVIOUS
<1>3. \E x \in Nat \ S : \A y \in Nat \ S : ~ (<<y, x>> \in R)
  BY <1>1, WFMin
<1>4. PICK x \in Nat \ S : \A y \in Nat \ S : ~ (<<y, x>> \in R)
  BY <1>3
<1>5. x # 0 /\ x - 1 \in Nat /\ x - 1 < x
  OBVIOUS
<1>6. x - 1 \in S
  BY <1>2, <1>4, <1>5
<1>7. (x - 1) + 1 \in S
  BY <1>6
<1> QED BY <1>5, <1>7

\* A set of numbers up to n has a greatest.
LEMMA Greatest ==
    ASSUME NEW n \in Nat, NEW s \in SUBSET (1 .. n), s # {}
    PROVE  Max(s) \in s /\ \A y \in s : Max(s) >= y
<1> DEFINE Ok == {m \in Nat : \A t \in SUBSET (1 .. m) : t # {} => \E x \in t : \A y \in t : x >= y}
<1>1. 0 \in Ok
  <2>1. 1 .. 0 = {}
    OBVIOUS
  <2> QED BY <2>1
<1>2. \A m \in Ok : m + 1 \in Ok
  <2> SUFFICES ASSUME NEW m \in Ok, NEW t \in SUBSET (1 .. m + 1), t # {}
               PROVE  \E x \in t : \A y \in t : x >= y
    OBVIOUS
  <2>1. CASE m + 1 \in t
    BY <2>1
  <2>2. CASE m + 1 \notin t
    <3>1. t \in SUBSET (1 .. m)
      BY <2>2
    <3> QED BY <3>1
  <2> QED BY <2>1, <2>2
<1>3. Ok = Nat
  <2> HIDE DEF Ok
  <2>1. Ok \subseteq Nat
    BY DEF Ok
  <2> QED BY <1>1, <1>2, <2>1, Inductive
<1>4. \E x \in s : \A y \in s : x >= y
  BY <1>3
<1> QED BY <1>4 DEF Max

-----------------------------------------------------------------------------
(* dlist_append_dependents *)

\* What the recursion does with the list: each item that is in P is appended.
Folded(A, P, base, seq) ==
    FoldLeft(LAMBDA found, e : IF e \in P THEN A[<<e, found>>] ELSE found, base, seq)

\* How the fold is defined.
Iterated(h, A, P, base, seq) ==
    [s \in SUBSET DOMAIN seq |->
        IF s = {} THEN base
        ELSE IF seq[Max(s)] \in P THEN A[<<seq[Max(s)], h[s \ {Max(s)}]>>] ELSE h[s \ {Max(s)}]]
LEMMA FoldedIs ==
    ASSUME NEW A, NEW P, NEW base, NEW seq
    PROVE  Folded(A, P, base, seq) =
             (CHOOSE h : h = Iterated(h, A, P, base, seq))[DOMAIN seq]
BY DEF Folded, Iterated, FoldLeft, MapThenFoldSet

LEMMA IterationIs ==
    ASSUME NEW A, NEW P, NEW base, NEW seq, NEW n \in Nat, DOMAIN seq = 1 .. n
    PROVE  \E h : h = Iterated(h, A, P, base, seq)
<1> DEFINE D == SUBSET (1 .. n)
           It(h) == Iterated(h, A, P, base, seq)
           Ok == {m \in Nat : \E h : h = [s \in D |-> h[s]] /\
                                \A s \in D : Cardinality(s) <= m => h[s] = It(h)[s]}
<1>1. \A s \in D : IsFiniteSet(s) /\ Cardinality(s) \in Nat
  BY FS_Interval, FS_Subset, FS_CardinalityType, 1 \in Int, n \in Int
<1>2. \A s \in D : s # {} => /\ s \ {Max(s)} \in D /\ Max(s) \in s
                            /\ Cardinality(s \ {Max(s)}) = Cardinality(s) - 1
  BY <1>1, Greatest, FS_RemoveElement
<1>3. \A h : It(h) = [s \in D |-> IF s = {} THEN base
                                  ELSE IF seq[Max(s)] \in P
                                  THEN A[<<seq[Max(s)], h[s \ {Max(s)}]>>]
                                  ELSE h[s \ {Max(s)}]]
  BY DEF Iterated
<1> HIDE DEF It
<1>4. 0 \in Ok
  <2> DEFINE h == [s \in D |-> base]
  <2>1. \A s \in D : Cardinality(s) <= 0 => s = {}
    BY <1>1, FS_EmptySet
  <2>2. h[{}] = base /\ h = [s \in D |-> h[s]] /\ {} \in D
    OBVIOUS
  <2> HIDE DEF h
  <2>3. \A s \in D : Cardinality(s) <= 0 => h[s] = It(h)[s]
    BY <2>1, <2>2, <1>3
  <2> QED BY <2>2, <2>3
<1>5. \A m \in Ok : m + 1 \in Ok
  <2> SUFFICES ASSUME NEW m \in Ok PROVE m + 1 \in Ok
    OBVIOUS
  <2>1. PICK h : h = [s \in D |-> h[s]] /\ \A s \in D : Cardinality(s) <= m => h[s] = It(h)[s]
    OBVIOUS
  <2> DEFINE k == It(h)
  <2>2. k = [s \in D |-> k[s]]
    BY <1>3
  <2>3. ASSUME NEW s \in D, Cardinality(s) <= m + 1 PROVE k[s] = It(k)[s]
    <3>1. CASE s = {}
      BY <3>1, <1>3
    <3>2. CASE s # {}
      <4>1. s \ {Max(s)} \in D /\ Cardinality(s \ {Max(s)}) <= m
        <5>1. Cardinality(s) \in Nat /\ m \in Nat /\ Cardinality(s) <= m + 1
          BY <1>1, <2>3
        <5>2. s \ {Max(s)} \in D /\ Cardinality(s \ {Max(s)}) = Cardinality(s) - 1
          BY <1>2, <2>3, <3>2
        <5> QED BY <5>1, <5>2
      <4>2. h[s \ {Max(s)}] = k[s \ {Max(s)}]
        BY <2>1, <4>1
      <4>3. It(h)[s] = It(k)[s]
        <5>1. It(h)[s] =
                IF seq[Max(s)] \in P THEN A[<<seq[Max(s)], h[s \ {Max(s)}]>>]
                ELSE h[s \ {Max(s)}]
          BY <1>3, <2>3, <3>2
        <5>2. It(k)[s] =
                IF seq[Max(s)] \in P THEN A[<<seq[Max(s)], k[s \ {Max(s)}]>>]
                ELSE k[s \ {Max(s)}]
          <6> HIDE DEF k
          <6> QED BY <1>3, <2>3, <3>2
        <5> HIDE DEF k
        <5> QED BY <4>2, <5>1, <5>2
      <4>4. k[s] = It(h)[s]
        OBVIOUS
      <4> HIDE DEF k
      <4> QED BY <4>3, <4>4
    <3> QED BY <3>1, <3>2
  <2>4. \A s \in D : Cardinality(s) <= m + 1 => k[s] = It(k)[s]
    BY <2>3
  <2> HIDE DEF k
  <2>5. m + 1 \in Nat
    OBVIOUS
  <2> QED BY <2>2, <2>4, <2>5
<1>6. Ok = Nat
  <2> HIDE DEF Ok
  <2>1. Ok \subseteq Nat
    BY DEF Ok
  <2> QED BY <1>4, <1>5, <2>1, Inductive
<1>7. n \in Ok
  BY <1>6
<1>8. PICK h : h = [s \in D |-> h[s]] /\ \A s \in D : Cardinality(s) <= n => h[s] = It(h)[s]
  BY <1>7
<1>9. \A s \in D : Cardinality(s) <= n
  <2>1. IsFiniteSet(1 .. n) /\ Cardinality(1 .. n) = n
    BY FS_Interval, 1 \in Int, n \in Int
  <2>2. \A s \in D : Cardinality(s) <= Cardinality(1 .. n)
    BY <2>1, FS_Subset
  <2> QED BY <2>1, <2>2
<1>10. It(h) = [s \in D |-> It(h)[s]]
  BY <1>3
<1>11. h = It(h)
  BY <1>8, <1>9, <1>10
<1> QED BY <1>11 DEF It

\* The items are taken one after the other.
LEMMA FoldedSteps ==
    ASSUME NEW A, NEW P, NEW base, NEW seq, NEW n \in Nat, DOMAIN seq = 1 .. n
    PROVE  \E k : /\ k[0] = base /\ Folded(A, P, base, seq) = k[n]
                  /\ \A i \in 1 .. n :
                        k[i] = IF seq[i] \in P THEN A[<<seq[i], k[i - 1]>>] ELSE k[i - 1]
<1> DEFINE h == CHOOSE h : h = Iterated(h, A, P, base, seq)
           k == [i \in 0 .. n |-> h[1 .. i]]
<1>1. h = Iterated(h, A, P, base, seq)
  BY IterationIs
<1>2. Folded(A, P, base, seq) = h[1 .. n]
  BY FoldedIs
<1> HIDE DEF h
<1>3. k[0] = base
  BY <1>1 DEF Iterated
<1>4. ASSUME NEW i \in 1 .. n
      PROVE  k[i] = IF seq[i] \in P THEN A[<<seq[i], k[i - 1]>>] ELSE k[i - 1]
  <2>1. 1 .. i \in SUBSET (1 .. n) /\ 1 .. i # {}
    OBVIOUS
  <2>2. Max(1 .. i) \in 1 .. i /\ \A y \in 1 .. i : Max(1 .. i) >= y
    BY <2>1, Greatest
  <2>3. Max(1 .. i) = i
    BY <2>2
  <2>4. (1 .. i) \ {i} = 1 .. (i - 1)
    OBVIOUS
  <2>5. h[1 .. i] = IF seq[i] \in P THEN A[<<seq[i], h[1 .. (i - 1)]>>] ELSE h[1 .. (i - 1)]
    BY <1>1, <2>1, <2>3, <2>4 DEF Iterated
  <2>6. i \in 0 .. n /\ i - 1 \in 0 .. n
    OBVIOUS
  <2>7. k[i] = h[1 .. i] /\ k[i - 1] = h[1 .. (i - 1)]
    BY <2>6
  <2> HIDE DEF k
  <2> QED BY <2>5, <2>7
<1>5. k[n] = h[1 .. n]
  OBVIOUS
<1> HIDE DEF k
<1> QED BY <1>2, <1>3, <1>4, <1>5

\* A call of dlist_append_dependents, with A for the calls it makes.
Called(A, g, dlist) ==
    [call \in Ditems \X Seq(Ditems) |->
        IF call[1] \in Items(call[2]) THEN call[2]
        ELSE Folded(A, Providers(g, dlist, call[1]), Append(call[2], call[1]), dlist)]
LEMMA AppendIs ==
    ASSUME NEW g, NEW dlist, NEW root
    PROVE  AppendDependents(g, dlist, root) =
             (CHOOSE A : A = Called(A, g, dlist))[<<root, <<>>>>]
BY DEF AppendDependents, Called, Folded, FoldLeft, MapThenFoldSet

\* What has been selected stays selected, in its order.
Extends(x, r) ==
    /\ x \in Seq(Ditems) /\ Len(r) <= Len(x)
    /\ \A i \in 1 .. Len(r) : x[i] = r[i]
Extending(A) ==
    /\ A = [call \in Ditems \X Seq(Ditems) |-> A[call]]
    /\ \A d \in Ditems, r \in Seq(Ditems) : Extends(A[<<d, r>>], r)
LEMMA ExtendsItems ==
    ASSUME NEW x, NEW r \in Seq(Ditems), Extends(x, r)
    PROVE  Items(r) \subseteq Items(x)
BY DEF Extends, Items
LEMMA ExtendsOn ==
    ASSUME NEW x, NEW y, NEW r \in Seq(Ditems), Extends(x, r), Extends(y, x)
    PROVE  Extends(y, r)
BY DEF Extends

\* With calls that extend what they are given, the fold does, and it is the same
\* for calls that are the same on what extends its start.
LEMMA FoldExtends ==
    ASSUME NEW A, NEW B, NEW P, NEW base \in Seq(Ditems), NEW dlist \in Seq(Ditems),
           Extending(A),
           \A e \in Ditems, r \in Seq(Ditems) :
              Extends(r, base) => A[<<e, r>>] = B[<<e, r>>]
    PROVE  /\ Extends(Folded(A, P, base, dlist), base)
           /\ Folded(A, P, base, dlist) = Folded(B, P, base, dlist)
<1> DEFINE n == Len(dlist)
<1>1. n \in Nat /\ DOMAIN dlist = 1 .. n /\ \A i \in 1 .. n : dlist[i] \in Ditems
  OBVIOUS
<1>2. PICK k : /\ k[0] = base /\ Folded(A, P, base, dlist) = k[n]
               /\ \A i \in 1 .. n :
                     k[i] = IF dlist[i] \in P THEN A[<<dlist[i], k[i - 1]>>] ELSE k[i - 1]
  BY <1>1, FoldedSteps
<1>3. PICK j : /\ j[0] = base /\ Folded(B, P, base, dlist) = j[n]
               /\ \A i \in 1 .. n :
                     j[i] = IF dlist[i] \in P THEN B[<<dlist[i], j[i - 1]>>] ELSE j[i - 1]
  BY <1>1, FoldedSteps
<1> HIDE DEF n
<1> DEFINE Ok == {m \in Nat : m <= n => k[m] = j[m] /\ Extends(k[m], base)}
<1>4. 0 \in Ok
  BY <1>2, <1>3 DEF Extends
<1>5. \A m \in Ok : m + 1 \in Ok
  <2> SUFFICES ASSUME NEW m \in Nat, m + 1 <= n, k[m] = j[m], Extends(k[m], base)
               PROVE  k[m + 1] = j[m + 1] /\ Extends(k[m + 1], base)
    BY <1>1
  <2>1. m + 1 \in 1 .. n /\ (m + 1) - 1 = m
    BY <1>1
  <2>2. k[m + 1] = IF dlist[m + 1] \in P THEN A[<<dlist[m + 1], k[m]>>] ELSE k[m]
    BY <1>2, <2>1
  <2>3. j[m + 1] = IF dlist[m + 1] \in P THEN B[<<dlist[m + 1], j[m]>>] ELSE j[m]
    BY <1>3, <2>1
  <2>4. dlist[m + 1] \in Ditems /\ k[m] \in Seq(Ditems)
    BY <1>1, <2>1 DEF Extends
  <2>5. A[<<dlist[m + 1], k[m]>>] = B[<<dlist[m + 1], k[m]>>]
    BY <2>4
  <2>6. Extends(A[<<dlist[m + 1], k[m]>>], k[m])
    BY <2>4 DEF Extending
  <2>7. Extends(A[<<dlist[m + 1], k[m]>>], base)
    BY <2>6, ExtendsOn
  <2> QED BY <2>2, <2>3, <2>5, <2>7
<1>6. Ok = Nat
  <2> HIDE DEF Ok
  <2>1. Ok \subseteq Nat
    BY DEF Ok
  <2> QED BY <1>4, <1>5, <2>1, Inductive
<1>7. k[n] = j[n] /\ Extends(k[n], base)
  BY <1>1, <1>6
<1> QED BY <1>2, <1>3, <1>7

LEMMA FoldKeeps ==
    ASSUME NEW A, NEW P, NEW base \in Seq(Ditems), NEW dlist \in Seq(Ditems), Extending(A)
    PROVE  Extends(Folded(A, P, base, dlist), base)
<1>1. \A e \in Ditems, r \in Seq(Ditems) : Extends(r, base) => A[<<e, r>>] = A[<<e, r>>]
  OBVIOUS
<1> QED BY <1>1, FoldExtends

LEMMA FoldSame ==
    ASSUME NEW A, NEW B, NEW P, NEW base \in Seq(Ditems), NEW dlist \in Seq(Ditems),
           Extending(A),
           \A e \in Ditems, r \in Seq(Ditems) :
              Extends(r, base) => A[<<e, r>>] = B[<<e, r>>]
    PROVE  Folded(A, P, base, dlist) = Folded(B, P, base, dlist)
BY FoldExtends

\* What is still to be selected becomes less with every call.
Missing(r) == Ditems \ Items(r)
LEMMA MissingShrinks ==
    ASSUME NEW r \in Seq(Ditems), NEW d \in Missing(r), NEW x, Extends(x, Append(r, d))
    PROVE  /\ Cardinality(Missing(r)) \in Nat /\ Cardinality(Missing(x)) \in Nat
           /\ Cardinality(Missing(x)) <= Cardinality(Missing(r)) - 1
<1>1. IsFiniteSet(Ditems)
  BY DepListAssumption
<1>2. IsFiniteSet(Missing(r)) /\ IsFiniteSet(Missing(x))
  BY <1>1, FS_Subset DEF Missing
<1>3. d \in Ditems /\ Append(r, d) \in Seq(Ditems)
  BY DEF Missing
<1>4. Items(Append(r, d)) \subseteq Items(x)
  BY <1>3, ExtendsItems
<1>5. d \in Items(Append(r, d)) /\ Items(r) \subseteq Items(Append(r, d))
  BY <1>3 DEF Items
<1>6. Missing(x) \subseteq Missing(r) \ {d}
  BY <1>4, <1>5 DEF Missing
<1>7. IsFiniteSet(Missing(r) \ {d})
      /\ Cardinality(Missing(r) \ {d}) = Cardinality(Missing(r)) - 1
  BY <1>2, FS_RemoveElement
<1>8. Cardinality(Missing(x)) <= Cardinality(Missing(r) \ {d})
  BY <1>6, <1>7, FS_Subset
<1> QED BY <1>2, <1>7, <1>8, FS_CardinalityType

\* The recursion comes to an end.
LEMMA CallsExist ==
    ASSUME NEW g, NEW dlist \in Seq(Ditems)
    PROVE  \E A : A = Called(A, g, dlist)
<1> DEFINE C(A) == Called(A, g, dlist)
           Ok == {m \in Nat : \E A : /\ Extending(A)
                                    /\ \A d \in Ditems, r \in Seq(Ditems) :
                                          Cardinality(Missing(r)) <= m
                                          => A[<<d, r>>] = C(A)[<<d, r>>]}
<1>1. \A A : C(A) = [call \in Ditems \X Seq(Ditems) |-> C(A)[call]]
  BY DEF Called
<1>2. ASSUME NEW A, NEW d \in Ditems, NEW r \in Seq(Ditems)
      PROVE  C(A)[<<d, r>>] =
               IF d \in Items(r) THEN r
               ELSE Folded(A, Providers(g, dlist, d), Append(r, d), dlist)
  BY DEF Called
<1> HIDE DEF C
<1>3. \A d \in Ditems, r \in Seq(Ditems) : Append(r, d) \in Seq(Ditems)
  OBVIOUS
<1>4. \A r \in Seq(Ditems) : IsFiniteSet(Missing(r)) /\ Cardinality(Missing(r)) \in Nat
                               /\ Cardinality(Missing(r)) <= Cardinality(Ditems)
  BY DepListAssumption, FS_Subset, FS_CardinalityType DEF Missing
<1>5. 0 \in Ok
  <2> DEFINE A == [call \in Ditems \X Seq(Ditems) |-> call[2]]
  <2>1. A = [call \in Ditems \X Seq(Ditems) |-> A[call]]
    OBVIOUS
  <2>2. \A d \in Ditems, r \in Seq(Ditems) : A[<<d, r>>] = r
    OBVIOUS
  <2> HIDE DEF A
  <2>3. Extending(A)
    <3>1. \A d \in Ditems, r \in Seq(Ditems) : Extends(r, r)
      BY DEF Extends
    <3>2. \A d \in Ditems, r \in Seq(Ditems) : Extends(A[<<d, r>>], r)
      BY <2>2, <3>1
    <3> QED BY <2>1, <3>2 DEF Extending
  <2>4. ASSUME NEW d \in Ditems, NEW r \in Seq(Ditems), Cardinality(Missing(r)) <= 0
        PROVE  A[<<d, r>>] = C(A)[<<d, r>>]
    <3>1. Missing(r) = {}
      BY <1>4, <2>4, FS_EmptySet
    <3>2. d \in Items(r)
      BY <3>1 DEF Missing
    <3>3. C(A)[<<d, r>>] = r
      BY <3>2, <1>2
    <3> QED BY <2>2, <3>3
  <2> QED BY <2>3, <2>4
<1>6. \A m \in Ok : m + 1 \in Ok
  <2> SUFFICES ASSUME NEW m \in Ok PROVE m + 1 \in Ok
    OBVIOUS
  <2>1. PICK A : /\ Extending(A)
                 /\ \A d \in Ditems, r \in Seq(Ditems) :
                       Cardinality(Missing(r)) <= m => A[<<d, r>>] = C(A)[<<d, r>>]
    OBVIOUS
  <2>2. m \in Nat
    OBVIOUS
  <2> DEFINE B == C(A)
  <2>3. ASSUME NEW d \in Ditems, NEW r \in Seq(Ditems) PROVE Extends(B[<<d, r>>], r)
    <3>1. CASE d \in Items(r)
      BY <3>1, <1>2 DEF Extends
    <3>2. CASE d \notin Items(r)
      <4>1. B[<<d, r>>] = Folded(A, Providers(g, dlist, d), Append(r, d), dlist)
        BY <3>2, <1>2
      <4>2. Extends(B[<<d, r>>], Append(r, d))
        <5>1. Append(r, d) \in Seq(Ditems)
          BY <1>3
        <5> DEFINE P == Providers(g, dlist, d)
        <5> HIDE DEF P
        <5>2. Extends(Folded(A, P, Append(r, d), dlist), Append(r, d))
          BY <2>1, <5>1, FoldKeeps
        <5> QED BY <4>1, <5>2 DEF P
      <4>3. Extends(Append(r, d), r)
        BY <1>3 DEF Extends
      <4> QED BY <4>2, <4>3, ExtendsOn
    <3> QED BY <3>1, <3>2
  <2>4. Extending(B)
    <3>1. B = [call \in Ditems \X Seq(Ditems) |-> B[call]]
      BY <1>1
    <3> HIDE DEF B
    <3> QED BY <2>3, <3>1 DEF Extending
  <2>5. ASSUME NEW d \in Ditems, NEW r \in Seq(Ditems), Cardinality(Missing(r)) <= m + 1
        PROVE  B[<<d, r>>] = C(B)[<<d, r>>]
    <3>1. CASE d \in Items(r)
      BY <3>1, <1>2
    <3>2. CASE d \notin Items(r)
      <4> DEFINE P == Providers(g, dlist, d)
      <4>1. B[<<d, r>>] = Folded(A, P, Append(r, d), dlist)
        BY <3>2, <1>2
      <4>2. C(B)[<<d, r>>] = Folded(B, P, Append(r, d), dlist)
        BY <3>2, <1>2
      <4>3. ASSUME NEW e \in Ditems, NEW x \in Seq(Ditems), Extends(x, Append(r, d))
            PROVE  A[<<e, x>>] = B[<<e, x>>]
        <5>1. d \in Missing(r)
          BY <3>2 DEF Missing
        <5>2. /\ Cardinality(Missing(r)) \in Nat /\ Cardinality(Missing(x)) \in Nat
              /\ Cardinality(Missing(x)) <= Cardinality(Missing(r)) - 1
          BY <4>3, <5>1, MissingShrinks
        <5>3. Cardinality(Missing(x)) <= m
          BY <2>2, <2>5, <5>2
        <5> QED BY <2>1, <5>3
      <4> HIDE DEF B, P
      <4>4. Folded(A, P, Append(r, d), dlist) = Folded(B, P, Append(r, d), dlist)
        <5>1. Append(r, d) \in Seq(Ditems)
          BY <1>3
        <5>2. \A e \in Ditems, x \in Seq(Ditems) :
                Extends(x, Append(r, d)) => A[<<e, x>>] = B[<<e, x>>]
          BY <4>3
        <5>3. PICK b \in Seq(Ditems) : b = Append(r, d)
          BY <5>1
        <5>4. \A e \in Ditems, x \in Seq(Ditems) : Extends(x, b) => A[<<e, x>>] = B[<<e, x>>]
          BY <5>2, <5>3
        <5>5. Extending(A)
          BY <2>1
        <5>6. Folded(A, P, b, dlist) = Folded(B, P, b, dlist)
          BY <5>4, <5>5, FoldSame
        <5> QED BY <5>3, <5>6
      <4> QED BY <4>1, <4>2, <4>4
    <3> QED BY <3>1, <3>2
  <2> HIDE DEF B
  <2>6. m + 1 \in Nat
    BY <2>2
  <2> QED BY <2>4, <2>5, <2>6
<1>7. Ok = Nat
  <2> HIDE DEF Ok
  <2>1. Ok \subseteq Nat
    BY DEF Ok
  <2> QED BY <1>5, <1>6, <2>1, Inductive
<1>8. Cardinality(Ditems) \in Nat
  BY DepListAssumption, FS_CardinalityType
<1>9. PICK A : /\ Extending(A)
               /\ \A d \in Ditems, r \in Seq(Ditems) :
                     Cardinality(Missing(r)) <= Cardinality(Ditems)
                     => A[<<d, r>>] = C(A)[<<d, r>>]
  BY <1>7, <1>8
<1>10. \A d \in Ditems, r \in Seq(Ditems) : A[<<d, r>>] = C(A)[<<d, r>>]
  BY <1>4, <1>9
<1>11. A = C(A)
  <2>1. \A call \in Ditems \X Seq(Ditems) : A[call] = C(A)[call]
    BY <1>10
  <2> QED BY <1>1, <1>9, <2>1 DEF Extending
<1> QED BY <1>11 DEF C

\* What a call for d adds to r: d and what that requires, once each, and no more
\* than any set that has d and, with an item, the providers of what it requires.
Distinct(x) == \A i, j \in 1 .. Len(x) : x[i] = x[j] => i = j
NeedsIn(g, dlist, T, x) == \A y \in T : Providers(g, dlist, y) \subseteq Items(x)
IsClosed(g, dlist, S) == \A y \in S : Providers(g, dlist, y) \subseteq S
Within(g, dlist, x, d, r) ==
    \A S : d \in S /\ IsClosed(g, dlist, S) => Items(x) \subseteq Items(r) \cup S
Adds(g, dlist, d, r, x) ==
    /\ Extends(x, r) /\ d \in Items(x) /\ Distinct(x)
    /\ d \notin Items(r) => Extends(x, Append(r, d))
    /\ NeedsIn(g, dlist, Items(x) \ Items(r), x) /\ Within(g, dlist, x, d, r)

LEMMA AppendItem ==
    ASSUME NEW r \in Seq(Ditems), NEW d \in Ditems \ Items(r), Distinct(r)
    PROVE  /\ Append(r, d) \in Seq(Ditems) /\ Extends(Append(r, d), r)
           /\ Items(Append(r, d)) = Items(r) \cup {d} /\ Distinct(Append(r, d))
<1>1. /\ Append(r, d) \in Seq(Ditems) /\ Len(Append(r, d)) = Len(r) + 1 /\ Len(r) \in Nat
      /\ \A i \in 1 .. Len(r) : Append(r, d)[i] = r[i] /\ r[i] # d
      /\ Append(r, d)[Len(r) + 1] = d
  BY DEF Items
<1>2. Extends(Append(r, d), r)
  BY <1>1 DEF Extends
<1>3. Items(Append(r, d)) = Items(r) \cup {d}
  BY <1>1 DEF Items
<1>4. Distinct(Append(r, d))
  <2>1. \A i \in 1 .. Len(Append(r, d)) : i \in 1 .. Len(r) \/ i = Len(r) + 1
    BY <1>1
  <2> QED BY <1>1, <2>1 DEF Distinct
<1> QED BY <1>1, <1>2, <1>3, <1>4

\* One call more, within that of d.
LEMMA AddsOneMore ==
    ASSUME NEW g, NEW dlist \in Seq(Ditems), NEW d \in Ditems, NEW r \in Seq(Ditems),
           NEW b \in Seq(Ditems), Items(b) = Items(r) \cup {d},
           NEW x \in Seq(Ditems), NEW e \in Providers(g, dlist, d), NEW z,
           Extends(x, b), NeedsIn(g, dlist, Items(x) \ Items(b), x),
           Within(g, dlist, x, d, r), Adds(g, dlist, e, x, z)
    PROVE  /\ Extends(z, b) /\ NeedsIn(g, dlist, Items(z) \ Items(b), z)
           /\ Within(g, dlist, z, d, r) /\ Distinct(z) /\ e \in Items(z)
           /\ Items(x) \subseteq Items(z)
<1>1. Extends(z, x) /\ Distinct(z) /\ e \in Items(z)
  BY DEF Adds
<1>2. Extends(z, b) /\ Items(x) \subseteq Items(z)
  BY <1>1, ExtendsOn, ExtendsItems
<1>3. NeedsIn(g, dlist, Items(z) \ Items(b), z)
  BY <1>2 DEF Adds, NeedsIn
<1>4. Within(g, dlist, z, d, r)
  <2> SUFFICES ASSUME NEW S, d \in S, IsClosed(g, dlist, S)
               PROVE  Items(z) \subseteq Items(r) \cup S
    BY DEF Within
  <2>1. e \in S
    BY DEF IsClosed
  <2>2. Items(z) \subseteq Items(x) \cup S
    BY <2>1 DEF Adds, Within
  <2>3. Items(x) \subseteq Items(r) \cup S
    BY DEF Within
  <2> QED BY <2>2, <2>3
<1> QED BY <1>1, <1>2, <1>3, <1>4

\* A call for an item that is not selected yet, if the calls it makes do what they should.
LEMMA CallAdds ==
    ASSUME NEW g, NEW dlist \in Seq(Ditems), NEW A, NEW r \in Seq(Ditems), Distinct(r),
           NEW d \in Ditems \ Items(r),
           \A e \in Ditems, x \in Seq(Ditems) :
              Extends(x, Append(r, d)) /\ Distinct(x) => Adds(g, dlist, e, x, A[<<e, x>>])
    PROVE  Adds(g, dlist, d, r, Folded(A, Providers(g, dlist, d), Append(r, d), dlist))
<1> DEFINE n == Len(dlist)
           P == Providers(g, dlist, d)
<1>1. n \in Nat /\ DOMAIN dlist = 1 .. n /\ (\A i \in 1 .. n : dlist[i] \in Ditems)
      /\ \A i \in 1 .. n : dlist[i] \in Items(dlist)
  BY DEF Items
<1>2. PICK b \in Seq(Ditems) :
        b = Append(r, d) /\ Extends(b, r) /\ Items(b) = Items(r) \cup {d} /\ Distinct(b)
  BY AppendItem
<1>3. PICK k : /\ k[0] = b /\ Folded(A, P, b, dlist) = k[n]
               /\ \A i \in 1 .. n :
                     k[i] = IF dlist[i] \in P THEN A[<<dlist[i], k[i - 1]>>] ELSE k[i - 1]
  <2>1. PICK Q : Q = P
    OBVIOUS
  <2>2. PICK m \in Nat : m = n
    BY <1>1
  <2>3. DOMAIN dlist = 1 .. m
    BY <1>1, <2>2
  <2>4. \E k : /\ k[0] = b /\ Folded(A, Q, b, dlist) = k[m]
               /\ \A i \in 1 .. m :
                     k[i] = IF dlist[i] \in Q THEN A[<<dlist[i], k[i - 1]>>] ELSE k[i - 1]
    BY ONLY <2>3, m \in Nat, FoldedSteps
  <2> QED BY <2>1, <2>2, <2>4
<1>p. P = Providers(g, dlist, d)
  OBVIOUS
<1>n. n = Len(dlist)
  OBVIOUS
<1> HIDE DEF n, P
<1> DEFINE So(m) == /\ Extends(k[m], b) /\ Distinct(k[m])
                    /\ NeedsIn(g, dlist, Items(k[m]) \ Items(b), k[m])
                    /\ Within(g, dlist, k[m], d, r)
                    /\ \A i \in 1 .. m : dlist[i] \in P => dlist[i] \in Items(k[m])
           Ok == {m \in Nat : m <= n => So(m)}
<1>4. 0 \in Ok
  <2>1. Extends(b, b)
    BY DEF Extends
  <2>2. Within(g, dlist, b, d, r)
    BY <1>2 DEF Within
  <2>3. NeedsIn(g, dlist, Items(b) \ Items(b), b)
    BY DEF NeedsIn
  <2>4. \A i \in 1 .. 0 : FALSE
    OBVIOUS
  <2>5. So(0)
    BY <1>2, <1>3, <2>1, <2>2, <2>3, <2>4
  <2> QED BY <2>5
<1>5. \A m \in Ok : m + 1 \in Ok
  <2> SUFFICES ASSUME NEW m \in Nat, m + 1 <= n, So(m) PROVE So(m + 1)
    <3> HIDE DEF So
    <3>1. ASSUME NEW m \in Ok, m + 1 <= n PROVE So(m + 1)
      <4>1. m \in Nat /\ m <= n /\ So(m)
        BY <1>1, <3>1
      <4> QED BY <3>1, <4>1
    <3> QED BY <3>1
  <2>1. m + 1 \in 1 .. n /\ (m + 1) - 1 = m /\ \A i \in 1 .. m + 1 : i \in 1 .. m \/ i = m + 1
    BY <1>1
  <2>2. k[m + 1] = IF dlist[m + 1] \in P THEN A[<<dlist[m + 1], k[m]>>] ELSE k[m]
    BY <1>3, <2>1
  <2>3. CASE dlist[m + 1] \notin P
    BY <2>1, <2>2, <2>3
  <2>4. CASE dlist[m + 1] \in P
    <3>1. PICK e : e = dlist[m + 1]
      OBVIOUS
    <3>2. e \in Ditems /\ e \in Providers(g, dlist, d) /\ k[m] \in Seq(Ditems)
      BY <1>1, <1>p, <2>1, <2>4, <3>1 DEF Extends
    <3>3. Adds(g, dlist, e, k[m], A[<<e, k[m]>>])
      BY <1>2, <3>2
    <3>4. k[m + 1] = A[<<e, k[m]>>]
      BY <2>2, <2>4, <3>1
    <3>z. PICK x \in Seq(Ditems) : x = k[m]
      BY <3>2
    <3>y. PICK z : z = k[m + 1]
      OBVIOUS
    <3>w. /\ Extends(x, b) /\ NeedsIn(g, dlist, Items(x) \ Items(b), x)
          /\ Within(g, dlist, x, d, r) /\ Adds(g, dlist, e, x, z)
      BY <3>3, <3>4, <3>z, <3>y
    <3>v. /\ Extends(z, b) /\ NeedsIn(g, dlist, Items(z) \ Items(b), z)
          /\ Within(g, dlist, z, d, r) /\ Distinct(z) /\ e \in Items(z)
          /\ Items(x) \subseteq Items(z)
      <4>1. d \in Ditems /\ Items(b) = Items(r) \cup {d} /\ e \in Providers(g, dlist, d)
        BY <1>2, <3>2
      <4> HIDE DEF So, Ok
      <4> QED BY <4>1, <3>w, AddsOneMore
    <3>5. /\ Extends(k[m + 1], b) /\ NeedsIn(g, dlist, Items(k[m + 1]) \ Items(b), k[m + 1])
          /\ Within(g, dlist, k[m + 1], d, r) /\ Distinct(k[m + 1]) /\ e \in Items(k[m + 1])
          /\ Items(k[m]) \subseteq Items(k[m + 1])
      BY <3>z, <3>y, <3>v
    <3>6. \A i \in 1 .. m + 1 : dlist[i] \in P => dlist[i] \in Items(k[m + 1])
      BY <2>1, <3>1, <3>5
    <3> QED BY <3>5, <3>6
  <2> QED BY <2>3, <2>4
<1>6. Ok = Nat
  <2> HIDE DEF Ok
  <2>1. Ok \subseteq Nat
    BY DEF Ok
  <2> QED BY <1>4, <1>5, <2>1, Inductive
<1>7. So(n)
  <2> HIDE DEF So
  <2> QED BY <1>1, <1>6
<1> DEFINE x == k[n]
<1>8. /\ Extends(x, b) /\ Distinct(x) /\ NeedsIn(g, dlist, Items(x) \ Items(b), x)
      /\ Within(g, dlist, x, d, r)
      /\ \A i \in 1 .. n : dlist[i] \in P => dlist[i] \in Items(x)
  BY <1>7
<1> HIDE DEF x, So, Ok
<1>9. P \subseteq Items(x)
  BY <1>8, <1>p, <1>n DEF Providers, Items
<1>10. Extends(x, r) /\ d \in Items(x)
  BY <1>2, <1>8, ExtendsOn, ExtendsItems
<1>11. NeedsIn(g, dlist, Items(x) \ Items(r), x)
  BY <1>2, <1>8, <1>9, <1>p DEF NeedsIn
<1>12. Adds(g, dlist, d, r, x)
  BY <1>2, <1>8, <1>10, <1>11 DEF Adds
<1> QED BY <1>2, <1>3, <1>12, <1>p DEF x

\* Every call does.
LEMMA CallsAdd ==
    ASSUME NEW g, NEW dlist \in Seq(Ditems), NEW A, A = Called(A, g, dlist),
           NEW d \in Ditems, NEW r \in Seq(Ditems), Distinct(r)
    PROVE  Adds(g, dlist, d, r, A[<<d, r>>])
<1> DEFINE Ok == {m \in Nat : \A e \in Ditems, x \in Seq(Ditems) :
                    Cardinality(Missing(x)) <= m /\ Distinct(x)
                    => Adds(g, dlist, e, x, A[<<e, x>>])}
<1>1. \A x \in Seq(Ditems) : IsFiniteSet(Missing(x)) /\ Cardinality(Missing(x)) \in Nat
  BY DepListAssumption, FS_Subset, FS_CardinalityType DEF Missing
<1>2. ASSUME NEW e \in Ditems, NEW x \in Seq(Ditems)
      PROVE  A[<<e, x>>] = IF e \in Items(x) THEN x
                           ELSE Folded(A, Providers(g, dlist, e), Append(x, e), dlist)
  BY DEF Called
<1>3. ASSUME NEW e \in Ditems, NEW x \in Seq(Ditems), e \in Items(x), Distinct(x)
      PROVE  Adds(g, dlist, e, x, A[<<e, x>>])
  <2>1. A[<<e, x>>] = x
    BY <1>2, <1>3
  <2>2. Extends(x, x) /\ NeedsIn(g, dlist, Items(x) \ Items(x), x) /\ Within(g, dlist, x, e, x)
    BY DEF Extends, NeedsIn, Within
  <2> QED BY <1>3, <2>1, <2>2 DEF Adds
<1>4. 0 \in Ok
  <2> SUFFICES ASSUME NEW e \in Ditems, NEW x \in Seq(Ditems),
                      Cardinality(Missing(x)) <= 0, Distinct(x)
               PROVE  Adds(g, dlist, e, x, A[<<e, x>>])
    OBVIOUS
  <2>1. Missing(x) = {}
    BY <1>1, FS_EmptySet
  <2>2. e \in Items(x)
    BY <2>1 DEF Missing
  <2> QED BY <1>3, <2>2
<1>5. \A m \in Ok : m + 1 \in Ok
  <2> SUFFICES ASSUME NEW m \in Ok, NEW e \in Ditems, NEW x \in Seq(Ditems),
                      Cardinality(Missing(x)) <= m + 1, Distinct(x)
               PROVE  Adds(g, dlist, e, x, A[<<e, x>>])
    OBVIOUS
  <2>1. CASE e \in Items(x)
    BY <1>3, <2>1
  <2>2. CASE e \notin Items(x)
    <3>1. ASSUME NEW c \in Ditems, NEW y \in Seq(Ditems), Extends(y, Append(x, e)), Distinct(y)
          PROVE  Adds(g, dlist, c, y, A[<<c, y>>])
      <4>1. e \in Missing(x)
        BY <2>2 DEF Missing
      <4>2. /\ Cardinality(Missing(x)) \in Nat /\ Cardinality(Missing(y)) \in Nat
            /\ Cardinality(Missing(y)) <= Cardinality(Missing(x)) - 1
        BY <3>1, <4>1, MissingShrinks
      <4>3. Cardinality(Missing(y)) <= m
        BY <4>2
      <4> QED BY <3>1, <4>3
    <3>2. e \in Ditems \ Items(x)
      BY <2>2
    <3>3. \A c \in Ditems, y \in Seq(Ditems) :
            Extends(y, Append(x, e)) /\ Distinct(y) => Adds(g, dlist, c, y, A[<<c, y>>])
      BY <3>1
    <3> HIDE DEF Ok
    <3>4. Adds(g, dlist, e, x, Folded(A, Providers(g, dlist, e), Append(x, e), dlist))
      BY <3>2, <3>3, CallAdds
    <3> QED BY <1>2, <2>2, <3>4
  <2> QED BY <2>1, <2>2
<1>6. Ok = Nat
  <2> HIDE DEF Ok
  <2>1. Ok \subseteq Nat
    BY DEF Ok
  <2> QED BY <1>4, <1>5, <2>1, Inductive
<1> QED BY <1>1, <1>6

\* dlist_append_dependents selects the item and all that it needs, provider by provider,
\* once each and nothing else, whatever cycles there are; and the item is in front.
LEMMA SelectionIs ==
    ASSUME NEW dlist \in Seq(Ditems), NEW root \in Ditems,
           list = AppendDependents(graph, dlist, root)
    PROVE  SelectsNeeded(dlist, Head(list))
<1> DEFINE A == CHOOSE A : A = Called(A, graph, dlist)
<1>1. A = Called(A, graph, dlist)
  BY CallsExist
<1>2. list = A[<<root, <<>>>>]
  BY AppendIs
<1> HIDE DEF A
<1>3. <<>> \in Seq(Ditems) /\ Distinct(<<>>) /\ Items(<<>>) = {}
  BY DEF Distinct, Items
<1>4. Adds(graph, dlist, root, <<>>, list)
  BY <1>1, <1>2, <1>3, CallsAdd
<1>5. /\ list \in Seq(Ditems) /\ Len(list) \in Nat /\ 1 <= Len(list) /\ list[1] = root
  <2>1. Extends(list, <<root>>)
    BY <1>3, <1>4 DEF Adds
  <2> QED BY <2>1 DEF Extends
<1>6. Head(list) = root
  BY <1>5
<1>7. root \in Items(list) /\ Distinct(list) /\ NeedsIn(graph, dlist, Items(list), list)
      /\ Within(graph, dlist, list, root, <<>>)
  BY <1>3, <1>4 DEF Adds
<1>8. \A d \in Items(list) : Providers(graph, dlist, d) \subseteq Items(list)
  BY <1>7 DEF NeedsIn
<1>9. \A i, j \in 1 .. Len(list) : list[i] = list[j] => i = j
  BY <1>7 DEF Distinct
<1>10. ASSUME NEW S \in SUBSET Items(list), root \in S,
              \A d \in S : Providers(graph, dlist, d) \subseteq S
       PROVE  S = Items(list)
  BY <1>3, <1>7, <1>10 DEF Within, IsClosed
<1> QED BY <1>6, <1>7, <1>8, <1>9, <1>10 DEF SelectsNeeded, Providers

\* What is selected for an item, from the whole list, is what the item needs, for every
\* graph (dlist_append_dependents).
THEOREM SelectionIsNeededCorrect == CasesSpec => []SelectionIsNeeded
<1>1. Whole \in Seq(Ditems)
  BY WholeAssumption DEF Whole
<1>2. CasesInit => SelectionIsNeeded
  BY <1>1, SelectionIs DEF CasesInit, Selected, SelectionIsNeeded
<1>3. SelectionIsNeeded /\ [Next]_vars => SelectionIsNeeded'
  <2> SUFFICES ASSUME SelectionIsNeeded, [Next]_vars, pc' = "prerun", list' # Whole'
               PROVE  SelectsNeeded(Whole, Head(list))'
    BY DEF SelectionIsNeeded
  <2>1. UNCHANGED vars
    BY DEF Next, PreRun, Select, Exhausted, HandlerSucceeds, HandlerFails, HandlerThrows, Done
  <2>2. UNCHANGED <<graph, list, pc>>
    BY <2>1 DEF vars
  <2> QED BY <2>2 DEF SelectionIsNeeded, SelectsNeeded, Items
<1> QED BY <1>2, <1>3, PTL DEF CasesSpec
=============================================================================
