------------------------------- MODULE KeyedList -------------------------------
(* Keyed lists (thread2.6/generic/tclXkeylist.c) in the variables of an       *)
(* interpreter, and in an element of a shared array (threadSvKeylistCmd.c).   *)
(* A value is an object with a string, an internal representation, or both;   *)
(* variables, entries and running commands hold references to it.  An object  *)
(* with one reference is changed in place, one with more is copied first.     *)
EXTENDS Integers, Sequences, FiniteSets

CONSTANTS Vars,        \* variables of one interpreter
          Cell,        \* the element of a shared array
          Words,       \* values that are no lists
          Writes,      \* sequences of <<path, word or variable>> keylset is given
          CellWrites,  \* the same, for tsv::keylset
          Erasures,    \* sequences of paths keyldel is given
          Paths,       \* paths keylget and keylkeys are given
          MaxObjs,     \* objects at a time
          Spare,       \* objects a command may need
          MaxDepth,    \* nesting of a value
          MaxCommands  \* commands in a behaviour

VARIABLES heap,        \* [1..MaxObjs -> object or Nil]
          holds,       \* [Vars \cup {Cell} -> the object it holds]
          said,        \* the answer of the last command
          ran          \* commands run so far, up to MaxCommands
vars == <<heap, holds, said, ran>>

Holders == Vars \cup {Cell}
Nil == [refs |-> 0, text |-> <<>>, keyed |-> FALSE, ents |-> <<>>]
\* A string object; text is <<>> while it is invalid and <<t>> when it is t.
String(t) == [refs |-> 0, text |-> <<t>>, keyed |-> FALSE, ents |-> <<>>]
TclX_NewKeyedListObj == [refs |-> 0, text |-> <<>>, keyed |-> TRUE, ents |-> <<>>]
List(l) == [word |-> "", list |-> l]
Word(w) == [word |-> w, list |-> <<>>]
Answer(st) == [st |-> st, value |-> List(<<>>), keys |-> <<>>]

Fresh(h) == CHOOSE i \in 1 .. MaxObjs : h[i] = Nil /\ \A j \in 1 .. i - 1 : h[j] # Nil
New(h, o) == [h EXCEPT ![Fresh(h)] = o]
Incr(h, i) == [h EXCEPT ![i].refs = @ + 1]

RECURSIVE Decr(_, _), DecrAll(_, _), StringOf(_, _), UpdateString(_, _),
          UpdateAll(_, _), Adopt(_, _, _), IncrAll(_, _)

\* Tcl_DecrRefCount, FreeKeyedListData: the last reference frees the object.
Decr(h, i) ==
    IF h[i].refs > 1 THEN [h EXCEPT ![i].refs = @ - 1]
    ELSE DecrAll([h EXCEPT ![i] = Nil], h[i].ents)
DecrAll(h, es) == IF es = <<>> THEN h ELSE DecrAll(Decr(h, es[1][2]), Tail(es))
IncrAll(h, es) == IF es = <<>> THEN h ELSE IncrAll(Incr(h, es[1][2]), Tail(es))

\* Tcl_GetString: the string that is there, or the one made from the entries,
\* which is kept, in the object and in the objects below it.
StringOf(h, i) ==
    IF h[i].text # <<>> THEN h[i].text[1]
    ELSE List([n \in DOMAIN h[i].ents |->
                 <<h[i].ents[n][1], StringOf(h, h[i].ents[n][2])>>])
UpdateString(h, i) ==
    IF h[i].text # <<>> THEN h
    ELSE [UpdateAll(h, h[i].ents) EXCEPT ![i].text = <<StringOf(h, i)>>]
UpdateAll(h, es) == IF es = <<>> THEN h ELSE UpdateAll(UpdateString(h, es[1][2]), Tail(es))
Invalidate(h, i) == [h EXCEPT ![i].text = <<>>]

\* Tcl_DuplicateObj with DupKeyedListInternalRep: the entries are shared.
Duplicate(h, i) == New(IncrAll(h, h[i].ents), [h[i] EXCEPT !.refs = 0])

\* Sv_DuplicateObj: keyedListType was registered first and is never found by the
\* walk over the registered types, so a keyed list is copied as its string.
Sv_DuplicateObj(h, i) == New(UpdateString(h, i), String(StringOf(h, i)))

\* Tcl_ConvertToType, SetKeyedListFromAny: one level of the string becomes entries.
Converts(h, i) ==
    h[i].keyed \/ LET t == h[i].text[1]
                  IN  t.word = "" /\ \A n \in DOMAIN t.list : t.list[n][1] # ""
Adopt(h, i, l) ==
    IF l = <<>> THEN h
    ELSE Adopt(Incr([New(h, String(l[1][2])) EXCEPT ![i].ents = Append(@, <<l[1][1], Fresh(h)>>)],
                    Fresh(h)), i, Tail(l))
Convert(h, i) ==
    IF h[i].keyed THEN h ELSE Adopt([h EXCEPT ![i].keyed = TRUE], i, h[i].text[1].list)

EntriesOf(es, k) == {n \in DOMAIN es : es[n][1] = k}
FindKeyedListEntry(es, k) == CHOOSE n \in EntriesOf(es, k) : \A m \in EntriesOf(es, k) : n <= m

\* Mutant: the child is changed where it is, whoever else refers to it.
ChildInPlace(h, i, n) == h
DupSharedKeyListChild(h, i, n) ==
    LET c == h[i].ents[n][2]
    IN  IF h[c].refs <= 1 THEN h
        ELSE Incr([Duplicate(h, c) EXCEPT ![i].ents[n][2] = Fresh(h)], Fresh(h))

RECURSIVE TclX_KeyedListSet(_, _, _, _), TclX_KeyedListDelete(_, _, _),
          TclX_KeyedListGet(_, _, _)

\* Each returns the heap it leaves and a status; Get also the object it found.
TclX_KeyedListSet(h, i, p, v) ==
    LET c == Convert(h, i)
        es == c[i].ents
        n == FindKeyedListEntry(es, p[1])
        known == EntriesOf(es, p[1]) # {}
        new == Fresh(c)
        below == TclX_KeyedListSet(New(c, TclX_NewKeyedListObj), new, Tail(p), v)
        d == DupSharedKeyListChild(c, i, n)
        down == TclX_KeyedListSet(d, d[i].ents[n][2], Tail(p), v)
    IN  CASE ~Converts(h, i) -> [heap |-> h, st |-> "error"]
          [] Converts(h, i) /\ Len(p) = 1 ->
                [heap |-> Invalidate(Incr(IF known
                    THEN [Decr(c, es[n][2]) EXCEPT ![i].ents[n] = <<p[1], v>>]
                    ELSE [c EXCEPT ![i].ents = Append(@, <<p[1], v>>)], v), i),
                 st |-> "ok"]
          [] Converts(h, i) /\ Len(p) > 1 /\ known ->
                IF down.st = "ok" THEN [down EXCEPT !.heap = Invalidate(@, i)] ELSE down
          [] OTHER ->
                IF below.st = "ok"
                THEN [below EXCEPT !.heap =
                        Invalidate(Incr([@ EXCEPT ![i].ents = Append(@, <<p[1], new>>)], new), i)]
                ELSE [below EXCEPT !.heap = Decr(@, new)]

DeleteKeyedListEntry(h, i, n) ==
    [Decr(h, h[i].ents[n][2]) EXCEPT ![i].ents =
        SubSeq(@, 1, n - 1) \o SubSeq(@, n + 1, Len(@))]

TclX_KeyedListDelete(h, i, p) ==
    LET c == Convert(h, i)
        es == c[i].ents
        n == FindKeyedListEntry(es, p[1])
        d == DupSharedKeyListChild(c, i, n)
        sub == d[i].ents[n][2]
        down == TclX_KeyedListDelete(d, sub, Tail(p))
    IN  CASE ~Converts(h, i) -> [heap |-> h, st |-> "error"]
          [] Converts(h, i) /\ EntriesOf(es, p[1]) = {} -> [heap |-> c, st |-> "break"]
          [] Converts(h, i) /\ EntriesOf(es, p[1]) # {} /\ Len(p) = 1 ->
                [heap |-> Invalidate(DeleteKeyedListEntry(c, i, n), i), st |-> "ok"]
          [] OTHER ->
                IF down.st # "ok" THEN down
                ELSE [down EXCEPT !.heap =
                        Invalidate(IF @[sub].ents = <<>> THEN DeleteKeyedListEntry(@, i, n) ELSE @, i)]

TclX_KeyedListGet(h, i, p) ==
    LET c == Convert(h, i)
        es == c[i].ents
        n == FindKeyedListEntry(es, p[1])
    IN  CASE ~Converts(h, i) -> [heap |-> h, st |-> "error", obj |-> i]
          [] Converts(h, i) /\ EntriesOf(es, p[1]) = {} -> [heap |-> c, st |-> "break", obj |-> i]
          [] Converts(h, i) /\ EntriesOf(es, p[1]) # {} /\ Len(p) = 1 ->
                [heap |-> c, st |-> "ok", obj |-> es[n][2]]
          [] OTHER -> TclX_KeyedListGet(c, es[n][2], Tail(p))
RECURSIVE TclX_KeyedListGetKeys(_, _, _), SetAll(_, _, _, _), DeleteAll(_, _, _),
          SvSetAll(_, _), Push(_, _), Pop(_, _), Depth(_)

TclX_KeyedListGetKeys(h, i, p) ==
    LET c == Convert(h, i)
    IN  CASE ~Converts(h, i) -> [heap |-> h, st |-> "error", keys |-> <<>>]
          [] Converts(h, i) /\ p = <<>> ->
                [heap |-> c, st |-> "ok", keys |-> [n \in DOMAIN c[i].ents |-> c[i].ents[n][1]]]
          [] Converts(h, i) /\ p # <<>> /\ EntriesOf(c[i].ents, p[1]) = {} ->
                [heap |-> c, st |-> "break", keys |-> <<>>]
          [] OTHER -> TclX_KeyedListGetKeys(c,
                        c[i].ents[FindKeyedListEntry(c[i].ents, p[1])][2], Tail(p))

\* An empty key is refused by the commands on variables, not by those on the cell.
ValidateKey(p) == p # <<"">>

\* The words of a running command hold their objects until it returns.
Push(h, ss) ==
    IF ss = <<>> THEN [heap |-> h, ids |-> <<>>]
    ELSE LET i == IF ss[1] \in Vars THEN holds[ss[1]] ELSE Fresh(h)
             g == IF ss[1] \in Vars THEN h ELSE New(h, String(Word(ss[1])))
             rest == Push(Incr(g, i), Tail(ss))
         IN  [rest EXCEPT !.ids = <<i>> \o @]
Pop(h, ids) == IF ids = <<>> THEN h ELSE Pop(Decr(h, ids[1]), Tail(ids))
Given(ps) == Push(heap, [n \in DOMAIN ps |-> ps[n][2]])

\* The loops over the pairs and keys of one command stop at the first failure.
SetAll(h, i, ps, ids) ==
    IF ps = <<>> THEN [heap |-> h, st |-> "ok"]
    ELSE IF ~ValidateKey(ps[1][1]) THEN [heap |-> h, st |-> "error"]
    ELSE LET r == TclX_KeyedListSet(h, i, ps[1][1], ids[1])
         IN  IF r.st = "ok" THEN SetAll(r.heap, i, Tail(ps), Tail(ids)) ELSE r
DeleteAll(h, i, ps) ==
    IF ps = <<>> THEN [heap |-> h, st |-> "ok"]
    ELSE LET r == TclX_KeyedListDelete(h, i, ps[1])
         IN  IF r.st = "ok" THEN DeleteAll(r.heap, i, Tail(ps))
             ELSE [r EXCEPT !.st = "error"]

\* Tcl_SetVar2Ex: the variable refers to the object, and no longer to its old one.
SetVar(h, y, i) == IF holds[y] = i THEN h ELSE Decr(Incr(h, i), holds[y])

Depth(t) ==
    IF t.list = <<>> THEN 0
    ELSE 1 + (CHOOSE d \in {Depth(t.list[n][2]) : n \in DOMAIN t.list} :
                \A n \in DOMAIN t.list : Depth(t.list[n][2]) <= d)
Room == Cardinality({i \in 1 .. MaxObjs : heap[i] = Nil}) >= Spare
Bounded == \A x \in Holders : Depth(StringOf(heap', holds'[x])) <= MaxDepth
--------------------------------------------------------------------------------
Init ==
    /\ holds = CHOOSE at \in [Holders -> 1 .. Cardinality(Holders)] :
                  \A x, y \in Holders : at[x] = at[y] => x = y
    /\ heap = [i \in 1 .. MaxObjs |-> IF \E x \in Holders : holds[x] = i
                                     THEN [String(List(<<>>)) EXCEPT !.refs = 1] ELSE Nil]
    /\ said = Answer("none")
    /\ ran = 0

\* set y $x: the two variables share the object.
Assign(x, y) ==
    /\ heap' = SetVar(heap, y, holds[x])
    /\ holds' = [holds EXCEPT ![y] = holds[x]]
    /\ said' = Answer("ok")

Read(x) ==
    /\ heap' = UpdateString(heap, holds[x])
    /\ said' = [Answer("ok") EXCEPT !.value = StringOf(heap, holds[x])]
    /\ UNCHANGED holds

\* A value others refer to is copied before it is changed; the copy becomes the
\* variable's only when every pair could be set.
Keylset(x, ps) ==
    LET a == Given(ps)
        old == holds[x]
        shared == a.heap[old].refs > 1
        cur == IF shared THEN Fresh(a.heap) ELSE old
        r == SetAll(IF shared THEN Duplicate(a.heap, old) ELSE a.heap, cur, ps, a.ids)
    IN  /\ IF r.st = "ok"
           THEN /\ heap' = Pop(SetVar(r.heap, x, cur), a.ids)
                /\ holds' = [holds EXCEPT ![x] = cur]
           ELSE /\ heap' = Pop(IF shared THEN Decr(r.heap, cur) ELSE r.heap, a.ids)
                /\ UNCHANGED holds
        /\ said' = Answer(r.st)

\* Here the copy is the variable's before the first key is removed.
Keyldel(x, ps) ==
    LET old == holds[x]
        shared == heap[old].refs > 1
        cur == IF shared THEN Fresh(heap) ELSE old
        r == DeleteAll(IF shared THEN SetVar(Duplicate(heap, old), x, cur) ELSE heap, cur, ps)
    IN  /\ heap' = r.heap
        /\ holds' = [holds EXCEPT ![x] = cur]
        /\ said' = Answer(r.st)

\* keylget x p, and keylget x p y which puts the entry's object itself into y.
Keylget(x, p) ==
    LET r == TclX_KeyedListGet(heap, holds[x], p)
    IN  /\ heap' = IF r.st = "ok" THEN UpdateString(r.heap, r.obj) ELSE r.heap
        /\ said' = IF r.st = "ok" THEN [Answer("ok") EXCEPT !.value = StringOf(r.heap, r.obj)]
                   ELSE Answer("error")
        /\ UNCHANGED holds
KeylgetInto(x, p, y) ==
    LET r == TclX_KeyedListGet(heap, holds[x], p)
    IN  /\ heap' = IF r.st = "ok" THEN SetVar(r.heap, y, r.obj) ELSE r.heap
        /\ holds' = IF r.st = "ok" THEN [holds EXCEPT ![y] = r.obj] ELSE holds
        /\ said' = Answer(IF r.st = "break" THEN "absent" ELSE r.st)

Keylkeys(x, p) ==
    LET r == TclX_KeyedListGetKeys(heap, holds[x], p)
    IN  /\ heap' = r.heap
        /\ said' = IF r.st = "ok" THEN [Answer("ok") EXCEPT !.keys = r.keys] ELSE Answer("error")
        /\ UNCHANGED holds
--------------------------------------------------------------------------------
(* The shared element.  What goes in or comes out is duplicated.              *)
\* The duplicate that could not be set is lost; the model takes it back.
SvSetAll(a, ps) ==
    IF ps = <<>> THEN [heap |-> a.heap, st |-> "ok"]
    ELSE LET v == Fresh(UpdateString(a.heap, a.ids[1]))
             r == TclX_KeyedListSet(Sv_DuplicateObj(a.heap, a.ids[1]), holds[Cell], ps[1][1], v)
         IN  IF r.st = "ok" THEN SvSetAll([heap |-> r.heap, ids |-> Tail(a.ids)], Tail(ps))
             ELSE [r EXCEPT !.heap[v] = Nil]
SvKeylset(ps) ==
    LET r == SvSetAll(Given(ps), ps)
    IN  /\ heap' = Pop(r.heap, Given(ps).ids)
        /\ said' = Answer(r.st)
        /\ UNCHANGED holds

SvKeylget(p, y) ==
    LET r == TclX_KeyedListGet(heap, holds[Cell], p)
        d == Sv_DuplicateObj(r.heap, r.obj)
        new == Fresh(UpdateString(r.heap, r.obj))
    IN  /\ heap' = IF r.st = "ok" THEN SetVar(d, y, new) ELSE r.heap
        /\ holds' = IF r.st = "ok" THEN [holds EXCEPT ![y] = new] ELSE holds
        /\ said' = Answer(IF r.st = "break" THEN "absent" ELSE r.st)

SvKeyldel(ps) ==
    LET r == DeleteAll(heap, holds[Cell], ps)
    IN  heap' = r.heap /\ said' = Answer(r.st) /\ UNCHANGED holds

SvKeylkeys ==
    LET r == TclX_KeyedListGetKeys(heap, holds[Cell], <<>>)
    IN  /\ heap' = r.heap
        /\ said' = IF r.st = "ok" THEN [Answer("ok") EXCEPT !.keys = r.keys] ELSE Answer("error")
        /\ UNCHANGED holds

\* tsv::set and tsv::get of the whole element.
SvSet(x) ==
    LET new == Fresh(UpdateString(heap, holds[x]))
    IN  /\ heap' = Decr(Incr(Sv_DuplicateObj(heap, holds[x]), new), holds[Cell])
        /\ holds' = [holds EXCEPT ![Cell] = new]
        /\ said' = Answer("ok")
SvGet(y) ==
    LET new == Fresh(UpdateString(heap, holds[Cell]))
    IN  /\ heap' = SetVar(Sv_DuplicateObj(heap, holds[Cell]), y, new)
        /\ holds' = [holds EXCEPT ![y] = new]
        /\ said' = Answer("ok")

Command ==
    \/ \E x \in Vars :
         \/ Read(x) \/ SvSet(x) \/ SvGet(x)
         \/ \E y \in Vars \ {x} : Assign(x, y)
         \/ \E ps \in Writes : Keylset(x, ps)
         \/ \E ps \in Erasures : Keyldel(x, ps)
         \/ \E p \in Paths : \/ Keylget(x, p) \/ Keylkeys(x, p)
                             \/ \E y \in Vars : KeylgetInto(x, p, y)
                             \/ SvKeylget(p, x)
         \/ Keylkeys(x, <<>>)
    \/ SvKeylkeys
    \/ \E ps \in CellWrites : SvKeylset(ps)
    \/ \E ps \in Erasures : SvKeyldel(ps)

Next == Room /\ ran < MaxCommands /\ ran' = ran + 1 /\ Command /\ Bounded
Spec == Init /\ [][Next]_vars
--------------------------------------------------------------------------------
(* Each variable and the shared element behave as if they had a value of their *)
(* own: no command on one changes another, a list and the lists below it read  *)
(* the same through their keys and as a string, and a command that fails       *)
(* leaves what it left in the order the pairs were given.                      *)
Values == INSTANCE KeyedValues WITH
    Writes <- Writes \cup CellWrites, Paths <- Paths \cup {<<>>},
    val <- [x \in Holders |-> StringOf(heap, holds[x])]
ImplementsValues == Values!Spec
================================================================================
