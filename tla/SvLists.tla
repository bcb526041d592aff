-------------------------------- MODULE SvLists --------------------------------
(* The list commands on one element of a shared array                          *)
(* (thread2.6/generic/threadSvListCmd.c).  The element and the lists below it  *)
(* are objects nobody else refers to: a tree of nodes [text, list, els], where *)
(* text is <<>> while the string is invalid and els are the elements once the  *)
(* string was parsed.  A command runs under the lock of its bucket; the store  *)
(* is written by the thread that ran it.                                       *)
EXTENDS Integers, Sequences

CONSTANTS Broken, Any, Indexes, Deep, Values,
          MaxLen,      \* elements of a list
          MaxDepth     \* nesting of lists

VARIABLES cell,        \* <<>> or <<node>>
          bound,       \* is the array bound to a persistent store?
          kept,        \* what the store holds: <<>> or <<text>>
          held,        \* was the bucket left locked?
          said         \* the answer of the last command
vars == <<cell, bound, kept, held, said>>

Text(w, l) == [word |-> w, list |-> l]
Empty == Text("", <<>>)
String(t) == [text |-> <<t>>, list |-> FALSE, els |-> <<>>]
ListOf(els) == [text |-> <<>>, list |-> TRUE, els |-> els]
Answer(t, n) == [st |-> "ok", value |-> t, num |-> n]
Failure == [st |-> "error", value |-> Empty, num |-> 0]

RECURSIVE TextOf(_), Cached(_)
\* Tcl_GetString, and the node with the strings it makes on the way.
TextOf(n) ==
    IF n.text # <<>> THEN n.text[1]
    ELSE LET s == [i \in DOMAIN n.els |-> TextOf(n.els[i])]
         IN  IF Len(s) = 1 /\ s[1].word \notin {"", Broken} THEN s[1] ELSE Text("", s)
Cached(n) ==
    IF n.text # <<>> THEN n
    ELSE [n EXCEPT !.text = <<TextOf(n)>>, !.els = [i \in DOMAIN n.els |-> Cached(n.els[i])]]

\* Tcl_ListObjGetElements: the string is parsed, one level, and stays.
Parses(n) == IF n.list THEN TRUE ELSE n.text[1].word # Broken
Parsed(n) ==
    IF n.list THEN n
    ELSE LET t == n.text[1]
             s == IF t.word = "" THEN t.list ELSE <<t>>
         IN  [n EXCEPT !.list = TRUE, !.els = [i \in DOMAIN s |-> String(s[i])]]
\* Mutant: a changed list keeps the string it had.
KeepsString(n) == n
Invalidated(n) == [n EXCEPT !.text = <<>>]

\* Tcl_ListObjReplace: a start behind the list is brought to its end.
Tcl_ListObjReplace(n, first, ndel, new) ==
    LET at == IF first > Len(n.els) THEN Len(n.els) ELSE first
    IN  ListOf(SubSeq(n.els, 1, at) \o new \o SubSeq(n.els, at + ndel + 1, Len(n.els)))

SvIndexOK(ix) == ix.kind # "bad"
SvGetIntForIndex(ix, endValue) == IF ix.kind = "end" THEN endValue - ix.n ELSE ix.n

\* Sv_GetContainer with FLAGS_CREATEVAR makes an element that holds "".
Node(create) == IF cell = <<>> /\ create THEN String(Empty) ELSE cell[1]
Present == cell # <<>>

\* Sv_PutContainer: what was changed is written to the store as its string.
PutChanged(n) ==
    /\ cell' = <<IF bound THEN Cached(n) ELSE n>>
    /\ kept' = IF bound THEN <<TextOf(n)>> ELSE kept
PutUnchanged(n) == cell' = <<n>> /\ UNCHANGED kept
PutError(n) == PutUnchanged(n) /\ said' = Failure
NoElement == UNCHANGED <<cell, kept>> /\ said' = Failure
\* The bucket's lock is free, and free again afterwards.
Alone == ~held /\ UNCHANGED <<bound, held>>
--------------------------------------------------------------------------------
Init ==
    /\ cell = <<>> /\ kept = <<>> /\ bound \in BOOLEAN /\ held = FALSE
    /\ said = Failure

SvLpop(ix) ==
    LET n == Parsed(Node(FALSE))
        i == SvGetIntForIndex(ix, Len(n.els) - 1)
    IN  /\ Alone
        /\ \/ ~Present /\ NoElement
           \/ Present /\ ~Parses(cell[1]) /\ PutError(cell[1])
           \/ /\ Present /\ Parses(cell[1])
              /\ IF ~SvIndexOK(ix) THEN PutError(n)
                 ELSE IF i < 0 \/ i >= Len(n.els)
                 THEN PutChanged(n) /\ said' = Answer(Empty, 0)
                 ELSE /\ PutChanged(Tcl_ListObjReplace(n, i, 1, <<>>))
                      /\ said' = Answer(TextOf(n.els[i + 1]), 0)

\* lpush element ?index? and linsert index element ?element ...?
SvInsert(ix, new) ==
    LET n == Parsed(Node(TRUE))
        i == SvGetIntForIndex(ix, Len(n.els))
        at == IF i < 0 THEN 0 ELSE IF i > Len(n.els) THEN Len(n.els) ELSE i
    IN  /\ Alone
        /\ IF ~Parses(Node(TRUE)) THEN PutError(Node(TRUE))
           ELSE IF ~SvIndexOK(ix) THEN PutError(n)
           ELSE /\ PutChanged(Tcl_ListObjReplace(n, at, 0, [j \in DOMAIN new |-> String(new[j])]))
                /\ said' = Answer(Empty, 0)
SvLpush(ix, v) == SvInsert(ix, <<v>>)
SvLinsert(ix, new) == SvInsert(ix, new)

SvLappend(new) ==
    LET n == ListOf(Parsed(Node(TRUE)).els \o [j \in DOMAIN new |-> String(new[j])])
    IN  /\ Alone
        /\ IF ~Parses(Node(TRUE)) THEN PutError(Node(TRUE))
           ELSE PutChanged(n) /\ said' = Answer(TextOf(n), 0)

SvLreplace(from, to, new) ==
    LET n == Parsed(Node(FALSE))
        llen == Len(n.els)
        f == SvGetIntForIndex(from, llen - 1)
        l == SvGetIntForIndex(to, llen - 1)
        first == IF f < 0 THEN 0 ELSE f
        last == IF l >= llen THEN llen - 1 ELSE l
        ndel == IF first <= last THEN last - first + 1 ELSE 0
    IN  /\ Alone
        /\ \/ ~Present /\ NoElement
           \/ Present /\ ~Parses(cell[1]) /\ PutError(cell[1])
           \/ /\ Present /\ Parses(cell[1])
              /\ IF \/ ~SvIndexOK(from) \/ ~SvIndexOK(to)
                    \/ llen > 0 /\ first >= llen /\ from.kind # "end"
                 THEN PutError(n)
                 ELSE /\ PutChanged(Tcl_ListObjReplace(n, first, ndel,
                                                       [j \in DOMAIN new |-> String(new[j])]))
                      /\ said' = Answer(Empty, 0)

\* The commands that only look.
Looks(Good(_), Finding(_)) ==
    /\ Alone
    /\ \/ ~Present /\ NoElement
       \/ Present /\ ~Parses(cell[1]) /\ PutError(cell[1])
       \/ /\ Present /\ Parses(cell[1])
          /\ IF Good(Parsed(cell[1]).els)
             THEN PutUnchanged(Parsed(cell[1])) /\ said' = Finding(Parsed(cell[1]).els)
             ELSE PutError(Parsed(cell[1]))

SvLrange(from, to) ==
    LET Good(els) == SvIndexOK(from) /\ SvIndexOK(to)
        Finding(els) ==
          LET f == SvGetIntForIndex(from, Len(els) - 1)
              l == SvGetIntForIndex(to, Len(els) - 1)
              first == IF f < 0 THEN 0 ELSE f
              last == IF l >= Len(els) THEN Len(els) - 1 ELSE l
          IN  Answer(IF first > last THEN Empty
                     ELSE TextOf(ListOf(SubSeq(els, first + 1, last + 1))), 0)
    IN  Looks(Good, Finding)

SvLlength ==
    LET Good(els) == TRUE
        Finding(els) == Answer(Empty, Len(els))
    IN  Looks(Good, Finding)

SvLindex(ix) ==
    LET Good(els) == SvIndexOK(ix)
        Finding(els) ==
          LET i == SvGetIntForIndex(ix, Len(els) - 1)
          IN  Answer(IF i >= 0 /\ i < Len(els) THEN TextOf(els[i + 1]) ELSE Empty, 0)
    IN  Looks(Good, Finding)

\* A regular expression that cannot be compiled is found out at the first element.
SvLsearch(mode, pat) ==
    LET Matches(t) == t = pat \/ (mode = "glob" /\ pat = Any)
        Good(els) == ~(mode = "regexp" /\ pat = Any /\ els # <<>>)
        Finding(els) ==
          LET at == {i \in DOMAIN els : Matches(TextOf(els[i]))}
          IN  Answer(Empty, IF at = {} THEN -1
                            ELSE (CHOOSE i \in at : \A j \in at : i <= j) - 1)
    IN  Looks(Good, Finding)

RECURSIVE SvLsetFlat(_, _, _)
\* Down the sublists, which stay parsed, and up again spoiling the strings of
\* all of them; [node, ok].
SvLsetFlat(n, ixs, v) ==
    LET p == Parsed(n)
        i == SvGetIntForIndex(ixs[1], Len(p.els) - 1)
        down == SvLsetFlat(p.els[i + 1], Tail(ixs), v)
    IN  CASE ~Parses(n) -> [node |-> n, ok |-> FALSE]
          [] Parses(n) /\ (~SvIndexOK(ixs[1]) \/ i < 0 \/ i >= Len(p.els)) ->
                [node |-> p, ok |-> FALSE]
          [] Parses(n) /\ SvIndexOK(ixs[1]) /\ i \in 0 .. Len(p.els) - 1 /\ Len(ixs) = 1 ->
                [node |-> Invalidated([p EXCEPT !.els[i + 1] = String(v)]), ok |-> TRUE]
          [] OTHER ->
                LET q == [p EXCEPT !.els[i + 1] = down.node]
                IN  [node |-> IF down.ok THEN Invalidated(q) ELSE q, ok |-> down.ok]

\* A failure returns without Sv_PutContainer: the bucket stays locked, for every
\* other thread; the model stops there.
SvLset(ixs, v) ==
    LET r == SvLsetFlat(cell[1], ixs, v)
    IN  /\ ~held /\ UNCHANGED bound
        /\ \/ ~Present /\ NoElement /\ UNCHANGED held
           \/ Present /\ r.ok /\ PutChanged(r.node) /\ UNCHANGED held
              /\ said' = Answer(TextOf(r.node), 0)
           \/ Present /\ ~r.ok /\ PutError(r.node) /\ held' = TRUE

SvSet(v) == Alone /\ PutChanged(String(v)) /\ said' = Answer(v, 0)

RECURSIVE Depth(_)
Depth(t) == IF t.list = <<>> THEN 0
            ELSE 1 + (CHOOSE d \in {Depth(t.list[n]) : n \in DOMAIN t.list} :
                        \A n \in DOMAIN t.list : Depth(t.list[n]) <= d)
Bounded == cell' # <<>> => /\ Len(TextOf(cell'[1]).list) <= MaxLen
                           /\ Depth(TextOf(cell'[1])) <= MaxDepth

Command ==
    \/ SvLlength
    \/ \E v \in Values : SvSet(v)
    \/ \E v \in Values : SvLappend(<<v>>) \/ SvLappend(<<v, v>>)
    \/ \E ix \in Indexes : SvLpop(ix) \/ SvLindex(ix)
    \/ \E ix \in Indexes, v \in Values : SvLpush(ix, v) \/ SvLinsert(ix, <<v, v>>)
    \/ \E from, to \in Indexes :
         SvLrange(from, to) \/ \E new \in {<<>>} \cup {<<v>> : v \in Values} :
                                  SvLreplace(from, to, new)
    \/ \E ixs \in Deep, v \in Values : SvLset(ixs, v)
    \/ \E m \in {"exact", "glob", "regexp"}, pat \in Values \cup {Any} : SvLsearch(m, pat)

Next == Command /\ Bounded
Spec == Init /\ [][Next]_vars
--------------------------------------------------------------------------------
(* The commands are Tcl's, whatever was parsed or cached before: strings are   *)
(* never stale, indexes at and beyond the ends mean what they mean in Tcl, and *)
(* the store gets the value the element has.                                   *)
Lists == INSTANCE ListValue WITH
    val <- IF cell = <<>> THEN <<>> ELSE <<TextOf(cell[1])>>
ImplementsLists == Lists!Spec
\* (limit) No command leaves the bucket of the element locked.
BucketReleased == ~held
================================================================================
