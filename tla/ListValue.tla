------------------------------- MODULE ListValue -------------------------------
(* What the list commands on a shared element promise: those of Tcl's own     *)
(* list commands, on a VALUE.  A value is [word, list]: a word, which is also  *)
(* the list of itself, a broken word, which is no list, or, with the word "",  *)
(* a list of values.                                                           *)
EXTENDS Integers, Sequences

CONSTANTS Broken,      \* the word that is no list
          Any,         \* the pattern every value matches
          Indexes,     \* [kind, n]: "int" n, "end" n (n before the end), "bad"
          Deep,        \* sequences of indexes into lists of lists
          Values       \* values a command is given

VARIABLES val,         \* <<>> while there is no element, else <<its value>>
          kept,        \* what the store the array may be bound to holds
          said         \* the answer of the last command: [st, value, num]
vars == <<val, kept, said>>

Text(w, l) == [word |-> w, list |-> l]
Empty == Text("", <<>>)
IsList(t) == t.word # Broken
Items(t) == IF t.word = "" THEN t.list ELSE <<t>>
\* The one-element list of a word is that word.
OfItems(s) == IF Len(s) = 1 /\ s[1].word \notin {"", Broken} THEN s[1] ELSE Text("", s)
\* The position (from 0) an index names in a list whose last position is last.
Position(ix, last) == IF ix.kind = "int" THEN ix.n ELSE last - ix.n
Within(lo, hi, i) == IF i < lo THEN lo ELSE IF i > hi THEN hi ELSE i
Splice(s, at, n, new) == SubSeq(s, 1, at) \o new \o SubSeq(s, at + n + 1, Len(s))

Answer(t, n) == [st |-> "ok", value |-> t, num |-> n]
Failure == [st |-> "error", value |-> Empty, num |-> 0]
Cur == IF val = <<>> THEN Empty ELSE val[1]
Here == Items(Cur)
Usable == val # <<>> /\ IsList(Cur)
Creatable == IsList(Cur)

Stores == kept' \in {kept, val'}
Becomes(s) == val' = <<OfItems(s)>> /\ Stores
Keeps == UNCHANGED <<val, kept>>
\* A command that creates the element leaves it, empty, when it fails.
Fails == said' = Failure /\ Keeps
CreatesAndFails == said' = Failure /\ val' = <<Cur>> /\ UNCHANGED kept
--------------------------------------------------------------------------------
Init == val = <<>> /\ kept = <<>> /\ said = Failure

Pop(ix) ==
    LET i == Position(ix, Len(Here) - 1)
    IN  IF ~Usable \/ ix.kind = "bad" THEN Fails
        ELSE IF i \in 0 .. Len(Here) - 1
        THEN Becomes(Splice(Here, i, 1, <<>>)) /\ said' = Answer(Here[i + 1], 0)
        ELSE UNCHANGED val /\ Stores /\ said' = Answer(Empty, 0)

\* lpush and linsert: before a position, which is brought into the list.
Insert(ix, new) ==
    IF ~Creatable \/ ix.kind = "bad" THEN CreatesAndFails
    ELSE /\ Becomes(Splice(Here, Within(0, Len(Here), Position(ix, Len(Here))), 0, new))
         /\ said' = Answer(Empty, 0)

Append2(new) ==
    IF ~Creatable THEN CreatesAndFails
    ELSE Becomes(Here \o new) /\ said' = Answer(OfItems(Here \o new), 0)

\* The elements from one position to another give way to others; there must be
\* an element at the first, unless the list is empty.
Replace(from, to, new) ==
    LET n == Len(Here)
        first == Within(0, n, Position(from, n - 1))
        last == Within(-1, n - 1, Position(to, n - 1))
    IN  IF ~Usable \/ "bad" \in {from.kind, to.kind} \/ (n > 0 /\ first = n)
        THEN Fails
        ELSE /\ Becomes(Splice(Here, first, IF first <= last THEN last - first + 1 ELSE 0, new))
             /\ said' = Answer(Empty, 0)

RECURSIVE CanSet(_, _), Set(_, _, _)
CanSet(t, ixs) ==
    LET i == Position(ixs[1], Len(Items(t)) - 1)
    IN  /\ IsList(t) /\ ixs[1].kind # "bad" /\ i \in 0 .. Len(Items(t)) - 1
        /\ Len(ixs) > 1 => CanSet(Items(t)[i + 1], Tail(ixs))
Set(t, ixs, v) ==
    LET i == Position(ixs[1], Len(Items(t)) - 1)
    IN  OfItems([Items(t) EXCEPT ![i + 1] = IF Len(ixs) = 1 THEN v ELSE Set(@, Tail(ixs), v)])

SetAt(ixs, v) ==
    IF val = <<>> \/ ~CanSet(Cur, ixs) THEN Fails
    ELSE val' = <<Set(Cur, ixs, v)>> /\ Stores /\ said' = Answer(val'[1], 0)

Range(from, to) ==
    LET n == Len(Here)
    IN  /\ Keeps
        /\ said' = IF ~Usable \/ "bad" \in {from.kind, to.kind} THEN Failure
                   ELSE Answer(OfItems(SubSeq(Here, 1 + Within(0, n, Position(from, n - 1)),
                                                    1 + Within(-1, n - 1, Position(to, n - 1)))), 0)

Length == Keeps /\ said' = IF Usable THEN Answer(Empty, Len(Here)) ELSE Failure

Item(ix) ==
    LET i == Position(ix, Len(Here) - 1)
    IN  /\ Keeps
        /\ said' = IF ~Usable \/ ix.kind = "bad" THEN Failure
                   ELSE Answer(IF i \in 0 .. Len(Here) - 1 THEN Here[i + 1] ELSE Empty, 0)

\* The first element that matches, or -1; Any is no regular expression.
Search(mode, pat) ==
    LET at == {i \in 1 .. Len(Here) : Here[i] = pat \/ (pat = Any /\ mode = "glob")}
    IN  /\ Keeps
        /\ said' = IF ~Usable \/ (mode = "regexp" /\ pat = Any /\ Here # <<>>) THEN Failure
                   ELSE Answer(Empty, IF at = {} THEN -1
                                      ELSE (CHOOSE i \in at : \A j \in at : i <= j) - 1)

SetValue(v) == val' = <<v>> /\ Stores /\ said' = Answer(v, 0)

Next ==
    \/ Length
    \/ \E v \in Values : Append2(<<v>>) \/ Append2(<<v, v>>) \/ SetValue(v)
    \/ \E ix \in Indexes :
         \/ Pop(ix) \/ Item(ix)
         \/ \E v \in Values : Insert(ix, <<v>>) \/ Insert(ix, <<v, v>>)
    \/ \E from, to \in Indexes :
         Range(from, to) \/ \E new \in {<<>>} \cup {<<v>> : v \in Values} : Replace(from, to, new)
    \/ \E ixs \in Deep, v \in Values : SetAt(ixs, v)
    \/ \E m \in {"exact", "glob", "regexp"}, pat \in Values \cup {Any} : Search(m, pat)

Step == [Next]_vars
Spec == Init /\ [][Next]_vars
================================================================================
