----------------------------- MODULE VersionCompare -----------------------------
(* vercmp, the order of versions that upgrades, dependencies and the           *)
(* registry's indexes rest on.  It exists twice: for Tcl, on strings that end  *)
(* with a NUL (pextlib1.0/vercomp.c), and for SQLite's collations, on a        *)
(* pointer and a length (cregistry/vercomp.c).  One action is one turn of its  *)
(* outer loop.                                                                 *)
EXTENDS Integers, Sequences, SequencesExt

CONSTANTS Versions,    \* versions that are compared: sequences of characters
          Digits,      \* characters isdigit() accepts, among 48..57
          Letters,     \* characters isalpha() accepts
          Copies       \* the copies of vercmp: "pextlib", "cregistry"

VARIABLES copy,                 \* which copy runs
          versionA, versionB,   \* its arguments
          ptrA, ptrB,           \* the characters it is at
          order                 \* <<>> while it runs, then <<sign of its result>>
vars == <<copy, versionA, versionB, ptrA, ptrB, order>>

Class(v, p) == CASE p > Len(v)        -> "end"
                 [] p <= Len(v) /\ v[p] \in Digits  -> "digit"
                 [] p <= Len(v) /\ v[p] \in Letters -> "letter"
                 [] OTHER             -> "separator"
AtEnd(v, p) == p > Len(v)

\* The first position from p on whose character is not in C.
After(v, p, C(_)) ==
    CHOOSE q \in p .. Len(v) + 1 : (AtEnd(v, q) \/ ~C(q)) /\ \A r \in p .. q - 1 : C(r)

\* Where the segments of this turn start, and where they end: letters if A's
\* segment is one of letters, digits otherwise.
SegA == After(versionA, ptrA, LAMBDA q : Class(versionA, q) = "separator")
SegB == After(versionB, ptrB, LAMBDA q : Class(versionB, q) = "separator")
KindA == Class(versionA, SegA)
KindB == Class(versionB, SegB)
EndOf(v, p) ==
    LET kind == IF KindA = "letter" THEN "letter" ELSE "digit"
    IN  After(v, p, LAMBDA q : Class(v, q) = kind)

\* Defect: numbers compared like words, leading zeroes and all.
KeepZeroes(v, p, e) == SubSeq(v, p, e - 1)

\* Leading zeroes of a segment of digits do not count.
Significant(v, p, e) ==
    IF KindA = "letter" THEN SubSeq(v, p, e - 1)
    ELSE SubSeq(v, After(v, p, LAMBDA q : q < e /\ v[q] = 48), e - 1)

\* The first characters that differ decide; a common beginning decides nothing.
Differ(s, t) == {i \in DOMAIN s \cap DOMAIN t : s[i] # t[i]}
FirstDifference(s, t) ==
    LET i == CHOOSE i \in Differ(s, t) : \A j \in Differ(s, t) : i <= j
    IN  IF s[i] > t[i] THEN 1 ELSE -1

Return(o) == order' = <<o>> /\ UNCHANGED <<ptrA, ptrB>>
Running == order = <<>> /\ UNCHANGED <<copy, versionA, versionB>>
Turn == Running /\ versionA # versionB /\ ~AtEnd(versionA, ptrA) /\ ~AtEnd(versionB, ptrB)
\* The copy in cregistry compares A's pointer with B's end and looks at the
\* character after the last one: past a trailing separator it reads memory that
\* is not the version's.
Outside == copy = "cregistry" /\ (AtEnd(versionA, SegA) \/ AtEnd(versionB, SegB))
--------------------------------------------------------------------------------
Init ==
    /\ copy \in Copies /\ versionA \in Versions /\ versionB \in Versions
    /\ ptrA = 1 /\ ptrB = 1 /\ order = <<>>

Identical == Running /\ versionA = versionB /\ Return(0)

\* Digits are newer than letters, and than nothing; letters are older than digits.
KindsDiffer ==
    /\ Turn /\ ~Outside
    /\ \/ KindA = "digit" /\ KindB # "digit" /\ Return(1)
       \/ KindA = "letter" /\ KindB = "digit" /\ Return(-1)

\* The longer number is greater; numbers of one length and words are compared
\* character by character.
SameKind ==
    /\ Turn /\ ~Outside
    /\ ~(KindA = "digit" /\ KindB # "digit") /\ ~(KindA = "letter" /\ KindB = "digit")
    /\ LET a == Significant(versionA, SegA, EndOf(versionA, SegA))
           b == Significant(versionB, SegB, EndOf(versionB, SegB))
       IN  IF KindA # "letter" /\ Len(a) # Len(b) THEN Return(IF Len(a) > Len(b) THEN 1 ELSE -1)
           ELSE IF Differ(a, b) # {} THEN Return(FirstDifference(a, b))
           ELSE /\ ptrA' = EndOf(versionA, SegA) /\ ptrB' = EndOf(versionB, SegB)
                /\ UNCHANGED order

ReadsOutside == Turn /\ Outside /\ \E o \in {-1, 0, 1} : Return(o)

\* One version is used up: the one that has characters left is newer.
Exhausted ==
    /\ Running /\ versionA # versionB
    /\ AtEnd(versionA, ptrA) \/ AtEnd(versionB, ptrB)
    /\ Return(IF ~AtEnd(versionA, ptrA) THEN 1 ELSE IF ~AtEnd(versionB, ptrB) THEN -1 ELSE 0)

Returned == order # <<>> /\ UNCHANGED vars

Next == Identical \/ KindsDiffer \/ SameKind \/ ReadsOutside \/ Exhausted \/ Returned
Spec == Init /\ [][Next]_vars
--------------------------------------------------------------------------------
(* The order that is meant: a version is its segments, numbers by value and    *)
(* words by the alphabet; a number is newer than a word, more segments newer   *)
(* than fewer.                                                                 *)
SegmentStarts(v) == {p \in DOMAIN v : Class(v, p) # "separator"
                                   /\ (p = 1 \/ Class(v, p - 1) # Class(v, p))}
Segments(v) ==
    LET starts == SetToSortSeq(SegmentStarts(v), <)
        kind(i) == Class(v, starts[i])
        text(i) == SubSeq(v, starts[i],
                          After(v, starts[i], LAMBDA q : Class(v, q) = kind(i)) - 1)
    IN  [i \in DOMAIN starts |->
           IF kind(i) = "letter" THEN <<"word">> \o text(i)
           ELSE <<"number", FoldLeft(LAMBDA n, c : 10 * n + c - 48, 0, text(i))>>]
Above(s, t) ==
    \/ s[1] = "number" /\ t[1] = "word"
    \/ /\ s[1] = t[1]
       /\ \E i \in 2 .. Len(s) : /\ \A j \in 2 .. i - 1 : j <= Len(t) /\ s[j] = t[j]
                                 /\ i > Len(t) \/ s[i] > t[i]
Newer(v, w) ==
    LET s == Segments(v)  t == Segments(w)
    IN  \E i \in DOMAIN s : /\ \A j \in 1 .. i - 1 : j <= Len(t) /\ s[j] = t[j]
                            /\ i > Len(t) \/ Above(s[i], t[i])

EndsWithSeparator(v) == Len(v) > 0 /\ Class(v, Len(v)) = "separator"

\* "If A is newer than B, return an integer > 0; if A and B are equal, return 0;
\* if B is newer than A, return an integer < 0" (vercomp.c): of versions that do
\* not end with a separator both copies return what the order says, so the
\* result is antisymmetric and transitive, as the registry's indexes need, and
\* Tcl and the registry agree.
ReturnsOrder ==
    order # <<>> /\ ~EndsWithSeparator(versionA) /\ ~EndsWithSeparator(versionB) =>
      order[1] = IF Newer(versionA, versionB) THEN 1
                 ELSE IF Newer(versionB, versionA) THEN -1 ELSE 0
================================================================================
