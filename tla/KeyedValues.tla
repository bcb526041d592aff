------------------------------ MODULE KeyedValues ------------------------------
(* What a script may rely on when it works with keyed lists: a holder (a     *)
(* variable, or an element of a shared array) has a VALUE of its own.        *)
(* Writing one holder changes no other, and what is read is what was         *)
(* written: sharing, conversions and cached strings cannot be seen.          *)
(* A value is [word, list]: a word that is no list, or a list of key/value   *)
(* pairs with the word "".                                                    *)
EXTENDS Integers, Sequences

CONSTANTS Holders,     \* variables and shared elements
          Words,       \* values that are no lists
          Writes,      \* sequences of <<path, word or holder>> one command may set
          Erasures,    \* sequences of paths one command may remove
          Paths        \* paths a command may ask for

VARIABLES val,         \* [Holders -> value]
          said         \* the answer of the last command: [st, value, keys]
vars == <<val, said>>

EmptyList == [word |-> "", list |-> <<>>]
IsList(t) == t.word = ""
Word(w) == [word |-> w, list |-> <<>>]

Places(t, k) == {i \in DOMAIN t.list : t.list[i][1] = k}
Has(t, k) == Places(t, k) # {}
First(t, k) == CHOOSE i \in Places(t, k) : \A j \in Places(t, k) : i <= j
Sub(t, k) == IF Has(t, k) THEN t.list[First(t, k)][2] ELSE EmptyList

WithEntry(t, k, v) ==
    [t EXCEPT !.list = IF Has(t, k) THEN [@ EXCEPT ![First(t, k)] = <<k, v>>]
                                    ELSE Append(@, <<k, v>>)]
WithoutEntry(t, k) ==
    [t EXCEPT !.list = SubSeq(@, 1, First(t, k) - 1) \o SubSeq(@, First(t, k) + 1, Len(@))]

RECURSIVE CanPut(_, _), Put(_, _, _), Known(_, _), Broken(_, _), At(_, _), Drop(_, _)

\* A path can be written unless a word stands where a list is needed; the empty
\* name is no key.
CanPut(t, p) ==
    IsList(t) /\ p[1] # "" /\ (Len(p) = 1 \/ CanPut(Sub(t, p[1]), Tail(p)))
Put(t, p, v) ==
    WithEntry(t, p[1], IF Len(p) = 1 THEN v ELSE Put(Sub(t, p[1]), Tail(p), v))

\* Looking a path up: it is known, broken by a word, or (neither) absent.
Known(t, p) ==
    p = <<>> \/ (IsList(t) /\ Has(t, p[1]) /\ Known(Sub(t, p[1]), Tail(p)))
Broken(t, p) ==
    p # <<>> /\ (~IsList(t) \/ (Has(t, p[1]) /\ Broken(Sub(t, p[1]), Tail(p))))
At(t, p) == IF p = <<>> THEN t ELSE At(Sub(t, p[1]), Tail(p))

\* Removing a path removes the lists it leaves empty.
Drop(t, p) ==
    IF Len(p) = 1 THEN WithoutEntry(t, p[1])
    ELSE LET rest == Drop(Sub(t, p[1]), Tail(p))
         IN  IF rest = EmptyList THEN WithoutEntry(t, p[1]) ELSE WithEntry(t, p[1], rest)

RECURSIVE PutAll(_, _), DropAll(_, _)
PutAll(t, ps) == IF ps = <<>> THEN t ELSE PutAll(Put(t, ps[1][1], ps[1][2]), Tail(ps))
DropAll(t, ps) == IF ps = <<>> THEN t ELSE DropAll(Drop(t, ps[1]), Tail(ps))
Before(ps, n) == SubSeq(ps, 1, n - 1)
--------------------------------------------------------------------------------
Answer(st) == [st |-> st, value |-> EmptyList, keys |-> <<>>]
Meant(ps) == [n \in DOMAIN ps |-> <<ps[n][1], IF ps[n][2] \in Holders THEN val[ps[n][2]]
                                              ELSE Word(ps[n][2])>>]

Init == val = [x \in Holders |-> EmptyList] /\ said = Answer("none")

Write(x, ps) ==
    /\ \A n \in DOMAIN ps : CanPut(PutAll(val[x], Before(ps, n)), ps[n][1])
    /\ val' = [val EXCEPT ![x] = PutAll(@, ps)]
    /\ said' = Answer("ok")

\* A command that fails at its n-th pair may or may not keep the pairs before.
WriteFails(x, ps) ==
    \E n \in DOMAIN ps :
      /\ \A m \in 1 .. n - 1 : CanPut(PutAll(val[x], Before(ps, m)), ps[m][1])
      /\ ~CanPut(PutAll(val[x], Before(ps, n)), ps[n][1])
      /\ \/ UNCHANGED val
         \/ val' = [val EXCEPT ![x] = PutAll(@, Before(ps, n))]
      /\ said' = Answer("error")

\* Keys are removed one by one, up to the first that is not there.
Erase(x, ps) ==
    \E n \in 1 .. Len(ps) + 1 :
      /\ \A m \in 1 .. n - 1 : Known(DropAll(val[x], Before(ps, m)), ps[m])
      /\ n <= Len(ps) => ~Known(DropAll(val[x], Before(ps, n)), ps[n])
      /\ val' = [val EXCEPT ![x] = DropAll(@, Before(ps, n))]
      /\ said' = Answer(IF n <= Len(ps) THEN "error" ELSE "ok")

Ask(x, p) ==
    /\ UNCHANGED val
    /\ said' = IF Known(val[x], p) THEN [Answer("ok") EXCEPT !.value = At(val[x], p)]
               ELSE Answer("error")

\* The value under a path becomes the value of another holder.
Fetch(x, p, y) ==
    /\ val' = IF Known(val[x], p) THEN [val EXCEPT ![y] = At(val[x], p)] ELSE val
    /\ said' = Answer(IF Known(val[x], p) THEN "ok"
                      ELSE IF Broken(val[x], p) \/ p = <<"">> THEN "error" ELSE "absent")

AskKeys(x, p) ==
    /\ UNCHANGED val
    /\ said' = IF Known(val[x], p) /\ IsList(At(val[x], p))
               THEN LET t == At(val[x], p).list
                    IN  [Answer("ok") EXCEPT !.keys = [i \in DOMAIN t |-> t[i][1]]]
               ELSE Answer("error")

Next ==
    \E x \in Holders :
      \/ \E ps \in Writes : Write(x, Meant(ps)) \/ WriteFails(x, Meant(ps))
      \/ \E ps \in Erasures : Erase(x, ps)
      \/ \E p \in Paths : Ask(x, p) \/ AskKeys(x, p)
      \/ \E p \in Paths, y \in Holders : Fetch(x, p, y)

Step == [Next]_vars
Spec == Init /\ [][Next]_vars
================================================================================
