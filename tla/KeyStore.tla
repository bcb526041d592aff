------------------------------ MODULE KeyStore ------------------------------
(***************************************************************************)
(* What a file map promises those who have it open: a map from paths to    *)
(* values in which no path is a directory of another one, kept in a file   *)
(* that nobody changes while somebody has it open for writing, that a save *)
(* or a close replaces as a whole, and of which nothing is lost unless an  *)
(* error says so.                                                          *)
(***************************************************************************)
EXTENDS Sequences, Functions

CONSTANTS
    Handles,  \* maps that may be open
    Keys, Values,
    NotOpen    \* the content of a map that is not open

VARIABLES
    stored,   \* what the file holds
    copy,     \* handle -> what it holds, or NotOpen
    mode,     \* handle -> "r", "w" or "ram"
    answer    \* of the last call

Shared == {h \in Handles : copy[h] # NotOpen /\ mode[h] # "ram"}

Init ==
    /\ stored = <<>> /\ answer = <<>>
    /\ copy = [h \in Handles |-> NotOpen] /\ mode = [h \in Handles |-> "ram"]

Open(h, m) ==
    /\ m = "r" => \A g \in Shared \ {h} : mode[g] = "r"
    /\ m = "w" => Shared \subseteq {h}
    /\ copy' = [copy EXCEPT ![h] = IF m = "ram" THEN <<>> ELSE stored]
    /\ mode' = [mode EXCEPT ![h] = m]
    /\ answer' = <<"open", "ok">>
    /\ UNCHANGED stored
Close(h) ==
    /\ copy' = [copy EXCEPT ![h] = NotOpen]
    /\ \/ /\ answer' = <<"close", "ok">>
          /\ stored' = IF mode[h] = "w" THEN copy[h] ELSE stored
       \/ answer' = <<"close", "error">> /\ UNCHANGED stored
    /\ mode' = [mode EXCEPT ![h] = "ram"]
Save(h) ==
    /\ \/ /\ answer' = <<"save", "ok">> /\ mode[h] # "ram"
          /\ stored' = IF mode[h] = "w" THEN copy[h] ELSE stored
       \/ answer' = <<"save", "error">> /\ UNCHANGED stored
    /\ UNCHANGED <<copy, mode>>
Revert(h) ==
    /\ mode[h] # "ram"
    /\ copy' = [copy EXCEPT ![h] = stored] /\ answer' = <<"revert", "ok">>
    /\ UNCHANGED <<stored, mode>>

Within(k, l) == Len(k) < Len(l) /\ SubSeq(l, 1, Len(k)) = k
\* A slash at the end of a path says that it is a directory.
Clash(m, k) == k[Len(k)] = <<>> \/ \E l \in DOMAIN m : Within(k, l) \/ Within(l, k)

Put(h, k, v) ==
    /\ answer' = <<"set", k, IF mode[h] = "r" \/ Clash(copy[h], k) THEN "error" ELSE "ok">>
    /\ copy' = IF answer'[3] = "error" THEN copy
               ELSE [copy EXCEPT ![h] = [l \in DOMAIN @ \cup {k} |-> IF l = k THEN v ELSE @[l]]]
    /\ UNCHANGED <<stored, mode>>
Drop(h, k) ==
    /\ answer' = <<"unset", k, IF mode[h] # "r" /\ k \in DOMAIN copy[h] THEN "ok" ELSE "error">>
    /\ copy' = IF answer'[3] = "error" THEN copy
               ELSE [copy EXCEPT ![h] = Restrict(@, DOMAIN @ \ {k})]
    /\ UNCHANGED <<stored, mode>>
Get(h, k) ==
    /\ answer' = <<"get", k, IF k \in DOMAIN copy[h] THEN copy[h][k] ELSE "absent">>
    /\ UNCHANGED <<stored, copy, mode>>
List(h, v) ==
    /\ answer' = <<"list", v, {k \in DOMAIN copy[h] : copy[h][k] = v}>>
    /\ UNCHANGED <<stored, copy, mode>>

\* Its process has died.
Die ==
    /\ \E dead \in SUBSET Handles :
        /\ copy' = [h \in Handles |-> IF h \in dead THEN NotOpen ELSE copy[h]]
        /\ mode' = [h \in Handles |-> IF h \in dead THEN "ram" ELSE mode[h]]
    /\ UNCHANGED <<stored, answer>>

Use(h) ==
    \/ Close(h) \/ Save(h) \/ Revert(h)
    \/ \E k \in Keys : (\E v \in Values : Put(h, k, v)) \/ Drop(h, k) \/ Get(h, k)
    \/ \E v \in Values : List(h, v)
Next ==
    \/ \E h \in Handles : \/ \E m \in {"r", "w", "ram"} : Open(h, m)
                          \/ copy[h] # NotOpen /\ Use(h)
    \/ Die

Step == [Next]_<<stored, copy, mode, answer>>
Spec == Init /\ [][Next]_<<stored, copy, mode, answer>>
=============================================================================
