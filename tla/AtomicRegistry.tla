--------------------------- MODULE AtomicRegistry ---------------------------
(***************************************************************************)
(* What the registry promises the processes that share it: whoever looks   *)
(* at it in a transaction sees one state of it until the transaction ends, *)
(* and what a transaction has done appears as a whole, made from the state *)
(* that is there.                                                          *)
(***************************************************************************)
CONSTANTS
    Procs,   \* the processes
    Nothing  \* what a process sees that has not looked

VARIABLES
    db,      \* the registry
    seen     \* process -> the state its transaction works on, or Nothing

Init == seen = [p \in Procs |-> Nothing]

Look(p) ==
    /\ seen[p] = Nothing
    /\ seen' = [seen EXCEPT ![p] = db]
    /\ UNCHANGED db

Forget(p) ==
    /\ seen' = [seen EXCEPT ![p] = Nothing]
    /\ UNCHANGED db

\* A statement of its own, when the process had not looked.
Publish(p) ==
    /\ seen[p] \in {Nothing, db}
    /\ db' # db
    /\ seen' = [seen EXCEPT ![p] = Nothing]

Next == \E p \in Procs : Look(p) \/ Forget(p) \/ Publish(p)

Spec == Init /\ [][Next]_<<db, seen>>
=============================================================================
