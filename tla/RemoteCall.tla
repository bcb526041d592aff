----------------------------- MODULE RemoteCall -----------------------------
(***************************************************************************)
(* What thread::send promises the thread that waits for its answer: the    *)
(* script is run at most once; an answer of the script itself comes only   *)
(* after it has run; and when the target ends first the caller is told so, *)
(* and the script does not run any more.                                   *)
(***************************************************************************)
CONSTANT Callers

VARIABLE call   \* caller -> state of the call it waits for

States == {"none", "asked", "running", "answered", "lost", "died"}

Init == call = [c \in Callers |-> "none"]

Ways == {<<"none", "asked">>, <<"asked", "running">>, <<"running", "answered">>,
         <<"answered", "none">>,
         \* the target ends, also when it has answered but not been heard
         <<"asked", "lost">>, <<"running", "lost">>, <<"lost", "died">>,
         <<"asked", "died">>, <<"running", "died">>,
         <<"answered", "died">>, <<"died", "none">>}

\* One step of the target may end the calls of several callers.
Next ==
    /\ DOMAIN call' = Callers
    /\ \A c \in Callers : call'[c] = call[c] \/ <<call[c], call'[c]>> \in Ways

Step == [Next]_call
Spec == Init /\ [][Next]_call
=============================================================================
