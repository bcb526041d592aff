------------------------------ MODULE JobQueue ------------------------------
(***************************************************************************)
(* What a thread pool promises of the jobs posted to it, numbered in the   *)
(* order they came in: each is run at most once, the oldest first, and is  *)
(* done or waited for until somebody gets it, cancels it while it is still *)
(* queued, or the pool goes.                                               *)
(***************************************************************************)
EXTENDS Naturals

CONSTANT Jobs   \* 1 .. how many there may be

VARIABLE job    \* job -> how far it is

States == {"none", "queued", "running", "done", "gone"}

Init == job = [j \in Jobs |-> "none"]

Becomes(j, from, to) == job[j] = from /\ job' = [job EXCEPT ![j] = to]

Post(j) == (\A i \in Jobs : i < j => job[i] # "none") /\ Becomes(j, "none", "queued")
Run(j) == (\A i \in Jobs : i < j => job[i] # "queued") /\ Becomes(j, "queued", "running")
Finish(j) == Becomes(j, "running", "done")
Forget(j) == \E s \in {"queued", "running", "done"} : Becomes(j, s, "gone")

\* A worker that is done with one job takes the next at once; a pool goes with
\* all it has.
FinishAndRun(i, j) ==
    /\ job[i] = "running" /\ job[j] = "queued"
    /\ \A k \in Jobs : k < j => job[k] # "queued"
    /\ \E s \in {"done", "gone"} : job' = [job EXCEPT ![i] = s, ![j] = "running"]
Close == job' = [j \in Jobs |-> IF job[j] = "none" THEN "none" ELSE "gone"]

Next == \/ \E j \in Jobs : Post(j) \/ Run(j) \/ Finish(j) \/ Forget(j)
        \/ \E i, j \in Jobs : FinishAndRun(i, j)
        \/ Close

Step == [Next]_job
Spec == Init /\ [][Next]_job
=============================================================================
