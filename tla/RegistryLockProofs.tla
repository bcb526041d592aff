------------------------- MODULE RegistryLockProofs -------------------------
(***************************************************************************)
(* Proofs about RegistryLock, for any processes and any commands.          *)
(*                                                                         *)
(* The count nlocked may be larger than the number of open scopes (they    *)
(* leak, see Break and ExecFail) but never smaller, which is what keeps an *)
(* unlock from giving up the lock under an outer scope. While flock itself *)
(* does not fail, a process that may write and is inside the lock is its   *)
(* holder, and so alone. Where what a prompted process is told to do is in *)
(* order no scope leaks, and it holds nothing at its prompt.               *)
(***************************************************************************)
EXTENDS RegistryLock, FiniteSetTheorems, TLAPS

\* The part of the state a process's count depends on.
Local(p) == <<pc[p], locked[p], execs[p], left[p], nlocked[p]>>

\* Every scope that process_cmd or mportexec will close has been counted.
Counted(p) ==
    /\ execs[p] <= nlocked[p]
    /\ locked[p] => execs[p] < nlocked[p]
    /\ pc[p] \notin {"run", "trying", "waiting"} => execs[p] = 0
    /\ pc[p] \in {"trying", "waiting"} => nlocked[p] = 1
    /\ pc[p] \in {"off", "prompt", "ended"} => ~locked[p]

CountInv == TypeOK /\ \A p \in Procs : Counted(p)

HolderInv == \A p \in Writers : Inside(p) => holder = p

\* The command a process is in.
WordOf(p) == pc[p] \in {"find", "run", "trying", "waiting"} =>
    /\ word[p] \in Words
    /\ locked[p] <=> word[p] \in Lockable
    /\ pc[p] = "run" \/ execs[p] > 0 => Guess[word[p]] # {}

WordInv == \A p \in Procs : WordOf(p)

\* What a process has read, it read inside a scope that is still open.
BasedOf(p) == based[p] # "nothing" =>
    /\ based[p] = "current" /\ pc[p] = "run" /\ p \in Writers
    /\ locked[p] \/ execs[p] > 0

BasedInv == \A p \in Procs : BasedOf(p)

\* Every word that stands for an action that changes the registry is one
\* that lock_reg_if_needed knows.
SpelledOut == \A w \in Words : Guess[w] \cap Changing # {} => w \in Lockable


\* The lock of the operating system is held exactly as long as scopes are open.
PromptOf(p) ==
    /\ pc[p] \in {"trying", "waiting"} =>
        /\ holder # p /\ lockfd[p]
        /\ locked[p] => execs[p] = 0
        /\ ~locked[p] => execs[p] = 1
    /\ holder = p =>
        /\ pc[p] \in {"find", "run"} /\ lockfd[p] /\ nlocked[p] > 0
        /\ locked[p] => nlocked[p] = execs[p] + 1
        /\ ~locked[p] => nlocked[p] = execs[p]

Aside(p) == pc[p] \in {"off", "prompt"} => holder # p

PromptInv == (\A p \in Procs : Aside(p)) /\ \A p \in Prompted : PromptOf(p)

\* What a user types at a prompt parses, and names one action if the lock is
\* taken for it; the dependencies of what the user works on are resolved.
Orderly ==
    /\ Prompted \cap Erring = {}
    /\ \A w \in Words \cap Lockable : Cardinality(Guess[w]) = 1

-----------------------------------------------------------------------------
\* A step of one process that keeps its own count keeps the invariant.
LEMMA OthersCounted ==
    ASSUME CountInv, TypeOK', NEW p \in Procs, Counted(p)',
           \A q \in Procs \ {p} : Local(q)' = Local(q)
    PROVE  CountInv'
<1> SUFFICES ASSUME NEW q \in Procs \ {p} PROVE Counted(q)'
    BY DEF CountInv
<1> /\ pc'[q] = pc[q] /\ locked'[q] = locked[q] /\ execs'[q] = execs[q]
    /\ nlocked'[q] = nlocked[q]
    BY DEF Local
<1> QED BY DEF CountInv, Counted

LEMMA EnterType ==
    ASSUME TypeOK, NEW p \in Procs, NEW e \in Nat, Enter(p, e)
    PROVE  /\ pc' \in [Procs -> {"off", "prompt", "trying", "waiting", "find",
                                 "run", "ended"}]
           /\ execs' \in [Procs -> Nat] /\ nlocked' \in [Procs -> Nat]
           /\ lockfd' \in [Procs -> BOOLEAN] /\ holder' = holder
           /\ \A q \in Procs \ {p} : /\ pc'[q] = pc[q] /\ execs'[q] = execs[q]
                                     /\ nlocked'[q] = nlocked[q]
<1>1. pc' = [pc EXCEPT ![p] = "trying"] \/ pc' = [pc EXCEPT ![p] = Resume(e)]
    BY DEF Enter
<1>2. lockfd' = [lockfd EXCEPT ![p] = TRUE] \/ lockfd' = lockfd
    BY DEF Enter
<1>3. nlocked' = [nlocked EXCEPT ![p] = nlocked[p] + 1]
    BY DEF Enter
<1>4. execs' = [execs EXCEPT ![p] = e] /\ holder' = holder
    BY DEF Enter
<1>5. nlocked[p] \in Nat
    BY DEF TypeOK
<1>6. nlocked[p] + 1 \in Nat
    BY <1>5
<1> QED BY <1>1, <1>2, <1>3, <1>4, <1>6 DEF TypeOK, Resume

LEMMA NextCount ==
    ASSUME CountInv, [Next]_vars
    PROVE  CountInv'
<1>1. CASE UNCHANGED vars
    BY <1>1 DEF vars, CountInv, TypeOK, Counted
<1>2. ASSUME NEW p \in Procs, Exit(p) PROVE CountInv'
    <2>1. /\ TypeOK /\ Counted(p)
          /\ execs[p] \in Nat /\ left[p] \in Nat /\ nlocked[p] \in Nat
        BY DEF CountInv, TypeOK
    <2>2. /\ pc'[p] = "off" /\ execs'[p] = 0 /\ nlocked'[p] = 0
          /\ locked'[p] = FALSE
        BY <1>2, <2>1 DEF Exit, TypeOK
    <2>3. Counted(p)'
        BY <1>2, <2>1, <2>2 DEF Counted
    <2>4. TypeOK'
        BY <1>2, <2>1 DEF Exit, TypeOK
    <2>5. \A q \in Procs \ {p} : Local(q)' = Local(q)
        BY <1>2, <2>1 DEF Exit, TypeOK, Local
    <2> QED BY <2>3, <2>4, <2>5, OthersCounted
<1>3. ASSUME NEW p \in Procs, Start(p) PROVE CountInv'
    <2>1. /\ TypeOK /\ Counted(p)
          /\ execs[p] \in Nat /\ left[p] \in Nat /\ nlocked[p] \in Nat
        BY DEF CountInv, TypeOK
    <2>2. /\ pc[p] = "off" /\ pc'[p] = "prompt"
          /\ execs'[p] = execs[p] /\ nlocked'[p] = nlocked[p] /\ locked'[p] =
             locked[p]
        BY <1>3, <2>1 DEF Start, TypeOK
    <2>3. Counted(p)'
        BY <1>3, <2>1, <2>2 DEF Counted
    <2>4. TypeOK'
        BY <1>3, <2>1 DEF Start, TypeOK
    <2>5. \A q \in Procs \ {p} : Local(q)' = Local(q)
        BY <1>3, <2>1 DEF Start, TypeOK, Local
    <2> QED BY <2>3, <2>4, <2>5, OthersCounted
<1>4. ASSUME NEW p \in Procs, NEW w \in Words, Type(p, w) PROVE CountInv'
    <2>1. CASE w \in Lockable
        <3>1. /\ TypeOK /\ Counted(p)
              /\ execs[p] \in Nat /\ left[p] \in Nat /\ nlocked[p] \in Nat
            BY DEF CountInv, TypeOK
        <3>2. /\ pc[p] = "prompt" /\ execs'[p] = 0
              /\ nlocked'[p] = nlocked[p] + 1
              /\ pc'[p] = "find" \/ (pc'[p] = "trying" /\ nlocked[p] = 0)
            BY <1>4, <2>1, <3>1 DEF Type, Enter, Resume, TypeOK
        <3>3. Counted(p)'
            BY <1>4, <2>1, <3>1, <3>2 DEF Counted
        <3>4. nlocked[p] + 1 \in Nat /\ MaxExecs \in Nat
            BY <1>4, <2>1, <3>1, <3>2, ConfigAssumption DEF Counted
        <3>5. TypeOK'
            BY <1>4, <2>1, <3>1, <3>4, EnterType DEF Type, TypeOK
        <3>6. \A q \in Procs \ {p} : Local(q)' = Local(q)
            BY <1>4, <2>1, <3>1 DEF Type, Enter, Resume, TypeOK, Local
        <3> QED BY <3>3, <3>5, <3>6, OthersCounted
    <2>2. CASE w \notin Lockable
        <3>1. /\ TypeOK /\ Counted(p)
              /\ execs[p] \in Nat /\ left[p] \in Nat /\ nlocked[p] \in Nat
            BY DEF CountInv, TypeOK
        <3>2. /\ pc[p] = "prompt" /\ pc'[p] = "find"
              /\ execs'[p] = execs[p] /\ nlocked'[p] = nlocked[p] /\ locked'[p]
                 = FALSE
            BY <1>4, <2>2, <3>1 DEF Type, TypeOK
        <3>3. Counted(p)'
            BY <1>4, <2>2, <3>1, <3>2 DEF Counted
        <3>4. MaxExecs \in Nat
            BY <1>4, <2>2, <3>1, <3>2, ConfigAssumption DEF Counted
        <3>5. TypeOK'
            BY <1>4, <2>2, <3>1, <3>4 DEF Type, TypeOK
        <3>6. \A q \in Procs \ {p} : Local(q)' = Local(q)
            BY <1>4, <2>2, <3>1 DEF Type, TypeOK, Local
        <3> QED BY <3>3, <3>5, <3>6, OthersCounted
    <2> QED BY <2>1, <2>2
<1>5. ASSUME NEW p \in Procs, NEW h \in Procs \cup {None},
             pc[p] \in {"trying", "waiting"}, Granted(p, h) PROVE CountInv'
    <2>1. /\ TypeOK /\ Counted(p)
          /\ execs[p] \in Nat /\ left[p] \in Nat /\ nlocked[p] \in Nat
        BY DEF CountInv, TypeOK
    <2>2. /\ pc'[p] = IF execs[p] = 0 THEN "find" ELSE "run"
          /\ execs'[p] = execs[p] /\ nlocked'[p] = nlocked[p] /\ locked'[p] =
             locked[p]
        BY <1>5, <2>1 DEF Granted, Resume, TypeOK
    <2>3. Counted(p)'
        BY <1>5, <2>1, <2>2 DEF Counted
    <2>4. TypeOK'
        BY <1>5, <2>1 DEF Granted, Resume, TypeOK
    <2>5. \A q \in Procs \ {p} : Local(q)' = Local(q)
        BY <1>5, <2>1 DEF Granted, Resume, TypeOK, Local
    <2> QED BY <2>3, <2>4, <2>5, OthersCounted
<1>6. ASSUME NEW p \in Procs, pc[p] \in {"trying", "waiting"}, LockError(p)
      PROVE  CountInv'
    <2>1. CASE execs[p] = 0
        BY <1>2, <1>6, <2>1 DEF LockError
    <2>2. CASE execs[p] # 0
        <3>1. /\ TypeOK /\ Counted(p)
              /\ execs[p] \in Nat /\ left[p] \in Nat /\ nlocked[p] \in Nat
            BY DEF CountInv, TypeOK
        <3>2. /\ pc'[p] = "run" /\ execs'[p] = execs[p] - 1
              /\ nlocked'[p] = nlocked[p] /\ locked'[p] = locked[p]
            BY <1>6, <2>2, <3>1 DEF LockError, TypeOK
        <3>3. Counted(p)'
            BY <1>6, <2>2, <3>1, <3>2 DEF Counted
        <3>4. execs[p] - 1 \in Nat
            BY <1>6, <2>2, <3>1, <3>2 DEF Counted
        <3>5. TypeOK'
            BY <1>6, <2>2, <3>1, <3>4 DEF LockError, TypeOK
        <3>6. \A q \in Procs \ {p} : Local(q)' = Local(q)
            BY <1>6, <2>2, <3>1 DEF LockError, TypeOK, Local
        <3> QED BY <3>3, <3>5, <3>6, OthersCounted
    <2> QED BY <2>1, <2>2
<1>7. ASSUME NEW p \in Procs, Try(p) PROVE CountInv'
    <2>1. CASE Granted(p, p) \/ Granted(p, holder)
        BY <1>5, <1>7, <2>1 DEF Try, CountInv, TypeOK
    <2>2. CASE LockError(p)
        BY <1>6, <1>7, <2>2 DEF Try
    <2>3. CASE /\ pc' = [pc EXCEPT ![p] = "waiting"]
               /\ UNCHANGED <<word, locked, execs, left, nlocked, lockfd,
                  holder, based>>
        <3>1. /\ TypeOK /\ Counted(p)
              /\ execs[p] \in Nat /\ left[p] \in Nat /\ nlocked[p] \in Nat
            BY DEF CountInv, TypeOK
        <3>2. /\ pc[p] = "trying" /\ pc'[p] = "waiting"
              /\ execs'[p] = execs[p] /\ nlocked'[p] = nlocked[p] /\ locked'[p]
                 = locked[p]
            BY <1>7, <2>3, <3>1 DEF Try, TypeOK
        <3>3. Counted(p)'
            BY <1>7, <2>3, <3>1, <3>2 DEF Counted
        <3>4. TypeOK'
            BY <1>7, <2>3, <3>1 DEF Try, TypeOK
        <3>5. \A q \in Procs \ {p} : Local(q)' = Local(q)
            BY <1>7, <2>3, <3>1 DEF Try, TypeOK, Local
        <3> QED BY <3>3, <3>4, <3>5, OthersCounted
    <2> QED BY <1>7, <2>1, <2>2, <2>3 DEF Try
<1>8. ASSUME NEW p \in Procs, Acquire(p) PROVE CountInv'
    BY <1>5, <1>8 DEF Acquire, CountInv, TypeOK
<1>9. ASSUME NEW p \in Procs, Interrupted(p) PROVE CountInv'
    BY <1>6, <1>9 DEF Interrupted
<1>10. ASSUME NEW p \in Procs, Find(p) PROVE CountInv'
    <2>1. /\ TypeOK /\ Counted(p)
          /\ execs[p] \in Nat /\ left[p] \in Nat /\ nlocked[p] \in Nat
        BY DEF CountInv, TypeOK
    <2>2. /\ pc[p] = "find" /\ pc'[p] = "run"
          /\ execs'[p] = execs[p] /\ nlocked'[p] = nlocked[p] /\ locked'[p] =
             locked[p]
        BY <1>10, <2>1 DEF Find, TypeOK
    <2>3. Counted(p)'
        BY <1>10, <2>1, <2>2 DEF Counted
    <2>4. TypeOK'
        BY <1>10, <2>1 DEF Find, TypeOK
    <2>5. \A q \in Procs \ {p} : Local(q)' = Local(q)
        BY <1>10, <2>1 DEF Find, TypeOK, Local
    <2> QED BY <2>3, <2>4, <2>5, OthersCounted
<1>11. ASSUME NEW p \in Procs, Break(p) PROVE CountInv'
    <2>1. /\ TypeOK /\ Counted(p)
          /\ execs[p] \in Nat /\ left[p] \in Nat /\ nlocked[p] \in Nat
        BY DEF CountInv, TypeOK
    <2>2. /\ pc[p] = "find" /\ pc'[p] \in {"prompt", "ended"}
          /\ execs'[p] = execs[p] /\ nlocked'[p] = nlocked[p] /\ locked'[p] =
             FALSE
        BY <1>11, <2>1 DEF Break, Return, TypeOK
    <2>3. Counted(p)'
        BY <1>11, <2>1, <2>2 DEF Counted
    <2>4. TypeOK'
        BY <1>11, <2>1 DEF Break, Return, TypeOK
    <2>5. \A q \in Procs \ {p} : Local(q)' = Local(q)
        BY <1>11, <2>1 DEF Break, Return, TypeOK, Local
    <2> QED BY <2>3, <2>4, <2>5, OthersCounted
<1>12. ASSUME NEW p \in Procs, Done(p) PROVE CountInv'
    <2>1. CASE locked[p]
        <3>1. /\ TypeOK /\ Counted(p)
              /\ execs[p] \in Nat /\ left[p] \in Nat /\ nlocked[p] \in Nat
            BY DEF CountInv, TypeOK
        <3>2. /\ execs[p] = 0 /\ execs'[p] = 0 /\ locked'[p] = FALSE
              /\ pc'[p] \in {"prompt", "ended"}
              /\ nlocked'[p] = nlocked[p] - 1
            BY <1>12, <2>1, <3>1 DEF Done, Return, LeaveLock, TypeOK
        <3>3. Counted(p)'
            BY <1>12, <2>1, <3>1, <3>2 DEF Counted
        <3>4. nlocked[p] - 1 \in Nat
            BY <1>12, <2>1, <3>1, <3>2 DEF Counted
        <3>5. TypeOK'
            BY <1>12, <2>1, <3>1, <3>4 DEF Done, Return, LeaveLock, TypeOK
        <3>6. \A q \in Procs \ {p} : Local(q)' = Local(q)
            BY <1>12, <2>1, <3>1 DEF Done, Return, LeaveLock, TypeOK, Local
        <3> QED BY <3>3, <3>5, <3>6, OthersCounted
    <2>2. CASE ~locked[p]
        <3>1. /\ TypeOK /\ Counted(p)
              /\ execs[p] \in Nat /\ left[p] \in Nat /\ nlocked[p] \in Nat
            BY DEF CountInv, TypeOK
        <3>2. /\ execs[p] = 0 /\ execs'[p] = 0 /\ locked'[p] = FALSE
              /\ pc'[p] \in {"prompt", "ended"}
              /\ nlocked'[p] = nlocked[p]
            BY <1>12, <2>2, <3>1 DEF Done, Return, TypeOK
        <3>3. Counted(p)'
            BY <1>12, <2>2, <3>1, <3>2 DEF Counted
        <3>4. TypeOK'
            BY <1>12, <2>2, <3>1 DEF Done, Return, TypeOK
        <3>5. \A q \in Procs \ {p} : Local(q)' = Local(q)
            BY <1>12, <2>2, <3>1 DEF Done, Return, TypeOK, Local
        <3> QED BY <3>3, <3>4, <3>5, OthersCounted
    <2> QED BY <2>1, <2>2
<1>13. ASSUME NEW p \in Procs, Decide(p) \/ Change(p) PROVE CountInv'
    <2>1. /\ TypeOK /\ Counted(p)
          /\ execs[p] \in Nat /\ left[p] \in Nat /\ nlocked[p] \in Nat
        BY DEF CountInv, TypeOK
    <2>2. /\ pc'[p] = pc[p]
          /\ execs'[p] = execs[p] /\ nlocked'[p] = nlocked[p] /\ locked'[p] =
             locked[p]
        BY <1>13, <2>1 DEF Decide, Change, Changes, TypeOK
    <2>3. Counted(p)'
        BY <1>13, <2>1, <2>2 DEF Counted
    <2>4. TypeOK'
        BY <1>13, <2>1 DEF Decide, Change, Changes, TypeOK
    <2>5. \A q \in Procs \ {p} : Local(q)' = Local(q)
        BY <1>13, <2>1 DEF Decide, Change, Changes, TypeOK, Local
    <2> QED BY <2>3, <2>4, <2>5, OthersCounted
<1>14. ASSUME NEW p \in Procs, ExecBegin(p) PROVE CountInv'
    <2>1. /\ TypeOK /\ Counted(p)
          /\ execs[p] \in Nat /\ left[p] \in Nat /\ nlocked[p] \in Nat
        BY DEF CountInv, TypeOK
    <2>2. /\ execs'[p] = execs[p] + 1 /\ nlocked'[p] = nlocked[p] + 1
          /\ locked'[p] = locked[p] /\ left[p] > 0
          /\ pc'[p] \in {"run", "trying"}
          /\ pc'[p] = "trying" => nlocked[p] = 0
        <3>1. Resume(execs[p] + 1) = "run"
            BY <2>1 DEF Resume
        <3>2. pc'[p] = IF nlocked[p] = 0 /\ (lockfd[p] \/ p \in Writers)
                       THEN "trying" ELSE "run"
            BY <1>14, <2>1, <3>1 DEF ExecBegin, Enter, TypeOK
        <3> QED BY <1>14, <2>1, <3>2 DEF ExecBegin, Enter, TypeOK
    <2>3. Counted(p)'
        BY <1>14, <2>1, <2>2 DEF Counted
    <2>4. execs[p] + 1 \in Nat /\ left[p] - 1 \in Nat /\ nlocked[p] + 1 \in Nat
        BY <1>14, <2>1, <2>2 DEF Counted
    <2>5. TypeOK'
        BY <1>14, <2>1, <2>4, EnterType DEF ExecBegin, TypeOK
    <2>6. \A q \in Procs \ {p} : Local(q)' = Local(q)
        BY <1>14, <2>1, <2>4, EnterType DEF ExecBegin, TypeOK, Local
    <2> QED BY <2>3, <2>5, <2>6, OthersCounted
<1>15. ASSUME NEW p \in Procs, ExecEnd(p) PROVE CountInv'
    <2>1. /\ TypeOK /\ Counted(p)
          /\ execs[p] \in Nat /\ left[p] \in Nat /\ nlocked[p] \in Nat
        BY DEF CountInv, TypeOK
    <2>2. /\ pc[p] = "run" /\ pc'[p] = "run" /\ execs[p] > 0
          /\ execs'[p] = execs[p] - 1 /\ locked'[p] = locked[p]
          /\ nlocked'[p] = nlocked[p] - 1
        BY <1>15, <2>1 DEF ExecEnd, ExecReturn, LeaveLock, TypeOK
    <2>3. Counted(p)'
        BY <1>15, <2>1, <2>2 DEF Counted
    <2>4. execs[p] - 1 \in Nat /\ nlocked[p] - 1 \in Nat
        BY <1>15, <2>1, <2>2 DEF Counted
    <2>5. TypeOK'
        BY <1>15, <2>1, <2>4 DEF ExecEnd, ExecReturn, LeaveLock, TypeOK
    <2>6. \A q \in Procs \ {p} : Local(q)' = Local(q)
        BY <1>15, <2>1 DEF ExecEnd, ExecReturn, LeaveLock, TypeOK, Local
    <2> QED BY <2>3, <2>5, <2>6, OthersCounted
<1>16. ASSUME NEW p \in Procs, ExecFail(p) PROVE CountInv'
    <2>1. /\ TypeOK /\ Counted(p)
          /\ execs[p] \in Nat /\ left[p] \in Nat /\ nlocked[p] \in Nat
        BY DEF CountInv, TypeOK
    <2>2. /\ pc[p] = "run" /\ pc'[p] = "run" /\ execs[p] > 0
          /\ execs'[p] = execs[p] - 1 /\ locked'[p] = locked[p]
          /\ nlocked'[p] = nlocked[p]
        BY <1>16, <2>1 DEF ExecFail, ExecReturn, TypeOK
    <2>3. Counted(p)'
        BY <1>16, <2>1, <2>2 DEF Counted
    <2>4. execs[p] - 1 \in Nat
        BY <1>16, <2>1, <2>2 DEF Counted
    <2>5. TypeOK'
        BY <1>16, <2>1, <2>4 DEF ExecFail, ExecReturn, TypeOK
    <2>6. \A q \in Procs \ {p} : Local(q)' = Local(q)
        BY <1>16, <2>1 DEF ExecFail, ExecReturn, TypeOK, Local
    <2> QED BY <2>3, <2>5, <2>6, OthersCounted
<1> QED
    BY <1>1, <1>2, <1>3, <1>4, <1>7, <1>8, <1>9, <1>10, <1>11, <1>12, <1>13,
       <1>14, <1>15, <1>16 DEF Next, Quit, Kill, Finish

-----------------------------------------------------------------------------
(* While flock does not fail, a writer inside the lock is its holder. *)

\* A step of one process leaves the others inside, and takes the lock from
\* none of them.
LEMMA OthersHolder ==
    ASSUME HolderInv, NEW p \in Procs, p \in Writers /\ Inside(p)' => holder' =
       p,
           holder \in {None, p} \/ holder' = holder,
           \A q \in Procs \ {p} : pc'[q] = pc[q] /\ nlocked'[q] = nlocked[q]
    PROVE  HolderInv'
<1> SUFFICES ASSUME NEW q \in Writers, q # p, Inside(q)' PROVE holder' = q
    BY DEF HolderInv
<1>1. q \in Procs /\ q # None
    BY ConfigAssumption
<1>2. Inside(q)
    BY <1>1 DEF Inside
<1>3. holder = q
    BY <1>2 DEF HolderInv
<1> QED BY <1>1, <1>3

LEMMA NextHolder ==
    ASSUME Faults = {}, CountInv, HolderInv, [Next]_vars
    PROVE  HolderInv'
<1>1. CASE UNCHANGED vars
    BY <1>1 DEF vars, HolderInv, Inside
<1>2. ASSUME NEW p \in Procs, Exit(p) PROVE HolderInv'
    <2>1. TypeOK /\ Counted(p) /\ (p \in Writers /\ Inside(p) => holder = p)
        BY DEF CountInv, HolderInv
    <2>2. p \in Writers /\ Inside(p)' => holder' = p
        <3>1. nlocked'[p] = 0
            BY <1>2, <2>1 DEF Exit, TypeOK
        <3> QED BY <3>1 DEF Inside
    <2>3. holder \in {None, p} \/ holder' = holder
        BY <1>2 DEF Exit
    <2>4. \A q \in Procs \ {p} : pc'[q] = pc[q] /\ nlocked'[q] = nlocked[q]
        BY <1>2, <2>1 DEF Exit, TypeOK
    <2> QED BY <2>2, <2>3, <2>4, OthersHolder
<1>3. ASSUME NEW p \in Procs, Start(p) PROVE HolderInv'
    <2>1. TypeOK /\ Counted(p) /\ (p \in Writers /\ Inside(p) => holder = p)
        BY DEF CountInv, HolderInv
    <2>2. p \in Writers /\ Inside(p)' => holder' = p
        BY <1>3, <2>1 DEF Start, TypeOK, Counted, Inside
    <2>3. holder \in {None, p} \/ holder' = holder
        BY <1>3 DEF Start
    <2>4. \A q \in Procs \ {p} : pc'[q] = pc[q] /\ nlocked'[q] = nlocked[q]
        BY <1>3, <2>1 DEF Start, TypeOK
    <2> QED BY <2>2, <2>3, <2>4, OthersHolder
<1>4. ASSUME NEW p \in Procs, NEW e \in Nat, Enter(p, e),
             pc[p] \in {"prompt", "run"}
      PROVE  HolderInv'
    <2>1. TypeOK /\ Counted(p) /\ (p \in Writers /\ Inside(p) => holder = p)
        BY DEF CountInv, HolderInv
    <2>2. CASE p \in Writers /\ nlocked[p] = 0
        <3>1. pc'[p] = "trying"
            BY <1>4, <2>1, <2>2 DEF Enter, TypeOK
        <3> QED BY <1>4, <2>1, <3>1, EnterType, OthersHolder DEF Inside
    <2>3. CASE p \in Writers /\ nlocked[p] # 0
        <3>0. nlocked[p] \in Nat
            BY <2>1 DEF TypeOK
        <3>1. nlocked[p] > 0
            BY <2>3, <3>0
        <3>2. holder = p
            BY <1>4, <2>1, <2>3, <3>1 DEF Inside
        <3> QED BY <1>4, <2>1, <3>2, EnterType, OthersHolder
    <2>4. CASE p \notin Writers
        BY <1>4, <2>1, <2>4, EnterType, OthersHolder
    <2> QED BY <2>2, <2>3, <2>4
<1>5. ASSUME NEW p \in Procs, NEW w \in Words, Type(p, w) PROVE HolderInv'
    <2>1. CASE w \in Lockable
        BY <1>4, <1>5, <2>1 DEF Type
    <2>2. CASE w \notin Lockable
        <3>1. TypeOK /\ (p \in Writers /\ Inside(p) => holder = p)
            BY DEF CountInv, HolderInv
        <3>2. pc[p] = "prompt" /\ nlocked' = nlocked /\ holder' = holder
            BY <1>5, <2>2 DEF Type
        <3>3. \A q \in Procs \ {p} : pc'[q] = pc[q]
            BY <1>5, <2>2, <3>1 DEF Type, TypeOK
        <3> QED BY <3>1, <3>2, <3>3, OthersHolder DEF Inside
    <2> QED BY <2>1, <2>2
<1>6. ASSUME NEW p \in Procs, ExecBegin(p) PROVE HolderInv'
    <2>1. execs[p] \in Nat
        BY DEF CountInv, TypeOK
    <2>2. execs[p] + 1 \in Nat
        BY <2>1
    <2> QED BY <1>4, <1>6, <2>2 DEF ExecBegin
<1>7. ASSUME NEW p \in Procs, Granted(p, p), holder \in {None, p} PROVE
      HolderInv'
    <2>1. TypeOK /\ Counted(p) /\ (p \in Writers /\ Inside(p) => holder = p)
        BY DEF CountInv, HolderInv
    <2>2. p \in Writers /\ Inside(p)' => holder' = p
        BY <1>7, <2>1 DEF Granted, TypeOK, Counted, Inside
    <2>3. holder \in {None, p} \/ holder' = holder
        BY <1>7 DEF Granted
    <2>4. \A q \in Procs \ {p} : pc'[q] = pc[q] /\ nlocked'[q] = nlocked[q]
        BY <1>7, <2>1 DEF Granted, TypeOK
    <2> QED BY <2>2, <2>3, <2>4, OthersHolder
<1>8. ASSUME NEW p \in Procs, Try(p) PROVE HolderInv'
    <2>1. CASE holder \in {None, p} /\ Granted(p, p)
        BY <1>7, <2>1
    <2>2. CASE /\ pc[p] = "trying" /\ pc' = [pc EXCEPT ![p] = "waiting"]
               /\ UNCHANGED <<word, locked, execs, left, nlocked, lockfd,
                  holder, based>>
        <3>1. TypeOK
            BY DEF CountInv
        <3>2. pc'[p] = "waiting" /\ \A q \in Procs \ {p} : pc'[q] = pc[q]
            BY <2>2, <3>1 DEF TypeOK
        <3> QED BY <2>2, <3>2, OthersHolder DEF Inside
    <2> QED BY <1>8, <2>1, <2>2 DEF Try
<1>9. ASSUME NEW p \in Procs, Acquire(p) PROVE HolderInv'
    BY <1>7, <1>9 DEF Acquire
<1>10. ASSUME NEW p \in Procs, Interrupted(p) PROVE HolderInv'
    BY <1>10 DEF Interrupted
<1>11. ASSUME NEW p \in Procs, Find(p) PROVE HolderInv'
    <2>1. TypeOK /\ Counted(p) /\ (p \in Writers /\ Inside(p) => holder = p)
        BY DEF CountInv, HolderInv
    <2>2. p \in Writers /\ Inside(p)' => holder' = p
        BY <1>11, <2>1 DEF Find, TypeOK, Counted, Inside
    <2>3. holder \in {None, p} \/ holder' = holder
        BY <1>11 DEF Find
    <2>4. \A q \in Procs \ {p} : pc'[q] = pc[q] /\ nlocked'[q] = nlocked[q]
        BY <1>11, <2>1 DEF Find, TypeOK
    <2> QED BY <2>2, <2>3, <2>4, OthersHolder
<1>12. ASSUME NEW p \in Procs, Break(p) PROVE HolderInv'
    <2>1. TypeOK /\ Counted(p) /\ (p \in Writers /\ Inside(p) => holder = p)
        BY DEF CountInv, HolderInv
    <2>2. p \in Writers /\ Inside(p)' => holder' = p
        BY <1>12, <2>1 DEF Break, Return, TypeOK, Counted, Inside
    <2>3. holder \in {None, p} \/ holder' = holder
        BY <1>12 DEF Break, Return
    <2>4. \A q \in Procs \ {p} : pc'[q] = pc[q] /\ nlocked'[q] = nlocked[q]
        BY <1>12, <2>1 DEF Break, Return, TypeOK
    <2> QED BY <2>2, <2>3, <2>4, OthersHolder
<1>13. ASSUME NEW p \in Procs, Decide(p) \/ Change(p) PROVE HolderInv'
    <2>1. TypeOK /\ Counted(p) /\ (p \in Writers /\ Inside(p) => holder = p)
        BY DEF CountInv, HolderInv
    <2>2. p \in Writers /\ Inside(p)' => holder' = p
        BY <1>13, <2>1 DEF Decide, Change, Changes, TypeOK, Counted, Inside
    <2>3. holder \in {None, p} \/ holder' = holder
        BY <1>13 DEF Decide, Change, Changes
    <2>4. \A q \in Procs \ {p} : pc'[q] = pc[q] /\ nlocked'[q] = nlocked[q]
        BY <1>13, <2>1 DEF Decide, Change, Changes, TypeOK
    <2> QED BY <2>2, <2>3, <2>4, OthersHolder
<1>14. ASSUME NEW p \in Procs, ExecFail(p) PROVE HolderInv'
    <2>1. TypeOK /\ Counted(p) /\ (p \in Writers /\ Inside(p) => holder = p)
        BY DEF CountInv, HolderInv
    <2>2. p \in Writers /\ Inside(p)' => holder' = p
        BY <1>14, <2>1 DEF ExecFail, ExecReturn, TypeOK, Counted, Inside
    <2>3. holder \in {None, p} \/ holder' = holder
        BY <1>14 DEF ExecFail, ExecReturn
    <2>4. \A q \in Procs \ {p} : pc'[q] = pc[q] /\ nlocked'[q] = nlocked[q]
        BY <1>14, <2>1 DEF ExecFail, ExecReturn, TypeOK
    <2> QED BY <2>2, <2>3, <2>4, OthersHolder
<1>15. ASSUME NEW p \in Procs, pc[p] = "run", LeaveLock(p),
              \A q \in Procs \ {p} : pc'[q] = pc[q]
       PROVE  HolderInv'
    <2>1. TypeOK /\ Counted(p) /\ (p \in Writers /\ Inside(p) => holder = p)
        BY DEF CountInv, HolderInv
    <2>2. nlocked[p] \in Nat /\ nlocked'[p] = nlocked[p] - 1
          /\ \A q \in Procs \ {p} : nlocked'[q] = nlocked[q]
        BY <1>15, <2>1 DEF LeaveLock, TypeOK
    <2>3. p \in Writers /\ Inside(p)' => holder' = p
        BY <1>15, <2>1, <2>2 DEF LeaveLock, Inside
    <2> QED BY <1>15, <2>2, <2>3, OthersHolder DEF LeaveLock
<1>16. ASSUME NEW p \in Procs, ExecEnd(p) PROVE HolderInv'
    BY <1>15, <1>16 DEF ExecEnd, ExecReturn
<1>17. ASSUME NEW p \in Procs, Done(p) PROVE HolderInv'
    <2>1. \A q \in Procs \ {p} : pc'[q] = pc[q]
        BY <1>17 DEF Done, Return, CountInv, TypeOK
    <2>2. CASE locked[p]
        BY <1>15, <1>17, <2>1, <2>2 DEF Done
    <2>3. CASE ~locked[p]
        <3>1. pc[p] = "run" /\ UNCHANGED <<nlocked, holder>>
            BY <1>17, <2>3 DEF Done
        <3> QED BY <2>1, <3>1, OthersHolder DEF HolderInv, Inside
    <2> QED BY <2>2, <2>3
<1> QED
    BY <1>1, <1>2, <1>3, <1>5, <1>6, <1>8, <1>9, <1>10, <1>11, <1>12, <1>13,
       <1>14, <1>16, <1>17 DEF Next, Quit, Kill, Finish

-----------------------------------------------------------------------------
(* Where lock_reg_if_needed knows every word for an action that changes    *)
(* the registry, a decision is made and carried out inside the lock.       *)

\* The part of the state WordOf and BasedOf depend on.
Command(p) == <<pc[p], word[p], locked[p], execs[p]>>

LEMMA OthersWord ==
    ASSUME WordInv, NEW p \in Procs, WordOf(p)',
           \A q \in Procs \ {p} : Command(q)' = Command(q)
    PROVE  WordInv'
<1> SUFFICES ASSUME NEW q \in Procs \ {p} PROVE WordOf(q)'
    BY DEF WordInv
<1> pc'[q] = pc[q] /\ word'[q] = word[q] /\ locked'[q] = locked[q] /\ execs'[q]
      = execs[q]
    BY DEF Command
<1> QED BY DEF WordInv, WordOf

LEMMA NextWord ==
    ASSUME CountInv, WordInv, [Next]_vars
    PROVE  WordInv'
<1>1. CASE UNCHANGED vars
    BY <1>1 DEF vars, WordInv, WordOf
<1>2. ASSUME NEW p \in Procs, Exit(p) PROVE WordInv'
    <2>1. TypeOK /\ Counted(p) /\ WordOf(p)
        BY DEF CountInv, WordInv
    <2>2. WordOf(p)'
        BY <1>2, <2>1 DEF Exit, TypeOK, Counted, WordOf
    <2>3. \A q \in Procs \ {p} : Command(q)' = Command(q)
        BY <1>2, <2>1 DEF Exit, TypeOK, Command
    <2> QED BY <2>2, <2>3, OthersWord
<1>3. ASSUME NEW p \in Procs, Start(p) PROVE WordInv'
    <2>1. TypeOK /\ Counted(p) /\ WordOf(p)
        BY DEF CountInv, WordInv
    <2>2. WordOf(p)'
        BY <1>3, <2>1 DEF Start, TypeOK, Counted, WordOf
    <2>3. \A q \in Procs \ {p} : Command(q)' = Command(q)
        BY <1>3, <2>1 DEF Start, TypeOK, Command
    <2> QED BY <2>2, <2>3, OthersWord
<1>4. ASSUME NEW p \in Procs, NEW w \in Words, Type(p, w) PROVE WordInv'
    <2>1. TypeOK /\ word'[p] = w
        BY <1>4 DEF CountInv, TypeOK, Type
    <2>2. pc'[p] \in {"find", "trying"} /\ (locked'[p] <=> w \in Lockable) /\
          execs'[p] = 0
        BY <1>4, <2>1 DEF Type, Enter, Resume, TypeOK, CountInv, Counted
    <2>3. \A q \in Procs \ {p} : Command(q)' = Command(q)
        BY ZenonT(60), <1>4, <2>1, EnterType DEF Type, TypeOK, Command
    <2> QED BY <2>1, <2>2, <2>3, OthersWord DEF WordOf
<1>5. ASSUME NEW p \in Procs, Granted(p, p) \/ Granted(p, holder),
             pc[p] \in {"trying", "waiting"} PROVE WordInv'
    <2>1. TypeOK /\ Counted(p) /\ WordOf(p)
        BY DEF CountInv, WordInv
    <2>2. WordOf(p)'
        <3>1. execs[p] \in Nat
            BY <2>1 DEF TypeOK
        <3>2. execs[p] = 0 \/ execs[p] > 0
            BY <3>1
        <3> QED BY <1>5, <2>1, <3>2 DEF Granted, Resume, TypeOK, WordOf
    <2>3. \A q \in Procs \ {p} : Command(q)' = Command(q)
        BY <1>5, <2>1 DEF Granted, Resume, TypeOK, Command
    <2> QED BY <2>2, <2>3, OthersWord
<1>6. ASSUME NEW p \in Procs, pc[p] \in {"trying", "waiting"}, LockError(p)
      PROVE  WordInv'
    <2>1. TypeOK /\ Counted(p) /\ WordOf(p)
        BY DEF CountInv, WordInv
    <2>2. CASE execs[p] = 0
        BY <1>2, <1>6, <2>2 DEF LockError
    <2>3. CASE execs[p] # 0
        <3>0. execs[p] \in Nat
            BY <2>1 DEF TypeOK
        <3>1. execs[p] > 0
            BY <2>3, <3>0
        <3>2. WordOf(p)'
            BY <1>6, <2>1, <2>3, <3>1 DEF LockError, TypeOK, WordOf
        <3>3. \A q \in Procs \ {p} : Command(q)' = Command(q)
            BY <1>6, <2>1, <2>3 DEF LockError, TypeOK, Command
        <3> QED BY <3>2, <3>3, OthersWord
    <2> QED BY <2>2, <2>3
<1>7. ASSUME NEW p \in Procs, pc[p] = "trying", pc' = [pc EXCEPT ![p] =
      "waiting"],
             UNCHANGED <<word, locked, execs>> PROVE WordInv'
    <2>1. TypeOK /\ Counted(p) /\ WordOf(p)
        BY DEF CountInv, WordInv
    <2>2. WordOf(p)'
        BY <1>7, <2>1 DEF Try, TypeOK, Counted, WordOf
    <2>3. \A q \in Procs \ {p} : Command(q)' = Command(q)
        BY <1>7, <2>1 DEF Try, TypeOK, Command
    <2> QED BY <2>2, <2>3, OthersWord
<1>8. ASSUME NEW p \in Procs, Try(p) PROVE WordInv'
    BY <1>5, <1>6, <1>7, <1>8 DEF Try
<1>9. ASSUME NEW p \in Procs, Acquire(p) \/ Interrupted(p) PROVE WordInv'
    BY <1>5, <1>6, <1>9 DEF Acquire, Interrupted
<1>10. ASSUME NEW p \in Procs, Find(p) PROVE WordInv'
    <2>1. TypeOK /\ WordOf(p)
        BY DEF CountInv, WordInv
    <2>2. Guess[word[p]] # {}
        BY <1>10, FS_EmptySet DEF Find
    <2>3. WordOf(p)'
        BY <1>10, <2>1, <2>2 DEF Find, TypeOK, WordOf
    <2>4. \A q \in Procs \ {p} : Command(q)' = Command(q)
        BY <1>10, <2>1 DEF Find, TypeOK, Command
    <2> QED BY <2>3, <2>4, OthersWord
<1>11. ASSUME NEW p \in Procs, Break(p) \/ Done(p) PROVE WordInv'
    <2>1. TypeOK /\ Counted(p) /\ WordOf(p)
        BY DEF CountInv, WordInv
    <2>2. WordOf(p)'
        BY <1>11, <2>1 DEF Break, Done, Return, TypeOK, Counted, WordOf
    <2>3. \A q \in Procs \ {p} : Command(q)' = Command(q)
        BY <1>11, <2>1 DEF Break, Done, Return, TypeOK, Command
    <2> QED BY <2>2, <2>3, OthersWord
<1>12. ASSUME NEW p \in Procs, Decide(p) \/ Change(p) PROVE WordInv'
    <2>1. TypeOK /\ Counted(p) /\ WordOf(p)
        BY DEF CountInv, WordInv
    <2>2. WordOf(p)'
        BY <1>12, <2>1 DEF Decide, Change, TypeOK, Counted, WordOf
    <2>3. \A q \in Procs \ {p} : Command(q)' = Command(q)
        BY <1>12, <2>1 DEF Decide, Change, TypeOK, Command
    <2> QED BY <2>2, <2>3, OthersWord
<1>13. ASSUME NEW p \in Procs, ExecBegin(p) PROVE WordInv'
    <2>1. TypeOK /\ WordOf(p) /\ execs[p] \in Nat
        BY DEF CountInv, WordInv, TypeOK
    <2>2. execs[p] + 1 \in Nat
        BY <2>1
    <2>3. pc[p] = "run" /\ word' = word /\ locked' = locked
        BY <1>13 DEF ExecBegin
    <2>4. WordOf(p)'
        BY <2>1, <2>3 DEF WordOf
    <2>5. \A q \in Procs \ {p} : Command(q)' = Command(q)
        BY <1>13, <2>1, <2>2, <2>3, EnterType DEF ExecBegin, Command
    <2> QED BY <2>4, <2>5, OthersWord
<1>14. ASSUME NEW p \in Procs, ExecReturn(p) PROVE WordInv'
    <2>1. TypeOK /\ Counted(p) /\ WordOf(p)
        BY DEF CountInv, WordInv
    <2>2. WordOf(p)'
        BY <1>14, <2>1 DEF ExecReturn, TypeOK, Counted, WordOf
    <2>3. \A q \in Procs \ {p} : Command(q)' = Command(q)
        BY <1>14, <2>1 DEF ExecReturn, TypeOK, Command
    <2> QED BY <2>2, <2>3, OthersWord
<1> QED
    BY <1>1, <1>2, <1>3, <1>4, <1>8, <1>9, <1>10, <1>11, <1>12, <1>13, <1>14
    DEF Next, Quit, Kill, Finish, ExecEnd, ExecFail

\* A process that has read something to act on holds the lock.
LEMMA BasedHolds ==
    ASSUME CountInv, HolderInv, BasedInv, NEW p \in Procs, based[p] # "nothing"
    PROVE  holder = p /\ nlocked[p] > 0
<1>1. BasedOf(p) /\ Counted(p) /\ execs[p] \in Nat /\ nlocked[p] \in Nat
    BY DEF CountInv, BasedInv, TypeOK
<1>2. nlocked[p] > 0
    BY <1>1 DEF BasedOf, Counted
<1> QED BY <1>1, <1>2 DEF BasedOf, HolderInv, Inside

LEMMA OthersBased ==
    ASSUME BasedInv, NEW p \in Procs, BasedOf(p)', \A q \in Procs \ {p} :
               Command(q)' = Command(q) /\ based'[q] = based[q]
    PROVE  BasedInv'
<1> SUFFICES ASSUME NEW q \in Procs \ {p} PROVE BasedOf(q)'
    BY DEF BasedInv
<1> pc'[q] = pc[q] /\ locked'[q] = locked[q] /\ execs'[q] = execs[q]
    BY DEF Command
<1> QED BY DEF BasedInv, BasedOf

LEMMA NextBased ==
    ASSUME SpelledOut, CountInv, HolderInv, WordInv, BasedInv, [Next]_vars
    PROVE  BasedInv'
<1>1. CASE UNCHANGED vars
    BY <1>1 DEF vars, BasedInv, BasedOf
<1>2. ASSUME NEW p \in Procs, Exit(p) PROVE BasedInv'
    <2>1. TypeOK /\ Counted(p) /\ BasedOf(p)
        BY DEF CountInv, BasedInv
    <2>2. BasedOf(p)'
        BY <1>2, <2>1 DEF Exit, TypeOK, BasedOf
    <2>3. \A q \in Procs \ {p} : Command(q)' = Command(q) /\ based'[q] =
          based[q]
        BY <1>2, <2>1 DEF Exit, TypeOK, Command
    <2> QED BY <2>2, <2>3, OthersBased
<1>3. ASSUME NEW p \in Procs, Start(p) PROVE BasedInv'
    <2>1. TypeOK /\ Counted(p) /\ BasedOf(p)
        BY DEF CountInv, BasedInv
    <2>2. BasedOf(p)'
        BY <1>3, <2>1 DEF Start, TypeOK, BasedOf
    <2>3. \A q \in Procs \ {p} : Command(q)' = Command(q) /\ based'[q] =
          based[q]
        BY <1>3, <2>1 DEF Start, TypeOK, Command
    <2> QED BY <2>2, <2>3, OthersBased
<1>4. ASSUME NEW p \in Procs, NEW w \in Words, Type(p, w) PROVE BasedInv'
    <2>1. TypeOK /\ BasedOf(p) /\ pc[p] = "prompt" /\ based' = based
        BY <1>4 DEF CountInv, BasedInv, Type
    <2>2. BasedOf(p)'
        BY <2>1 DEF BasedOf
    <2>3. \A q \in Procs \ {p} : Command(q)' = Command(q) /\ based'[q] =
          based[q]
        BY ZenonT(60), <1>4, <2>1, EnterType DEF Type, TypeOK, Command
    <2> QED BY <2>2, <2>3, OthersBased
<1>5. ASSUME NEW p \in Procs, Granted(p, p) \/ Granted(p, holder),
             pc[p] \in {"trying", "waiting"} PROVE BasedInv'
    <2>1. TypeOK /\ Counted(p) /\ BasedOf(p)
        BY DEF CountInv, BasedInv
    <2>2. BasedOf(p)'
        BY <1>5, <2>1 DEF Granted, TypeOK, BasedOf
    <2>3. \A q \in Procs \ {p} : Command(q)' = Command(q) /\ based'[q] =
          based[q]
        BY <1>5, <2>1 DEF Granted, TypeOK, Command
    <2> QED BY <2>2, <2>3, OthersBased
<1>6. ASSUME NEW p \in Procs, pc[p] \in {"trying", "waiting"}, LockError(p)
      PROVE  BasedInv'
    <2>1. TypeOK /\ BasedOf(p)
        BY DEF CountInv, BasedInv
    <2>2. CASE execs[p] = 0
        BY <1>2, <1>6, <2>2 DEF LockError
    <2>3. CASE execs[p] # 0
        <3>1. based[p] = "nothing" /\ based' = based
            BY <1>6, <2>1, <2>3 DEF LockError, BasedOf
        <3>2. \A q \in Procs \ {p} : Command(q)' = Command(q)
            BY <1>6, <2>1, <2>3 DEF LockError, TypeOK, Command
        <3> QED BY <3>1, <3>2, OthersBased DEF BasedOf
    <2> QED BY <2>2, <2>3
<1>7. ASSUME NEW p \in Procs, pc[p] = "trying", pc' = [pc EXCEPT ![p] =
      "waiting"],
             UNCHANGED <<word, locked, execs, based>> PROVE BasedInv'
    <2>1. TypeOK /\ Counted(p) /\ BasedOf(p)
        BY DEF CountInv, BasedInv
    <2>2. BasedOf(p)'
        BY <1>7, <2>1 DEF Try, TypeOK, BasedOf
    <2>3. \A q \in Procs \ {p} : Command(q)' = Command(q) /\ based'[q] =
          based[q]
        BY <1>7, <2>1 DEF Try, TypeOK, Command
    <2> QED BY <2>2, <2>3, OthersBased
<1>8. ASSUME NEW p \in Procs, Try(p) PROVE BasedInv'
    BY <1>5, <1>6, <1>7, <1>8 DEF Try
<1>9. ASSUME NEW p \in Procs, Acquire(p) \/ Interrupted(p) PROVE BasedInv'
    BY <1>5, <1>6, <1>9 DEF Acquire, Interrupted
<1>10. ASSUME NEW p \in Procs, Find(p) PROVE BasedInv'
    <2>1. TypeOK /\ Counted(p) /\ BasedOf(p)
        BY DEF CountInv, BasedInv
    <2>2. BasedOf(p)'
        BY <1>10, <2>1 DEF Find, TypeOK, BasedOf
    <2>3. \A q \in Procs \ {p} : Command(q)' = Command(q) /\ based'[q] =
          based[q]
        BY <1>10, <2>1 DEF Find, TypeOK, Command
    <2> QED BY <2>2, <2>3, OthersBased
<1>11. ASSUME NEW p \in Procs, Break(p) \/ Done(p) PROVE BasedInv'
    <2>1. TypeOK /\ Counted(p) /\ BasedOf(p)
        BY DEF CountInv, BasedInv
    <2>2. BasedOf(p)'
        BY <1>11, <2>1 DEF Break, Done, Return, TypeOK, BasedOf
    <2>3. \A q \in Procs \ {p} : Command(q)' = Command(q) /\ based'[q] =
          based[q]
        BY <1>11, <2>1 DEF Break, Done, Return, TypeOK, Command
    <2> QED BY <2>2, <2>3, OthersBased
<1>12. ASSUME NEW p \in Procs, Decide(p) PROVE BasedInv'
    <2>1. TypeOK /\ WordOf(p)
        BY DEF CountInv, WordInv
    <2>2. pc[p] = "run" /\ p \in Writers
        BY <1>12 DEF Decide, Changes
    <2>3. CASE ActionOf(p) \in Changing
        <3>1. word[p] \in Words /\ ActionOf(p) \in Guess[word[p]]
            BY <2>1, <2>2 DEF WordOf, ActionOf
        <3>2. word[p] \in Lockable
            BY <2>3, <3>1 DEF SpelledOut
        <3> QED BY <1>12, <2>1, <2>2, <3>2, OthersBased
                DEF Decide, TypeOK, WordOf, BasedOf, Command
    <2>4. CASE execs[p] > 0
        BY <1>12, <2>1, <2>2, <2>4, OthersBased DEF Decide, TypeOK, BasedOf,
           Command
    <2> QED BY <1>12, <2>3, <2>4 DEF Decide, Changes
<1>13. ASSUME NEW p \in Procs, Change(p) PROVE BasedInv'
    <2>1. based[p] # "nothing"
        BY <1>13 DEF Change
    <2>2. \A q \in Procs : q # p => based[q] = "nothing"
        BY <2>1, BasedHolds
    <2>3. based' = based
        BY <1>13, <2>2 DEF Change, CountInv, TypeOK
    <2> QED BY <1>13, <2>3 DEF Change, BasedInv, BasedOf
<1>14. ASSUME NEW p \in Procs, ExecBegin(p) PROVE BasedInv'
    <2>1. TypeOK /\ BasedOf(p) /\ execs[p] \in Nat /\ nlocked[p] \in Nat
        BY DEF CountInv, BasedInv, TypeOK
    <2>2. execs[p] + 1 \in Nat /\ execs[p] + 1 > 0
        BY <2>1
    <2>3. locked' = locked /\ based' = based /\ Enter(p, execs[p] + 1)
        BY <1>14 DEF ExecBegin
    <2>4. BasedOf(p)'
        <3>1. CASE based[p] = "nothing"
            BY <2>3, <3>1 DEF BasedOf
        <3>2. CASE based[p] # "nothing"
            <4>1. nlocked[p] # 0
                BY <2>1, <3>2, BasedHolds
            <4>2. pc'[p] = "run"
                <5>1. Resume(execs[p] + 1) = "run"
                    BY <2>1, <2>2 DEF Resume
                <5> QED BY <2>1, <2>3, <4>1, <5>1 DEF Enter, TypeOK
            <4>3. execs'[p] > 0
                BY <2>1, <2>2, <2>3 DEF Enter, TypeOK
            <4> QED BY <2>1, <2>3, <3>2, <4>2, <4>3 DEF BasedOf
        <3> QED BY <3>1, <3>2
    <2>5. \A q \in Procs \ {p} : Command(q)' = Command(q) /\ based'[q] =
          based[q]
        BY <1>14, <2>1, <2>2, <2>3, EnterType DEF ExecBegin, Command
    <2> QED BY <2>4, <2>5, OthersBased
<1>15. ASSUME NEW p \in Procs, ExecReturn(p) PROVE BasedInv'
    <2>1. TypeOK /\ BasedOf(p) /\ execs[p] \in Nat
        BY DEF CountInv, BasedInv, TypeOK
    <2>2. execs'[p] = execs[p] - 1 /\ execs[p] > 0
          /\ UNCHANGED <<pc, locked>>
        BY <1>15, <2>1 DEF ExecReturn, TypeOK
    <2>3. BasedOf(p)'
        <3>1. CASE execs[p] = 1 /\ ~locked[p]
            BY <1>15, <2>1, <3>1 DEF ExecReturn, TypeOK, BasedOf
        <3>2. CASE ~(execs[p] = 1 /\ ~locked[p])
            <4>1. based' = based
                BY <1>15, <3>2 DEF ExecReturn
            <4>2. locked[p] \/ execs'[p] > 0
                BY <2>1, <2>2, <3>2
            <4> QED BY <2>1, <2>2, <4>1, <4>2 DEF BasedOf
        <3> QED BY <3>1, <3>2
    <2>4. \A q \in Procs \ {p} : Command(q)' = Command(q) /\ based'[q] =
          based[q]
        BY <1>15, <2>1 DEF ExecReturn, TypeOK, Command
    <2> QED BY <2>3, <2>4, OthersBased
<1> QED
    BY <1>1, <1>2, <1>3, <1>4, <1>8, <1>9, <1>10, <1>11, <1>12, <1>13, <1>14,
       <1>15
    DEF Next, Quit, Kill, Finish, ExecEnd, ExecFail

-----------------------------------------------------------------------------
(* Where what a prompted process is told to do is in order no scope is left *)
(* open, though taking the lock may fail.                                   *)

\* A step of another process leaves the scopes of q as they are.
Kept(q) ==
    /\ pc'[q] = pc[q] /\ locked'[q] = locked[q] /\ execs'[q] = execs[q]
    /\ nlocked'[q] = nlocked[q] /\ lockfd'[q] = lockfd[q]
    /\ holder' = q <=> holder = q

\* A step of one process leaves the scopes of the others as they are.
LEMMA OthersPrompt ==
    ASSUME PromptInv, NEW p \in Procs, Aside(p)', p \in Prompted =>
       PromptOf(p)',
           \A q \in Procs \ {p} : Kept(q)
    PROVE  PromptInv'
<1> SUFFICES ASSUME NEW q \in Procs, q # p
             PROVE  Aside(q)' /\ (q \in Prompted => PromptOf(q)')
    BY ConfigAssumption DEF PromptInv
<1>2. Kept(q)
    OBVIOUS
<1> QED BY <1>2 DEF Kept, PromptInv, PromptOf, Aside

\* No step leaves a scope of a prompted process open at its prompt.
LEMMA NextPrompt ==
    ASSUME Orderly, CountInv, WordInv, PromptInv, [Next]_vars
    PROVE  PromptInv'
<1> USE ConfigAssumption
<1>0. ASSUME NEW p \in Procs
      PROVE  /\ TypeOK /\ Counted(p) /\ Aside(p) /\ WordOf(p)
             /\ p \in Prompted => PromptOf(p)
             /\ execs[p] \in Nat /\ nlocked[p] \in Nat
             /\ locked[p] \in BOOLEAN /\ lockfd[p] \in BOOLEAN
    BY DEF CountInv, TypeOK, WordInv, PromptInv
<1>1. CASE UNCHANGED vars
    BY <1>1 DEF vars, PromptInv, PromptOf, Aside
<1>2. ASSUME NEW p \in Procs, Exit(p) PROVE PromptInv'
    <2>1. TypeOK
        BY <1>0
    <2>2. pc'[p] = "off" /\ holder' # p
        BY <1>2, <2>1 DEF Exit, TypeOK
    <2>3. \A q \in Procs \ {p} : Kept(q)
        <3>1. holder' = holder \/ (holder = p /\ holder' = None)
            BY <1>2 DEF Exit
        <3>2. ASSUME NEW q \in Procs \ {p}
              PROVE  /\ pc'[q] = pc[q] /\ locked'[q] = locked[q]
                     /\ execs'[q] = execs[q] /\ nlocked'[q] = nlocked[q]
                     /\ lockfd'[q] = lockfd[q]
            BY <1>2, <2>1 DEF Exit, TypeOK
        <3> QED BY <3>1, <3>2 DEF Kept
    <2> QED BY <2>2, <2>3, OthersPrompt DEF PromptOf, Aside
<1>3. ASSUME NEW p \in Procs, Start(p) PROVE PromptInv'
    <2>1. TypeOK
        BY <1>0
    <2>2. pc[p] = "off" /\ pc'[p] = "prompt" /\ holder' = holder
        BY <1>3, <2>1 DEF Start, TypeOK
    <2>3. \A q \in Procs \ {p} : Kept(q)
        BY <1>3, <2>1 DEF Start, TypeOK, Kept
    <2>4. holder # p
        BY <1>0, <2>2 DEF Aside
    <2> QED BY <2>2, <2>3, <2>4, OthersPrompt DEF PromptOf, Aside
<1>4. ASSUME NEW p \in Procs, NEW w \in Words, Type(p, w) PROVE PromptInv'
    <2>1. TypeOK
        BY <1>0
    <2>2. pc[p] = "prompt" /\ holder' = holder
        BY <1>4 DEF Type, Enter
    <2>3. holder # p
        BY <1>0, <2>2 DEF Aside
    <2>4. pc'[p] \in {"find", "trying"}
        BY <1>4, <2>1 DEF Type, Enter, Resume, TypeOK
    <2>5. pc'[p] = "trying" =>
            lockfd'[p] = TRUE /\ locked'[p] = TRUE /\ execs'[p] = 0
        BY <1>4, <2>1 DEF Type, Enter, Resume, TypeOK
    <2>6. \A q \in Procs \ {p} : Kept(q)
        BY ZenonT(60), <1>4, <2>1 DEF Type, Enter, TypeOK, Kept
    <2> QED BY <2>2, <2>3, <2>4, <2>5, <2>6, OthersPrompt DEF PromptOf, Aside
<1>5. ASSUME NEW p \in Procs, ExecBegin(p) PROVE PromptInv'
    <2>1. TypeOK /\ execs[p] \in Nat /\ nlocked[p] \in Nat
        BY <1>0
    <2>2. /\ pc[p] = "run" /\ locked' = locked /\ holder' = holder
          /\ execs'[p] = execs[p] + 1 /\ nlocked'[p] = nlocked[p] + 1
        BY <1>5, <2>1 DEF ExecBegin, Enter, TypeOK
    <2>3. \A q \in Procs \ {p} : Kept(q)
        BY <1>5, <2>1 DEF ExecBegin, Enter, TypeOK, Kept
    <2>4. pc'[p] \in {"run", "trying"}
        <3>1. Resume(execs[p] + 1) = "run"
            BY <2>1 DEF Resume
        <3> QED BY <1>5, <2>1, <3>1 DEF ExecBegin, Enter, TypeOK
    <2>5. Aside(p)'
        BY <2>4 DEF Aside
    <2>6. ASSUME p \in Prompted, pc'[p] = "trying" PROVE PromptOf(p)'
        <3>1. nlocked[p] = 0 /\ lockfd'[p] = TRUE
            BY <1>5, <2>1, <2>6 DEF ExecBegin, Enter, Resume, TypeOK
        <3>2. holder # p
            BY <1>0, <2>6, <3>1 DEF PromptOf
        <3>3. execs[p] = 0 /\ locked[p] = FALSE
            BY <1>0, <2>1, <3>1 DEF Counted
        <3> QED BY <2>2, <2>6, <3>1, <3>2, <3>3 DEF PromptOf
    <2>7. ASSUME p \in Prompted, pc'[p] = "run" PROVE PromptOf(p)'
        <3>1. lockfd' = lockfd
            BY <1>5, <2>1, <2>7 DEF ExecBegin, Enter, TypeOK
        <3>2. holder = p => PromptOf(p) /\ nlocked[p] + 1 > 0
            BY <1>0, <2>1, <2>7
        <3> QED BY <2>1, <2>2, <2>7, <3>1, <3>2 DEF PromptOf
    <2> QED BY <2>3, <2>4, <2>5, <2>6, <2>7, OthersPrompt
<1>6. ASSUME NEW p \in Procs, NEW h, Granted(p, h), pc[p] \in {"trying",
      "waiting"},
             h = holder \/ (h = p /\ holder \in {None, p})
      PROVE  PromptInv'
    <2>1. TypeOK
        BY <1>0
    <2>2. /\ pc'[p] \in {"find", "run"} /\ holder' = h
          /\ UNCHANGED <<locked, execs, nlocked, lockfd>>
        BY <1>6, <2>1 DEF Granted, Resume, TypeOK
    <2>3. \A q \in Procs \ {p} : Kept(q)
        BY <1>6, <2>1 DEF Granted, TypeOK, Kept
    <2>4. nlocked[p] = 1
        BY <1>0, <1>6 DEF Counted
    <2>5. p \in Prompted =>
            /\ lockfd[p] /\ locked[p] => execs[p] = 0
            /\ ~locked[p] => execs[p] = 1
        BY <1>0, <1>6 DEF PromptOf
    <2>6. p \in Prompted => lockfd[p]
        BY <1>0, <1>6 DEF PromptOf
    <2>7. p \in Prompted => PromptOf(p)'
        BY <2>2, <2>4, <2>5, <2>6 DEF PromptOf
    <2> QED BY <2>2, <2>3, <2>7, OthersPrompt DEF Aside
<1>7. ASSUME NEW p \in Procs, LockError(p), pc[p] \in {"trying", "waiting"}
      PROVE  PromptInv'
    <2>1. CASE execs[p] = 0
        BY <1>2, <1>7, <2>1 DEF LockError
    <2>2. CASE execs[p] # 0
        <3>1. TypeOK
            BY <1>0
        <3>2. pc'[p] = "run" /\ holder' = holder
            BY <1>7, <2>2, <3>1 DEF LockError, TypeOK
        <3>3. \A q \in Procs \ {p} : Kept(q)
            BY <1>7, <2>2, <3>1 DEF LockError, TypeOK, Kept
        <3>4. p \in Prompted => holder # p
            BY <1>0, <1>7 DEF PromptOf
        <3> QED BY <3>2, <3>3, <3>4, OthersPrompt DEF PromptOf, Aside
    <2> QED BY <2>1, <2>2
<1>8. ASSUME NEW p \in Procs, Try(p) PROVE PromptInv'
    <2>1. CASE /\ pc' = [pc EXCEPT ![p] = "waiting"]
               /\ UNCHANGED <<word, locked, execs, left, nlocked, lockfd,
                  holder, based>>
        <3>1. TypeOK
            BY <1>0
        <3>2. pc[p] = "trying" /\ pc'[p] = "waiting"
            BY <1>8, <2>1, <3>1 DEF Try, TypeOK
        <3>3. \A q \in Procs \ {p} : Kept(q)
            BY <2>1, <3>1 DEF TypeOK, Kept
        <3>4. p \in Prompted => PromptOf(p)'
            BY <1>0, <2>1, <3>2 DEF PromptOf
        <3> QED BY <3>2, <3>3, <3>4, OthersPrompt DEF Aside
    <2>2. CASE holder \in {None, p} /\ Granted(p, p)
        BY <1>6, <1>8, <2>2 DEF Try
    <2>3. CASE Granted(p, holder)
        BY <1>6, <1>8, <2>3 DEF Try
    <2>4. CASE LockError(p)
        BY <1>7, <1>8, <2>4 DEF Try
    <2> QED BY <1>8, <2>1, <2>2, <2>3, <2>4 DEF Try
<1>9. ASSUME NEW p \in Procs, Acquire(p) \/ Interrupted(p) PROVE PromptInv'
    <2>1. CASE Acquire(p)
        BY <1>6, <2>1 DEF Acquire
    <2>2. CASE Interrupted(p)
        BY <1>7, <2>2 DEF Interrupted
    <2> QED BY <1>9, <2>1, <2>2
<1>10. ASSUME NEW p \in Procs, Find(p) PROVE PromptInv'
    <2>1. TypeOK
        BY <1>0
    <2>2. /\ pc[p] = "find" /\ pc'[p] = "run"
          /\ UNCHANGED <<locked, execs, nlocked, lockfd, holder>>
        BY <1>10, <2>1 DEF Find, TypeOK
    <2>3. \A q \in Procs \ {p} : Kept(q)
        BY <1>10, <2>1 DEF Find, TypeOK, Kept
    <2>4. p \in Prompted => PromptOf(p)'
        BY <1>0, <2>2 DEF PromptOf
    <2> QED BY <2>2, <2>3, <2>4, OthersPrompt DEF Aside
<1>11. ASSUME NEW p \in Procs, Break(p) PROVE PromptInv'
    <2>1. TypeOK
        BY <1>0
    <2>2. /\ pc[p] = "find" /\ holder' = holder
          /\ pc'[p] = IF p \in Prompted THEN "prompt" ELSE "ended"
        BY <1>11, <2>1 DEF Break, Return, TypeOK
    <2>3. \A q \in Procs \ {p} : Kept(q)
        BY <1>11, <2>1 DEF Break, Return, TypeOK, Kept
    <2>4. ASSUME p \in Prompted PROVE holder # p
        <3>1. Cardinality(Guess[word[p]]) # 1
            BY <1>11, <2>4 DEF Break, Orderly
        <3>2. locked[p] = FALSE
            BY <1>0, <2>2, <3>1 DEF WordOf, Orderly
        <3>3. execs[p] = 0
            BY <1>0, <2>2 DEF Counted
        <3> QED BY <1>0, <2>4, <3>2, <3>3 DEF PromptOf
    <2> QED BY <2>2, <2>3, <2>4, OthersPrompt DEF PromptOf, Aside
<1>12. ASSUME NEW p \in Procs, Done(p) PROVE PromptInv'
    <2>1. TypeOK
        BY <1>0
    <2>2. /\ execs[p] = 0 /\ holder' \in {holder, None}
          /\ pc'[p] = IF p \in Prompted THEN "prompt" ELSE "ended"
        BY <1>12, <2>1 DEF Done, Return, LeaveLock, TypeOK
    <2>3. \A q \in Procs \ {p} : Kept(q)
        <3>1. holder' = holder \/ (holder = p /\ holder' = None)
            BY <1>12 DEF Done, LeaveLock
        <3>2. ASSUME NEW q \in Procs \ {p}
              PROVE  /\ pc'[q] = pc[q] /\ locked'[q] = locked[q]
                     /\ execs'[q] = execs[q] /\ nlocked'[q] = nlocked[q]
                     /\ lockfd'[q] = lockfd[q]
            BY <1>12, <2>1 DEF Done, Return, LeaveLock, TypeOK
        <3> QED BY <3>1, <3>2 DEF Kept
    <2>4. ASSUME p \in Prompted PROVE holder' # p
        <3>1. holder = p => locked[p] /\ nlocked[p] = 1 /\ lockfd[p]
            BY <1>0, <2>2, <2>4 DEF PromptOf
        <3> QED BY <1>12, <2>2, <3>1 DEF Done, LeaveLock
    <2> QED BY <2>2, <2>3, <2>4, OthersPrompt DEF PromptOf, Aside
<1>13. ASSUME NEW p \in Procs, Decide(p) \/ Change(p) PROVE PromptInv'
    BY <1>13 DEF Decide, Change, PromptInv, PromptOf, Aside
<1>14. ASSUME NEW p \in Procs, ExecEnd(p) PROVE PromptInv'
    <2>1. TypeOK /\ execs[p] \in Nat /\ nlocked[p] \in Nat
        BY <1>0
    <2>2. /\ pc[p] = "run" /\ pc'[p] = "run" /\ UNCHANGED <<locked, lockfd>>
          /\ execs[p] > 0 /\ execs'[p] = execs[p] - 1 /\ nlocked'[p] =
             nlocked[p] - 1
        BY <1>14, <2>1 DEF ExecEnd, ExecReturn, LeaveLock, TypeOK
    <2>3. \A q \in Procs \ {p} : Kept(q)
        <3>1. holder' = holder \/ (holder = p /\ holder' = None)
            BY <1>14 DEF ExecEnd, LeaveLock
        <3>2. ASSUME NEW q \in Procs \ {p}
              PROVE  /\ pc'[q] = pc[q] /\ locked'[q] = locked[q]
                     /\ execs'[q] = execs[q] /\ nlocked'[q] = nlocked[q]
                     /\ lockfd'[q] = lockfd[q]
            BY <1>14, <2>1 DEF ExecEnd, ExecReturn, LeaveLock, TypeOK
        <3> QED BY <3>1, <3>2 DEF Kept
    <2>4. ASSUME p \in Prompted, holder' = p PROVE holder = p /\ nlocked[p] # 1
        <3>1. holder = p
            BY <1>14, <2>4 DEF ExecEnd, LeaveLock
        <3>2. lockfd[p]
            BY <1>0, <2>4, <3>1 DEF PromptOf
        <3> QED BY <1>14, <2>4, <3>1, <3>2 DEF ExecEnd, LeaveLock
    <2>5. p \in Prompted => PromptOf(p)'
        BY <1>0, <2>1, <2>2, <2>4 DEF PromptOf
    <2> QED BY <2>2, <2>3, <2>5, OthersPrompt DEF Aside
<1>15. ASSUME NEW p \in Procs, ExecFail(p) PROVE PromptInv'
    <2>1. TypeOK /\ p \notin Prompted
        BY <1>0, <1>15 DEF ExecFail, Orderly
    <2>2. pc'[p] = "run"
        BY <1>15, <2>1 DEF ExecFail, ExecReturn, TypeOK
    <2>3. \A q \in Procs \ {p} : Kept(q)
        BY <1>15, <2>1 DEF ExecFail, ExecReturn, TypeOK, Kept
    <2> QED BY <2>1, <2>2, <2>3, OthersPrompt DEF Aside
<1> QED
    BY <1>1, <1>2, <1>3, <1>4, <1>5, <1>8, <1>9, <1>10, <1>11, <1>12, <1>13,
       <1>14, <1>15 DEF Next, Quit, Kill, Finish

-----------------------------------------------------------------------------
LEMMA InitInv == ASSUME Init PROVE CountInv /\ HolderInv /\ WordInv /\ BasedInv
<1>1. TypeOK
    BY DEF Init, TypeOK
<1>2. ASSUME NEW p \in Procs
      PROVE  /\ pc[p] = "off" /\ locked[p] = FALSE /\ execs[p] = 0
             /\ nlocked[p] = 0 /\ based[p] = "nothing"
    BY DEF Init
<1>3. ASSUME NEW p \in Procs PROVE Counted(p) /\ ~Inside(p)
    <2>1. /\ pc[p] = "off" /\ locked[p] = FALSE /\ execs[p] = 0
          /\ nlocked[p] = 0
        BY <1>2
    <2> QED BY <2>1 DEF Counted, Inside
<1>4. HolderInv
    BY <1>3, ConfigAssumption DEF HolderInv
<1>5. WordInv /\ BasedInv
    BY <1>2 DEF WordInv, WordOf, BasedInv, BasedOf
<1> QED BY <1>1, <1>3, <1>4, <1>5 DEF CountInv

\* Every variable stays in its set: in particular nlocked never becomes
\* negative, so exclusive_unlock never has to warn that it was called more
\* often than exclusive_lock. Holds whatever flock does.
THEOREM TypeCorrect == Spec => []TypeOK
<1>1. Init => CountInv
    BY InitInv
<1>2. CountInv /\ [Next]_vars => CountInv'
    BY NextCount
<1>3. CountInv => TypeOK
    BY DEF CountInv
<1> QED BY <1>1, <1>2, <1>3, PTL DEF Spec

\* While flock fails for no reason but EAGAIN, at most one writer is inside.
THEOREM MutualExclusionCorrect == ASSUME Faults = {} PROVE Spec =>
   []MutualExclusion
<1>1. Init => CountInv /\ HolderInv
    BY InitInv
<1>2. CountInv /\ HolderInv /\ [Next]_vars => (CountInv /\ HolderInv)'
    BY NextCount, NextHolder
<1>3. HolderInv => MutualExclusion
    BY DEF HolderInv, MutualExclusion
<1> QED BY <1>1, <1>2, <1>3, PTL DEF Spec

\* Under the same condition the lock is held as long as any scope is open.
THEOREM ScopesHeldCorrect == ASSUME Faults = {} PROVE Spec => []ScopesHeld
<1>1. Init => CountInv /\ HolderInv
    BY InitInv
<1>2. CountInv /\ HolderInv /\ [Next]_vars => (CountInv /\ HolderInv)'
    BY NextCount, NextHolder
<1>3. CountInv /\ HolderInv => ScopesHeld
    <2> SUFFICES ASSUME CountInv, HolderInv, NEW p \in Writers, Scopes(p) > 0
                 PROVE  holder = p
        BY DEF ScopesHeld
    <2>1. p \in Procs
        BY ConfigAssumption
    <2>2. Counted(p) /\ execs[p] \in Nat /\ nlocked[p] \in Nat
        BY <2>1 DEF CountInv, TypeOK
    <2>3. pc[p] \in {"find", "run"} /\ (locked[p] \/ execs[p] > 0)
        BY <2>2 DEF Scopes
    <2>4. nlocked[p] > 0
        BY <2>2, <2>3 DEF Counted
    <2> QED BY <2>3, <2>4 DEF HolderInv, Inside
<1> QED BY <1>1, <1>2, <1>3, PTL DEF Spec

\* Under the same condition, and with every command spelled out, no process
\* acts on what another process has changed meanwhile.
THEOREM DecisionsCurrentCorrect ==
    ASSUME Faults = {}, SpelledOut PROVE Spec => []DecisionsCurrent
<1> DEFINE IInv == CountInv /\ HolderInv /\ WordInv /\ BasedInv
<1>1. Init => IInv
    BY InitInv
<1>2. IInv /\ [Next]_vars => IInv'
    BY NextCount, NextHolder, NextWord, NextBased
<1>3. IInv => DecisionsCurrent
    BY DEF BasedInv, BasedOf, DecisionsCurrent
<1> QED BY <1>1, <1>2, <1>3, PTL DEF Spec

\* All that a run checks of the lock in a process, under these conditions.
THEOREM LockKeptCorrect ==
    ASSUME Faults = {}, SpelledOut PROVE Spec => []LockKept
<1>1. TypeOK /\ ScopesHeld /\ DecisionsCurrent => LockKept
    BY DEF LockKept
<1>2. Spec => []ScopesHeld
    BY ScopesHeldCorrect
<1>3. Spec => []DecisionsCurrent
    BY DecisionsCurrentCorrect
<1> QED BY <1>1, <1>2, <1>3, TypeCorrect, PTL

\* A process that waits for its next command leaves the registry to others,
\* whatever flock does, if what it was told before was in order: every scope
\* that was opened has been closed (process_cmd, mportexec).
THEOREM PromptHoldsNothingCorrect ==
    ASSUME Orderly PROVE Spec => []PromptHoldsNothing
<1> DEFINE IInv == CountInv /\ WordInv /\ PromptInv
<1>1. Init => IInv
    <2> SUFFICES ASSUME Init PROVE PromptInv
        BY InitInv
    <2> QED BY ConfigAssumption DEF Init, PromptInv, PromptOf, Aside
<1>2. IInv /\ [Next]_vars => IInv'
    BY NextCount, NextWord, NextPrompt
<1>3. IInv => PromptHoldsNothing
    <2> SUFFICES ASSUME PromptInv, NEW p \in Procs, pc[p] = "prompt"
                 PROVE  holder # p
        BY DEF PromptHoldsNothing
    <2> QED BY DEF PromptInv, Aside
<1> QED BY <1>1, <1>2, <1>3, PTL DEF Spec
=============================================================================
