--------------------------- MODULE DaemondoProofs ---------------------------
(***************************************************************************)
(* Proofs about Daemondo, for any number of processes, notifications and   *)
(* signals. A daemon that daemondo runs itself is at every moment either   *)
(* the process that was just started or the one it follows; and once       *)
(* SIGTERM was taken the thread can only be in the stop it began, or on    *)
(* its way out.                                                            *)
(***************************************************************************)
EXTENDS Daemondo, FiniteSetTheorems, TLAPS

\* A process has a role as long as it is known; kevents are of the dead.
LifeInv ==
    /\ \A p \in Pids : role[p] = "unused" <=> life[p] = "unused"
    /\ \A p \in events : life[p] \in {"zombie", "gone"}

\* The styles that have no commands wait for no commands.
StyleInv ==
    /\ pc = "poll" => FileStyle
    /\ pidStyle = "exec" =>
        /\ ~stopCmd /\ ~restartCmd
        /\ \A p \in Pids : role[p] \in {"unused", "daemon"}
        /\ pc = "wait" => job = "stop"

\* SIGTERM has been taken.
TermInv == terminating =>
    /\ pc \in {"loop", "wait", "ended"}
    /\ ~restarting /\ ~stay
    /\ pc = "wait" => job = "stop"

\* What is followed, in the style in which daemondo runs the daemon itself.
FollowInv == pidStyle = "exec" =>
    /\ pidFile = runningPid
    /\ runningPid \in Pids \cup {0}
    /\ pc \in {"start", "pause", "track", "ended"} => runningPid = 0
    /\ pc \in {"track", "wait"} => target \in Pids
    /\ pc = "wait" => runningPid \in {0, target}
    /\ pc = "loop" /\ terminating => runningPid = 0

\* Where a daemon may be alive.
AliveInv == pidStyle = "exec" =>
    \A p \in Daemons :
        \/ pc = "track" /\ target = p
        \/ pc \in {"loop", "wait"} /\ runningPid = p

IInv == TypeOK /\ LifeInv /\ StyleInv /\ TermInv /\ FollowInv /\ AliveInv
-----------------------------------------------------------------------------
\* Types: a waiting thread has a process to wait for, and the pid file names one.
LEMMA NextType ==
    ASSUME TypeOK, StyleInv, FollowInv, [Next]_vars PROVE TypeOK'
<1> USE DaemondoAssumption DEF TypeOK, StyleInv, FollowInv, Pids, Unknown,
      options, thread, system, input
<1>1. ASSUME NEW p \in Pids, Start(p) PROVE TypeOK'
  BY <1>1 DEF Start, Fork
<1>2. CASE StartFails
  <2>1. restarting' \in BOOLEAN /\ stay' \in BOOLEAN /\ terminating' \in BOOLEAN /\
        restartTimer' \in BOOLEAN
    BY <1>2, Zenon DEF StartFails, StartReturns
  <2>2. pc' \in {"start", "poll", "track", "loop", "wait", "pause", "ended"}
    BY <1>2, Zenon DEF StartFails, StartReturns
  <2>3. job' \in {"start", "stop", "restart"} /\ target' \in 0..Unknown
    BY <1>2 DEF StartFails, StartReturns
  <2> QED
    BY <1>2, <2>1, <2>2, <2>3 DEF StartFails, StartReturns
<1>3. CASE FindPid
  BY <1>3 DEF FindPid
<1>4. CASE LosePatience
  BY <1>4 DEF LosePatience, StartReturns
<1>5. CASE Track
  <2>1. restarting' \in BOOLEAN /\ stay' \in BOOLEAN /\ terminating' \in BOOLEAN /\
        restartTimer' \in BOOLEAN
    BY <1>5, Zenon DEF Track, StartReturns
  <2>2. pc' \in {"start", "poll", "track", "loop", "wait", "pause", "ended"}
    BY <1>5, Zenon DEF Track, StartReturns
  <2>3. job' \in {"start", "stop", "restart"} /\ target' \in 0..Unknown
    BY <1>5 DEF Track, StartReturns
  <2>4. watched' \subseteq Pids /\ events' \subseteq watched'
    BY <1>5 DEF Track, StartReturns
  <2>5. pidFile' \in 0..LastPid /\ runningPid' \in 0..Unknown
    BY <1>5 DEF Track, StartReturns
  <2> QED
    BY <1>5, <2>1, <2>2, <2>3, <2>4, <2>5 DEF Track, StartReturns
<1>6. CASE Pause
  BY <1>6 DEF Pause
<1>7. CASE WaitEnds
  <2>1. restarting' \in BOOLEAN /\ stay' \in BOOLEAN /\ terminating' \in BOOLEAN /\
        restartTimer' \in BOOLEAN
    BY <1>7, Zenon DEF WaitEnds, StopReturns, ProcessChildDeath, Forget
  <2>2. pc' \in {"start", "poll", "track", "loop", "wait", "pause", "ended"}
    BY <1>7, Zenon DEF WaitEnds, StopReturns, ProcessChildDeath, Forget
  <2>3. job' \in {"start", "stop", "restart"} /\ target' \in 0..Unknown
    BY <1>7 DEF WaitEnds, StopReturns, ProcessChildDeath, Forget
  <2>4. life' \in [Pids -> {"unused", "alive", "zombie", "gone"}]
    BY <1>7 DEF WaitEnds, StopReturns, ProcessChildDeath, Forget
  <2>5. pidFile' \in 0..LastPid /\ runningPid' \in 0..Unknown
    BY <1>7 DEF WaitEnds, StopReturns, ProcessChildDeath, Forget
  <2> QED
    BY <1>7, <2>1, <2>2, <2>3, <2>4, <2>5 DEF WaitEnds, StopReturns,
       ProcessChildDeath, Forget
<1>8. CASE KillTarget
  BY <1>8 DEF KillTarget, Dies
<1>9. CASE End
  BY <1>9 DEF End, Looping
<1>10. ASSUME NEW p \in Pids, KQueueCallBack(p) PROVE TypeOK'
  BY <1>10 DEF KQueueCallBack, ProcessChildDeath, Forget, Handled, Looping
<1>11. CASE CheckChildren
  BY <1>11 DEF CheckChildren, ProcessChildDeath, Forget, Handled, Looping
<1>12. CASE Terminate
  <2>1. restarting' \in BOOLEAN /\ stay' \in BOOLEAN /\ terminating' \in BOOLEAN /\
        restartTimer' \in BOOLEAN
    BY <1>12, Zenon DEF Terminate, CalledBy, Stop, StopReturns, Fork, Looping
  <2>2. pc' \in {"start", "poll", "track", "loop", "wait", "pause", "ended"}
    BY <1>12, Zenon DEF Terminate, CalledBy, Stop, StopReturns, Fork, Looping
  <2>3. job' \in {"start", "stop", "restart"} /\ target' \in 0..Unknown
    BY <1>12 DEF Terminate, CalledBy, Stop, StopReturns, Fork, Looping
  <2> QED
    BY <1>12, <2>1, <2>2, <2>3 DEF Terminate, CalledBy, Stop, StopReturns, Fork,
       Looping
<1>13. CASE HangUp
  <2>1. restarting' \in BOOLEAN /\ stay' \in BOOLEAN /\ terminating' \in BOOLEAN /\
        restartTimer' \in BOOLEAN
    BY <1>13, Zenon DEF HangUp, CalledBy, Restart, Stop, StopReturns, Fork,
       Looping
  <2>2. pc' \in {"start", "poll", "track", "loop", "wait", "pause", "ended"}
    BY <1>13, Zenon DEF HangUp, CalledBy, Restart, Stop, StopReturns, Fork,
       Looping
  <2>3. job' \in {"start", "stop", "restart"} /\ target' \in 0..Unknown
    BY <1>13 DEF HangUp, CalledBy, Restart, Stop, StopReturns, Fork, Looping
  <2> QED
    BY <1>13, <2>1, <2>2, <2>3 DEF HangUp, CalledBy, Restart, Stop, StopReturns,
       Fork, Looping
<1>14. CASE TimerFires
  <2>1. restarting' \in BOOLEAN /\ stay' \in BOOLEAN /\ terminating' \in BOOLEAN /\
        restartTimer' \in BOOLEAN
    BY <1>14, Zenon DEF TimerFires, CalledBy, Restart, Stop, StopReturns, Fork,
       Looping
  <2>2. pc' \in {"start", "poll", "track", "loop", "wait", "pause", "ended"}
    BY <1>14, Zenon DEF TimerFires, CalledBy, Restart, Stop, StopReturns, Fork,
       Looping
  <2>3. job' \in {"start", "stop", "restart"} /\ target' \in 0..Unknown
    BY <1>14 DEF TimerFires, CalledBy, Restart, Stop, StopReturns, Fork, Looping
  <2> QED
    BY ZenonT(60), <1>14, <2>1, <2>2, <2>3 DEF TimerFires, CalledBy, Restart, Stop,
       StopReturns, Fork, Looping
<1>15. CASE SendTerm
  BY <1>15 DEF SendTerm
<1>16. CASE SendHup
  BY <1>16 DEF SendHup
<1>17. CASE Notified
  BY <1>17 DEF Notified, Handled, Looping
<1>18. ASSUME NEW p \in Pids, DaemonDies(p) PROVE TypeOK'
  BY <1>18 DEF DaemonDies, Dies, Daemons
<1>19. ASSUME NEW p \in Pids, CommandEnds(p) PROVE TypeOK'
  BY <1>19 DEF CommandEnds, Dies
<1>20. ASSUME NEW p \in Pids, NEW d \in Pids, Launch(p, d) PROVE TypeOK'
  BY <1>20 DEF Launch, Fork
<1>21. CASE UNCHANGED vars
  BY <1>21 DEF vars
<1> QED
  BY <1>1, <1>2, <1>3, <1>4, <1>5, <1>6, <1>7, <1>8, <1>9, <1>10, <1>11, <1>12,
     <1>13, <1>14, <1>15, <1>16, <1>17, <1>18, <1>19, <1>20, <1>21 DEF Next,
     Thread, Environment, Ended

\* A kevent that was read or is to be read is that of a process that has died.
LEMMA NextLife ==
    ASSUME TypeOK, LifeInv, [Next]_vars PROVE LifeInv'
<1> USE DaemondoAssumption DEF TypeOK, LifeInv, OwnChild, options, thread,
      system, input
<1>1. ASSUME NEW p \in Pids, Start(p) PROVE LifeInv'
  BY <1>1 DEF Start, Fork
<1>2. CASE StartFails
  BY <1>2 DEF StartFails, StartReturns
<1>3. CASE FindPid
  BY <1>3 DEF FindPid
<1>4. CASE LosePatience
  BY <1>4 DEF LosePatience, StartReturns
<1>5. CASE Track
  BY <1>5 DEF Track, StartReturns
<1>6. CASE Pause
  BY <1>6 DEF Pause
<1>7. CASE WaitEnds
  BY <1>7 DEF WaitEnds, StopReturns, ProcessChildDeath, Forget
<1>8. CASE KillTarget
  BY <1>8 DEF KillTarget, Dies
<1>9. CASE End
  BY <1>9 DEF End, Looping
<1>10. ASSUME NEW p \in Pids, KQueueCallBack(p) PROVE LifeInv'
  BY <1>10 DEF KQueueCallBack, ProcessChildDeath, Forget, Handled, Looping
<1>11. CASE CheckChildren
  BY <1>11 DEF CheckChildren, ProcessChildDeath, Forget, Handled, Looping
<1>12. CASE Terminate
  BY <1>12 DEF Terminate, CalledBy, Stop, StopReturns, Fork, Looping
<1>13. CASE HangUp
  BY <1>13 DEF HangUp, CalledBy, Restart, Stop, StopReturns, Fork, Looping
<1>14. CASE TimerFires
  BY <1>14 DEF TimerFires, CalledBy, Restart, Stop, StopReturns, Fork, Looping
<1>15. CASE SendTerm
  BY <1>15 DEF SendTerm
<1>16. CASE SendHup
  BY <1>16 DEF SendHup
<1>17. CASE Notified
  BY <1>17 DEF Notified, Handled, Looping
<1>18. ASSUME NEW p \in Pids, DaemonDies(p) PROVE LifeInv'
  BY <1>18 DEF DaemonDies, Dies, Daemons
<1>19. ASSUME NEW p \in Pids, CommandEnds(p) PROVE LifeInv'
  BY <1>19 DEF CommandEnds, Dies
<1>20. ASSUME NEW p \in Pids, NEW d \in Pids, Launch(p, d) PROVE LifeInv'
  BY <1>20 DEF Launch, Fork
<1>21. CASE UNCHANGED vars
  BY <1>21 DEF vars
<1> QED
  BY <1>1, <1>2, <1>3, <1>4, <1>5, <1>6, <1>7, <1>8, <1>9, <1>10, <1>11, <1>12,
     <1>13, <1>14, <1>15, <1>16, <1>17, <1>18, <1>19, <1>20, <1>21 DEF Next,
     Thread, Environment, Ended

\* No step leaves the ways of the pid style the program was started with.
LEMMA NextStyle ==
    ASSUME TypeOK, StyleInv, [Next]_vars PROVE StyleInv'
<1> USE DaemondoAssumption DEF TypeOK, StyleInv, FileStyle, options, thread,
      system, input
<1>1. ASSUME NEW p \in Pids, Start(p) PROVE StyleInv'
  BY <1>1 DEF Start, Fork
<1>2. CASE StartFails
  BY <1>2 DEF StartFails, StartReturns
<1>3. CASE FindPid
  BY <1>3 DEF FindPid
<1>4. CASE LosePatience
  BY <1>4 DEF LosePatience, StartReturns
<1>5. CASE Track
  BY <1>5 DEF Track, StartReturns
<1>6. CASE Pause
  BY <1>6 DEF Pause
<1>7. CASE WaitEnds
  BY <1>7 DEF WaitEnds, StopReturns, ProcessChildDeath, Forget
<1>8. CASE KillTarget
  BY <1>8 DEF KillTarget, Dies
<1>9. CASE End
  BY <1>9 DEF End, Looping
<1>10. ASSUME NEW p \in Pids, KQueueCallBack(p) PROVE StyleInv'
  BY <1>10 DEF KQueueCallBack, ProcessChildDeath, Forget, Handled, Looping
<1>11. CASE CheckChildren
  BY <1>11 DEF CheckChildren, ProcessChildDeath, Forget, Handled, Looping
<1>12. CASE Terminate
  BY <1>12 DEF Terminate, CalledBy, Stop, StopReturns, Fork, Looping
<1>13. CASE HangUp
  BY <1>13 DEF HangUp, CalledBy, Restart, Stop, StopReturns, Fork, Looping
<1>14. CASE TimerFires
  BY <1>14 DEF TimerFires, CalledBy, Restart, Stop, StopReturns, Fork, Looping
<1>15. CASE SendTerm
  BY <1>15 DEF SendTerm
<1>16. CASE SendHup
  BY <1>16 DEF SendHup
<1>17. CASE Notified
  BY <1>17 DEF Notified, Handled, Looping
<1>18. ASSUME NEW p \in Pids, DaemonDies(p) PROVE StyleInv'
  BY <1>18 DEF DaemonDies, Dies, Daemons
<1>19. ASSUME NEW p \in Pids, CommandEnds(p) PROVE StyleInv'
  BY <1>19 DEF CommandEnds, Dies
<1>20. ASSUME NEW p \in Pids, NEW d \in Pids, Launch(p, d) PROVE StyleInv'
  BY <1>20 DEF Launch, Fork
<1>21. CASE UNCHANGED vars
  BY <1>21 DEF vars
<1> QED
  BY <1>1, <1>2, <1>3, <1>4, <1>5, <1>6, <1>7, <1>8, <1>9, <1>10, <1>11, <1>12,
     <1>13, <1>14, <1>15, <1>16, <1>17, <1>18, <1>19, <1>20, <1>21 DEF Next,
     Thread, Environment, Ended

\* After SIGTERM no source of the run loop is served but the deaths of children.
LEMMA NextTerm ==
    ASSUME TypeOK, StyleInv, TermInv, [Next]_vars PROVE TermInv'
<1> USE DaemondoAssumption DEF TypeOK, TermInv, options, thread, system, input
<1>1. ASSUME NEW p \in Pids, Start(p) PROVE TermInv'
  BY <1>1 DEF Start, Fork
<1>2. CASE StartFails
  BY <1>2 DEF StartFails, StartReturns
<1>3. CASE FindPid
  BY <1>3 DEF FindPid
<1>4. CASE LosePatience
  BY <1>4 DEF LosePatience, StartReturns
<1>5. CASE Track
  BY <1>5 DEF Track, StartReturns
<1>6. CASE Pause
  BY <1>6 DEF Pause
<1>7. CASE WaitEnds
  BY <1>7 DEF WaitEnds, StopReturns, ProcessChildDeath, Forget
<1>8. CASE KillTarget
  BY <1>8 DEF KillTarget, Dies
<1>9. CASE End
  BY <1>9 DEF End, Looping
<1>10. ASSUME NEW p \in Pids, KQueueCallBack(p) PROVE TermInv'
  BY <1>10 DEF KQueueCallBack, ProcessChildDeath, Forget, Handled, Looping
<1>11. CASE CheckChildren
  BY <1>11 DEF CheckChildren, ProcessChildDeath, Forget, Handled, Looping
<1>12. CASE Terminate
  BY <1>12 DEF Terminate, CalledBy, Stop, StopReturns, Fork, Looping
<1>13. CASE HangUp
  BY <1>13 DEF HangUp, CalledBy, Restart, Stop, StopReturns, Fork, Looping
<1>14. CASE TimerFires
  BY <1>14 DEF TimerFires, CalledBy, Restart, Stop, StopReturns, Fork, Looping
<1>15. CASE SendTerm
  BY <1>15 DEF SendTerm
<1>16. CASE SendHup
  BY <1>16 DEF SendHup
<1>17. CASE Notified
  BY <1>17 DEF Notified, Handled, Looping
<1>18. ASSUME NEW p \in Pids, DaemonDies(p) PROVE TermInv'
  BY <1>18 DEF DaemonDies, Dies, Daemons
<1>19. ASSUME NEW p \in Pids, CommandEnds(p) PROVE TermInv'
  BY <1>19 DEF CommandEnds, Dies
<1>20. ASSUME NEW p \in Pids, NEW d \in Pids, Launch(p, d) PROVE TermInv'
  BY <1>20 DEF Launch, Fork
<1>21. CASE UNCHANGED vars
  BY <1>21 DEF vars
<1> QED
  BY <1>1, <1>2, <1>3, <1>4, <1>5, <1>6, <1>7, <1>8, <1>9, <1>10, <1>11, <1>12,
     <1>13, <1>14, <1>15, <1>16, <1>17, <1>18, <1>19, <1>20, <1>21 DEF Next,
     Thread, Environment, Ended

\* Stop forgets what it has waited for, so that Start begins with nothing.
LEMMA NextFollow ==
    ASSUME TypeOK, LifeInv, StyleInv, TermInv, FollowInv, [Next]_vars PROVE
       FollowInv'
<1> USE DaemondoAssumption DEF TypeOK, LifeInv, StyleInv, TermInv, FollowInv,
      OwnChild, FileStyle, Pids, Unknown, options, thread, system, input
<1>1. ASSUME NEW p \in Pids, Start(p) PROVE FollowInv'
  BY <1>1 DEF Start, Fork
<1>2. CASE StartFails
  BY <1>2 DEF StartFails, StartReturns
<1>3. CASE FindPid
  BY <1>3 DEF FindPid
<1>4. CASE LosePatience
  BY <1>4 DEF LosePatience, StartReturns
<1>5. CASE Track
  BY <1>5 DEF Track, StartReturns
<1>6. CASE Pause
  BY <1>6 DEF Pause
<1>7. CASE WaitEnds
  <2> SUFFICES ASSUME pidStyle' = "exec" PROVE FollowInv'
    BY <1>7
  <2>1. pidStyle = "exec" /\ job = "stop" /\ target \in Pids /\ runningPid \in
        {0, target} /\ pidFile = runningPid
    BY <1>7 DEF WaitEnds
  <2>2. runningPid' = 0 /\ pidFile' = 0
    BY <1>7, <2>1 DEF WaitEnds, StopReturns, ProcessChildDeath, Forget
  <2>3. pc' \in {"pause", "loop"}
    BY <1>7, <2>1 DEF WaitEnds, StopReturns, ProcessChildDeath, Forget
  <2> QED
    BY <2>2, <2>3
<1>8. CASE KillTarget
  BY <1>8 DEF KillTarget, Dies
<1>9. CASE End
  <2>1. pc = "loop" /\ pc' = "ended" /\ UNCHANGED <<pidStyle, runningPid,
        pidFile, terminating>>
    BY <1>9 DEF End
  <2>2. terminating \/ runningPid = 0
    BY <1>9, Zenon DEF End, Looping
  <2>3. pidStyle = "exec" => runningPid = 0
    BY <2>1, <2>2, Zenon DEF FollowInv
  <2> QED
    BY <2>1, <2>3
<1>10. ASSUME NEW p \in Pids, KQueueCallBack(p) PROVE FollowInv'
  BY <1>10 DEF KQueueCallBack, ProcessChildDeath, Forget, Handled, Looping
<1>11. CASE CheckChildren
  BY <1>11 DEF CheckChildren, ProcessChildDeath, Forget, Handled, Looping
<1>12. CASE Terminate
  BY <1>12 DEF Terminate, CalledBy, Stop, StopReturns, Fork, Looping
<1>13. CASE HangUp
  BY <1>13 DEF HangUp, CalledBy, Restart, Stop, StopReturns, Fork, Looping
<1>14. CASE TimerFires
  BY <1>14 DEF TimerFires, CalledBy, Restart, Stop, StopReturns, Fork, Looping
<1>15. CASE SendTerm
  BY <1>15 DEF SendTerm
<1>16. CASE SendHup
  BY <1>16 DEF SendHup
<1>17. CASE Notified
  BY <1>17 DEF Notified, Handled, Looping
<1>18. ASSUME NEW p \in Pids, DaemonDies(p) PROVE FollowInv'
  BY <1>18 DEF DaemonDies, Dies, Daemons
<1>19. ASSUME NEW p \in Pids, CommandEnds(p) PROVE FollowInv'
  BY <1>19 DEF CommandEnds, Dies
<1>20. ASSUME NEW p \in Pids, NEW d \in Pids, Launch(p, d) PROVE FollowInv'
  BY <1>20 DEF Launch, Fork
<1>21. CASE UNCHANGED vars
  BY <1>21 DEF vars
<1> QED
  BY <1>1, <1>2, <1>3, <1>4, <1>5, <1>6, <1>7, <1>8, <1>9, <1>10, <1>11, <1>12,
     <1>13, <1>14, <1>15, <1>16, <1>17, <1>18, <1>19, <1>20, <1>21 DEF Next,
     Thread, Environment, Ended

\* A daemon is forked only when the last one is known to be dead.
LEMMA NextAlive ==
    ASSUME TypeOK, LifeInv, StyleInv, TermInv, FollowInv, AliveInv, [Next]_vars PROVE
       AliveInv'
<1> USE DaemondoAssumption DEF TypeOK, LifeInv, StyleInv, TermInv, FollowInv,
      AliveInv, OwnChild, FileStyle, Daemons, options, thread, system, input
<1>1. ASSUME NEW p \in Pids, Start(p) PROVE AliveInv'
  BY <1>1 DEF Start, Fork
<1>2. CASE StartFails
  BY <1>2 DEF StartFails, StartReturns
<1>3. CASE FindPid
  BY <1>3 DEF FindPid
<1>4. CASE LosePatience
  BY <1>4 DEF LosePatience, StartReturns
<1>5. CASE Track
  BY <1>5 DEF Track, StartReturns
<1>6. CASE Pause
  BY <1>6 DEF Pause
<1>7. CASE WaitEnds
  <2> SUFFICES ASSUME pidStyle' = "exec", NEW p \in Daemons' PROVE FALSE
    OBVIOUS
  <2>1. pidStyle = "exec" /\ pc = "wait" /\ role' = role
    BY <1>7 DEF WaitEnds
  <2>2. life[target] # "alive"
    BY <1>7, <2>1 DEF WaitEnds
  <2>3. p \in Daemons
    BY <1>7, <2>1 DEF WaitEnds
  <2>4. p \in Pids /\ life[p] = "alive" /\ p # 0
    BY <2>3 DEF Pids
  <2> QED
    BY <2>1, <2>2, <2>3, <2>4
<1>8. CASE KillTarget
  BY <1>8 DEF KillTarget, Dies
<1>9. CASE End
  <2>1. pc = "loop" /\ UNCHANGED <<pidStyle, runningPid, role, life>>
    BY <1>9 DEF End
  <2>2. terminating \/ runningPid = 0
    BY <1>9, Zenon DEF End, Looping
  <2>3. pidStyle = "exec" => runningPid = 0
    BY <2>1, <2>2, Zenon DEF FollowInv
  <2> QED
    BY <2>1, <2>3 DEF Pids
<1>10. ASSUME NEW p \in Pids, KQueueCallBack(p) PROVE AliveInv'
  BY <1>10 DEF KQueueCallBack, ProcessChildDeath, Forget, Handled, Looping
<1>11. CASE CheckChildren
  BY <1>11 DEF CheckChildren, ProcessChildDeath, Forget, Handled, Looping
<1>12. CASE Terminate
  BY <1>12 DEF Terminate, CalledBy, Stop, StopReturns, Fork, Looping
<1>13. CASE HangUp
  BY <1>13 DEF HangUp, CalledBy, Restart, Stop, StopReturns, Fork, Looping
<1>14. CASE TimerFires
  BY <1>14 DEF TimerFires, CalledBy, Restart, Stop, StopReturns, Fork, Looping
<1>15. CASE SendTerm
  BY <1>15 DEF SendTerm
<1>16. CASE SendHup
  BY <1>16 DEF SendHup
<1>17. CASE Notified
  BY <1>17 DEF Notified, Handled, Looping
<1>18. ASSUME NEW p \in Pids, DaemonDies(p) PROVE AliveInv'
  BY <1>18 DEF DaemonDies, Dies, Daemons
<1>19. ASSUME NEW p \in Pids, CommandEnds(p) PROVE AliveInv'
  BY <1>19 DEF CommandEnds, Dies
<1>20. ASSUME NEW p \in Pids, NEW d \in Pids, Launch(p, d) PROVE AliveInv'
  BY <1>20 DEF Launch, Fork
<1>21. CASE UNCHANGED vars
  BY <1>21 DEF vars
<1> QED
  BY <1>1, <1>2, <1>3, <1>4, <1>5, <1>6, <1>7, <1>8, <1>9, <1>10, <1>11, <1>12,
     <1>13, <1>14, <1>15, <1>16, <1>17, <1>18, <1>19, <1>20, <1>21 DEF Next,
     Thread, Environment, Ended

\* daemondo begins with no process.
LEMMA InitInv == Init => IInv
<1> SUFFICES ASSUME Init PROVE IInv
  OBVIOUS
<1>1. TypeOK
  <2>1. pidStyle \in Styles /\ stopCmd \in StopCmds /\ restartCmd \in BOOLEAN
    BY DEF Init
  <2>2. role \in [Pids -> {"unused", "daemon", "start", "stop", "restart"}]
    BY DEF Init
  <2>3. life \in [Pids -> {"unused", "alive", "zombie", "gone"}]
    BY DEF Init
  <2>4. 0 \in 0..Unknown /\ 0 \in 0..LastPid /\ 0 \in 0..MaxCalls
    BY DaemondoAssumption DEF Unknown
  <2> QED
    BY <2>1, <2>2, <2>3, <2>4 DEF Init, TypeOK
<1>2. LifeInv /\ TermInv
  BY DEF Init, LifeInv, TermInv
<1>3. StyleInv
  BY DEF Init, StyleInv
<1>4. FollowInv
  BY DEF Init, FollowInv
<1>5. AliveInv
  BY DEF Init, AliveInv, Daemons
<1> QED
  BY <1>1, <1>2, <1>3, <1>4, <1>5 DEF IInv

\* No two daemons are alive.
LEMMA AliveOnce == ASSUME IInv PROVE OneDaemon
<1> SUFFICES ASSUME pidStyle = "exec" PROVE Cardinality(Daemons) <= 1
  BY DEF OneDaemon
<1>1. \A p, q \in Daemons : p = q
  BY DEF IInv, AliveInv
<1>2. CASE Daemons = {}
  BY <1>2, FS_EmptySet
<1>3. CASE Daemons # {}
  <2> PICK p \in Daemons : TRUE
    BY <1>3
  <2>1. Daemons = {p}
    BY <1>1
  <2>2. Cardinality({p}) = 1
    BY FS_Singleton
  <2> QED
    BY <2>1, <2>2
<1> QED
  BY <1>2, <1>3

\* The inductive invariant holds throughout, for every pid style and every number
\* of processes and signals.
THEOREM InvCorrect == Spec => []IInv
<1>1. IInv /\ [Next]_vars => IInv'
  BY NextType, NextLife, NextStyle, NextTerm, NextFollow, NextAlive DEF IInv
<1> QED
  BY InitInv, <1>1, PTL DEF Spec

\* What the run checks: in the style in which daemondo runs the daemon itself there
\* is never a second one, the pid file names it, none is left behind at the end, and
\* nothing is started again once SIGTERM was taken (main.c).
THEOREM DaemonTrackedCorrect == Spec => []DaemonTracked
<1>1. IInv => DaemonTracked
  <2> SUFFICES ASSUME IInv PROVE DaemonTracked
    OBVIOUS
  <2>1. PidFileNamesDaemon
    BY DEF IInv, FollowInv, PidFileNamesDaemon
  <2>2. EndsWithDaemon
    BY DEF IInv, FollowInv, AliveInv, EndsWithDaemon
  <2>3. NothingAfterTerm
    BY DEF IInv, TermInv, NothingAfterTerm
  <2> QED
    BY <2>1, <2>2, <2>3, AliveOnce DEF IInv, DaemonTracked
<1> QED
  BY InvCorrect, <1>1, PTL
=============================================================================
