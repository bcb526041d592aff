--------------------------- MODULE PortImageProofs ---------------------------
(***************************************************************************)
(* Theorems about PortImage, for every set of entries, files and replaced  *)
(* ports, and every bound.                                                 *)
(***************************************************************************)
EXTENDS PortImage, SequenceTheorems, TLAPS

Rows == SUBSET (Entries \X Files \X (0..MaxStamp))

\* The innermost of some frames is a frame, and so are those below it.
LEMMA FramesNonempty == ASSUME stack \in Seq(Frames), ~Idle
                        PROVE  Top \in Frames /\ Tail(stack) \in Seq(Frames)
  BY DEF Idle, Top

\* A frame that goes on keeps the stack a sequence of frames.
LEMMA ContinueType ==
    ASSUME stack \in Seq(Frames), ~Idle, NEW fr \in Frames, Continue(fr)
    PROVE  stack' \in Seq(Frames)
<1>1. <<fr>> \in Seq(Frames) /\ Tail(stack) \in Seq(Frames)
  BY FramesNonempty
<1> QED
  BY <1>1 DEF Continue

\* So does a change of the program counter alone.
LEMMA GotoType ==
    ASSUME stack \in Seq(Frames), ~Idle, NEW pc \in Pcs, Goto(pc)
    PROVE  stack' \in Seq(Frames)
<1>1. [Top EXCEPT !.pc = pc] \in Frames
  BY FramesNonempty DEF Frames
<1> QED
  BY <1>1, ContinueType DEF Goto

\* And a call.
LEMMA CallType ==
    ASSUME NEW op \in Ops, NEW e \in Entries,
           NEW via \in {"user", "target", "direct", "name"}
    PROVE  Call(op, e, via) \in Frames
  BY PortImageAssumption DEF Call, Frames, Pcs

\* A call keeps the stack a sequence of frames.
LEMMA PushType ==
    ASSUME stack \in Seq(Frames), ~Idle, NEW fr \in Frames, NEW caller \in Frames,
           Push(fr, caller)
    PROVE  stack' \in Seq(Frames)
<1>1. <<fr, caller>> \in Seq(Frames) /\ Tail(stack) \in Seq(Frames)
  BY FramesNonempty
<1> QED
  BY <1>1 DEF Push

\* What the operators of the model return.
LEMMA OperatorTypes ==
    ASSUME TypeOK
    PROVE  /\ \A p \in Paths : Owner(p) \subseteq Entries
           /\ \A n \in Names : Installed(n) \subseteq Entries
           /\ \A e \in Entries : Image(e) \subseteq Paths /\ RowsOf(e) \subseteq active
           /\ \A f \in Files, s \in 0..MaxStamp : <<f, s>> \in Paths
  BY PortImageAssumption DEF TypeOK, Owner, Installed, Image, RowsOf, Paths
-----------------------------------------------------------------------------
\* The stack stays a sequence of frames.
LEMMA ActivateStack ==
    ASSUME TypeOK, ActivateStep PROVE stack' \in Seq(Frames)
<1> USE DEF TypeOK
<1>f. ~Idle => Top \in Frames /\ Tail(stack) \in Seq(Frames)
  BY FramesNonempty
<1>t. \A e \in Entries : Port[e] \in Names
  BY PortImageAssumption
<1>1. CASE ActivateStart
  <2> DEFINE fr == [Top EXCEPT !.pc = "others",
                               !.calls = Installed(Port[Top.ent]) \ {Top.ent}]
  <2>1. ~Idle /\ (Goto("fail") \/ Continue(fr))
    BY <1>1 DEF ActivateStart, At
  <2>2. fr \in Frames
    BY <1>f, <1>t, <2>1, OperatorTypes DEF Frames, Pcs
  <2> HIDE DEF fr
  <2> QED
    BY <2>1, <2>2, GotoType, ContinueType DEF Pcs
<1>2. CASE OthersDone \/ ClaimFails \/ ReplacedDone \/ MoveFails \/ MoveDone
             \/ Mark \/ ExtractFails
  <2>1. ~Idle /\ \E pc \in Pcs : Goto(pc)
    BY <1>2 DEF OthersDone, ClaimFails, ReplacedDone, MoveFails, MoveDone, Mark,
                ExtractFails, At, Pcs
  <2> QED
    BY <2>1, GotoType
<1>3. CASE Extract
  <2> DEFINE fr == [Top EXCEPT !.pc = "claim", !.todo = Image(Top.ent),
                               !.stamp = IF force THEN clock ELSE 0]
  <2>1. ~Idle /\ Continue(fr) /\ (force => clock <= MaxStamp)
    BY <1>3 DEF Extract, At
  <2>2. (IF force THEN clock ELSE 0) \in 0..MaxStamp
    BY <2>1, PortImageAssumption
  <2>3. fr \in Frames
    BY <1>f, <2>1, <2>2, OperatorTypes DEF Frames, Pcs
  <2> HIDE DEF fr
  <2> QED
    BY <2>1, <2>3, ContinueType
<1>4. ASSUME NEW o \in Entries, CallDeactivate(o) PROVE stack' \in Seq(Frames)
  <2> DEFINE fr == [Top EXCEPT !.calls = @ \ {o}]
  <2>1. ~Idle
    BY <1>4 DEF CallDeactivate, At
  <2>2. fr \in Frames
    BY <1>f, <2>1 DEF Frames
  <2>3. \A via \in {"target", "name", "direct"} : Call("deactivate", o, via) \in Frames
    BY CallType DEF Ops
  <2>4. \E via \in {"target", "name", "direct"} : Push(Call("deactivate", o, via), fr)
    BY <1>4 DEF CallDeactivate
  <2> HIDE DEF fr
  <2> QED
    BY <2>1, <2>2, <2>3, <2>4, PushType
<1>5. ASSUME NEW p \in Paths, ClaimReplaced(p) PROVE stack' \in Seq(Frames)
  <2> DEFINE fr == [Claimed(p) EXCEPT !.victims = @ \cup Replaced(p)]
  <2>1. ~Idle /\ Continue(fr)
    BY <1>5 DEF ClaimReplaced, At
  <2>2. Replaced(p) \subseteq Entries
    BY DEF Replaced, Owner
  <2>3. fr \in Frames
    BY <1>f, <2>1, <2>2 DEF Frames, Claimed
  <2> HIDE DEF fr
  <2> QED
    BY <2>1, <2>3, ContinueType
<1>6. ASSUME NEW p \in Paths, ClaimFree(p) PROVE stack' \in Seq(Frames)
  <2>1. ~Idle /\ Continue(Claimed(p))
    BY <1>6 DEF ClaimFree, At
  <2>2. Claimed(p) \in Frames
    BY <1>f, <2>1 DEF Frames, Claimed
  <2> QED
    BY <2>1, <2>2, ContinueType
<1>7. ASSUME NEW p \in Paths, ClaimRefused(p) PROVE stack' \in Seq(Frames)
  BY <1>7, GotoType DEF ClaimRefused, At, Pcs
<1>8. ASSUME NEW p \in Paths, ClaimForced(p) PROVE stack' \in Seq(Frames)
  <2> DEFINE after == [Claimed(p) EXCEPT
                         !.backups = IF Exists(p) THEN @ \cup {p[1]} ELSE @]
             fr == [after EXCEPT !.pc = "restore"]
  <2>1. ~Idle /\ (Continue(fr) \/ Continue(after))
    BY <1>8 DEF ClaimForced, At
  <2>2. p[1] \in Files
    BY DEF Paths
  <2>3. Claimed(p) \in Frames
    BY <1>f, <2>1 DEF Frames, Claimed
  <2>4. after \in Frames
    BY <2>2, <2>3 DEF Frames
  <2>5. fr \in Frames
    BY <2>4 DEF Frames, Pcs
  <2> HIDE DEF after, fr
  <2> QED
    BY <2>1, <2>4, <2>5, ContinueType
<1>9. CASE ClaimDone
  <2> DEFINE fr == [Top EXCEPT !.pc = "replaced", !.calls = Top.victims]
  <2>1. ~Idle /\ Continue(fr)
    BY <1>9 DEF ClaimDone, At
  <2>2. fr \in Frames
    BY <1>f, <2>1 DEF Frames, Pcs
  <2> HIDE DEF fr
  <2> QED
    BY <2>1, <2>2, ContinueType
<1>10. CASE Link
  <2> DEFINE fr == [Top EXCEPT !.pc = "move", !.todo = Image(Top.ent)]
  <2>1. ~Idle /\ (Goto("unmove") \/ Continue(fr))
    BY <1>10 DEF Link, At
  <2>2. fr \in Frames
    BY <1>f, <2>1, OperatorTypes DEF Frames, Pcs
  <2> HIDE DEF fr
  <2> QED
    BY <2>1, <2>2, GotoType, ContinueType DEF Pcs
<1>11. ASSUME NEW p \in Paths, Move(p) PROVE stack' \in Seq(Frames)
  <2> DEFINE fr == [Claimed(p) EXCEPT !.moved = @ \cup {p[1]}]
  <2>1. ~Idle /\ (Goto("unmove") \/ Continue(fr))
    BY <1>11 DEF Move, At
  <2>2. p[1] \in Files
    BY DEF Paths
  <2>3. fr \in Frames
    BY <1>f, <2>1, <2>2 DEF Frames, Claimed
  <2> HIDE DEF fr
  <2> QED
    BY <2>1, <2>3, GotoType, ContinueType DEF Pcs
<1> QED
  BY <1>1, <1>2, <1>3, <1>4, <1>5, <1>6, <1>7, <1>8, <1>9, <1>10, <1>11
  DEF ActivateStep

\* Nor does the error handler of an activation leave the type.
LEMMA UndoStack ==
    ASSUME TypeOK, UndoStep PROVE stack' \in Seq(Frames)
<1> USE DEF TypeOK
<1>f. ~Idle => Top \in Frames /\ Tail(stack) \in Seq(Frames)
  BY FramesNonempty
<1>1. ASSUME NEW f \in Files, Unmove(f) PROVE stack' \in Seq(Frames)
  <2> DEFINE fr == [Top EXCEPT !.moved = @ \ {f}]
  <2>1. ~Idle /\ Continue(fr)
    BY <1>1 DEF Unmove, At
  <2>2. fr \in Frames
    BY <1>f, <2>1 DEF Frames
  <2> HIDE DEF fr
  <2> QED
    BY <2>1, <2>2, ContinueType
<1>2. ASSUME NEW f \in Files, Restore(f) PROVE stack' \in Seq(Frames)
  <2> DEFINE fr == [Top EXCEPT !.backups = @ \ {f}]
  <2>1. ~Idle /\ Continue(fr)
    BY <1>2 DEF Restore, At
  <2>2. fr \in Frames
    BY <1>f, <2>1 DEF Frames
  <2> HIDE DEF fr
  <2> QED
    BY <2>1, <2>2, ContinueType
<1>3. CASE UnmoveDone \/ ReactDone \/ LateFails
  <2>1. ~Idle /\ \E pc \in Pcs : Goto(pc)
    BY <1>3 DEF UnmoveDone, ReactDone, LateFails, At, Pcs
  <2> QED
    BY <2>1, GotoType
<1>4. CASE RestoreDone
  <2> DEFINE fr == [Top EXCEPT !.pc = "react", !.calls = Top.victims]
  <2>1. ~Idle /\ Continue(fr)
    BY <1>4 DEF RestoreDone, At
  <2>2. fr \in Frames
    BY <1>f, <2>1 DEF Frames, Pcs
  <2> HIDE DEF fr
  <2> QED
    BY <2>1, <2>2, ContinueType
<1>5. ASSUME NEW v \in Entries, CallActivate(v) PROVE stack' \in Seq(Frames)
  <2> DEFINE rest == [Top EXCEPT !.calls = @ \ {v}]
  <2>1. ~Idle /\ (\/ Continue(rest)
                  \/ \E via \in {"target", "direct"} : Push(Call("activate", v, via), rest))
    BY <1>5 DEF CallActivate, At
  <2>2. rest \in Frames
    BY <1>f, <2>1 DEF Frames
  <2>3. \A via \in {"target", "direct"} : Call("activate", v, via) \in Frames
    BY CallType DEF Ops
  <2> HIDE DEF rest
  <2> QED
    BY <2>1, <2>2, <2>3, ContinueType, PushType
<1> QED
  BY <1>1, <1>2, <1>3, <1>4, <1>5 DEF UndoStep

\* Nor does deactivate.
LEMMA DeactivateStack ==
    ASSUME TypeOK, DeactivateStep PROVE stack' \in Seq(Frames)
<1> USE DEF TypeOK
<1>f. ~Idle => Top \in Frames /\ Tail(stack) \in Seq(Frames)
  BY FramesNonempty
<1>1. CASE DeactivateStart
  <2>1. CASE Goto("fail")
    BY <1>1, <2>1, GotoType DEF DeactivateStart, At, Pcs
  <2>2. CASE ~Goto("fail")
    <3>1. ~Idle /\ Top.ent \in Entries
      BY <1>1, <1>f DEF DeactivateStart, At, Frames
    <3>2. PICK i \in Installed(Port[Top.ent]) :
              Continue([Top EXCEPT !.pc = "unlink", !.ent = i])
      BY <1>1, <2>2 DEF DeactivateStart
    <3>3. i \in Entries
      BY <3>2 DEF Installed
    <3>4. [Top EXCEPT !.pc = "unlink", !.ent = i] \in Frames
      BY <1>f, <3>1, <3>3 DEF Frames, Pcs
    <3> QED
      BY <3>1, <3>2, <3>4, ContinueType
  <2> QED
    BY <2>1, <2>2
<1>2. CASE Unlink
  <2> DEFINE fr == [Top EXCEPT !.pc = "remove",
                               !.todo = {<<r[2], r[3]>> : r \in RowsOf(Top.ent)}]
  <2>1. ~Idle /\ Continue(fr)
    BY <1>2 DEF Unlink, At
  <2>2. {<<r[2], r[3]>> : r \in RowsOf(Top.ent)} \subseteq Paths
    BY DEF RowsOf, Paths
  <2>3. fr \in Frames
    BY <1>f, <2>1, <2>2 DEF Frames, Pcs
  <2> HIDE DEF fr
  <2> QED
    BY <2>1, <2>3, ContinueType
<1>3. ASSUME NEW p \in Paths, Remove(p) PROVE stack' \in Seq(Frames)
  <2>1. ~Idle /\ Continue(Claimed(p))
    BY <1>3 DEF Remove, At
  <2>2. Claimed(p) \in Frames
    BY <1>f, <2>1 DEF Frames, Claimed
  <2> QED
    BY <2>1, <2>2, ContinueType
<1>4. CASE RemoveFails \/ RemoveDone \/ Unmark \/ UnmarkFails
  <2>1. ~Idle /\ \E pc \in Pcs : Goto(pc)
    BY <1>4 DEF RemoveFails, RemoveDone, Unmark, UnmarkFails, At, Pcs
  <2> QED
    BY <2>1, GotoType
<1> QED
  BY <1>1, <1>2, <1>3, <1>4 DEF DeactivateStep

\* Nor do uninstall and the end of install.
LEMMA ImageStack ==
    ASSUME TypeOK, ImageStep PROVE stack' \in Seq(Frames)
<1> USE DEF TypeOK
<1>f. ~Idle => Top \in Frames /\ Tail(stack) \in Seq(Frames)
  BY FramesNonempty
<1>1. CASE UninstallStart
  <2> DEFINE fr == [Top EXCEPT !.pc = "image"]
  <2>1. ~Idle /\ Top.ent \in Entries
    BY <1>1, <1>f DEF UninstallStart, At, Frames
  <2>2. \/ Goto("fail") \/ Goto("image")
        \/ \E via \in {"target", "direct"} : Push(Call("deactivate", Top.ent, via), fr)
    BY <1>1, <2>1 DEF UninstallStart
  <2>3. fr \in Frames
    BY <1>f, <2>1 DEF Frames, Pcs
  <2>4. \A via \in {"target", "direct"} : Call("deactivate", Top.ent, via) \in Frames
    BY <2>1, CallType DEF Ops
  <2> HIDE DEF fr
  <2> QED
    BY <2>1, <2>2, <2>3, <2>4, GotoType, PushType DEF Pcs
<1>2. CASE DeleteImage \/ DeleteEntry \/ InstallStart \/ Record \/ EntryFails
  <2>1. ~Idle /\ \E pc \in Pcs : Goto(pc)
    BY <1>2 DEF DeleteImage, DeleteEntry, InstallStart, Record, EntryFails, At, Pcs
  <2> QED
    BY <2>1, GotoType
<1> QED
  BY <1>1, <1>2 DEF ImageStep

\* Nor does the return from a procedure, whatever its caller does next.
LEMMA ReturnStack ==
    ASSUME TypeOK, Return PROVE stack' \in Seq(Frames)
<1> USE DEF TypeOK
<1>f. ~Idle /\ Top \in Frames /\ Tail(stack) \in Seq(Frames)
  BY FramesNonempty DEF Return
<1>1. CASE stack' = Tail(stack)
  BY <1>1, <1>f
<1>2. CASE stack' # Tail(stack)
  <2> DEFINE again == Call(Top.op, Top.ent,
                           IF stack[2].pc = "replaced" THEN "name" ELSE "direct")
             fr == [stack[2] EXCEPT !.pc = Handler(@)]
  <2>1. Len(stack) # 1 /\ (\/ Continue(again)
                           \/ stack' = <<fr>> \o Tail(Tail(stack)))
    BY <1>2 DEF Return
  <2>2. Len(stack) > 1 /\ stack[2] \in Frames /\ Tail(Tail(stack)) \in Seq(Frames)
    <3>1. Len(stack) \in Nat /\ Len(stack) # 0
      BY <1>f DEF Idle
    <3>2. Len(stack) > 1 /\ Len(Tail(stack)) = Len(stack) - 1
      BY <2>1, <3>1, <1>f DEF Idle
    <3>3. stack[2] \in Frames
      BY <3>2
    <3>4. Tail(stack) # <<>>
      <4>1. Len(Tail(stack)) # 0
        BY <3>1, <3>2
      <4>2. Len(<<>>) = 0
        OBVIOUS
      <4> QED
        BY <4>1, <4>2
    <3>5. Tail(Tail(stack)) \in Seq(Frames)
      BY <1>f, <3>4
    <3> QED
      BY <3>2, <3>3, <3>5
  <2>3. again \in Frames
    BY <1>f, CallType DEF Frames
  <2>4. fr \in Frames
    BY <2>2 DEF Frames, Handler, Pcs
  <2> HIDE DEF again, fr
  <2>5. CASE Continue(again)
    BY <1>f, <2>3, <2>5, ContinueType
  <2>6. CASE stack' = <<fr>> \o Tail(Tail(stack))
    BY <2>2, <2>4, <2>6
  <2> QED
    BY <2>1, <2>5, <2>6
<1> QED
  BY <1>1, <1>2

\* So no step leaves the type.
LEMMA StackType ==
    ASSUME TypeOK, [Next]_vars PROVE stack' \in Seq(Frames)
<1>1. ASSUME NEW op \in Ops, NEW e \in Entries, NEW forced \in Forcing,
             Command(op, e, forced)
      PROVE  stack' \in Seq(Frames)
  <2> DEFINE fr == [Call(op, e, "user") EXCEPT !.forced = forced]
  <2>1. Call(op, e, "user") \in Frames
    BY CallType
  <2>2. fr \in Frames
    BY <2>1, PortImageAssumption DEF Frames
  <2>3. stack' = <<fr>>
    BY <1>1 DEF Command
  <2> HIDE DEF fr
  <2> QED
    BY <2>2, <2>3
<1>2. CASE NewProcess \/ (\E f \in Files : UserMakes(f)) \/ UNCHANGED vars
  BY <1>2 DEF NewProcess, UserMakes, vars, TypeOK
<1>3. CASE Crash
  BY <1>3 DEF Crash
<1> QED
  BY <1>1, <1>2, <1>3, ActivateStack, UndoStack, DeactivateStack, ImageStack,
     ReturnStack DEF Next, Step

\* The innermost procedure works on an entry, for an entry.
LEMMA TopFields ==
    ASSUME TypeOK, ~Idle
    PROVE  Top.ent \in Entries /\ Top.stamp \in 0..MaxStamp
  BY FramesNonempty DEF TypeOK, Frames

\* The states of the entries.
LEMMA StateType ==
    ASSUME TypeOK, [Next]_vars
    PROVE  state' \in [Entries -> {"absent", "imaged", "installed"}]
<1> USE DEF TypeOK
<1>1. CASE Mark \/ Unmark \/ DeleteEntry \/ Record
  BY <1>1 DEF Mark, Unmark, DeleteEntry, Record
<1>2. CASE state' = state
  BY <1>2
<1>3. ASSUME ~(Mark \/ Unmark \/ DeleteEntry \/ Record) PROVE state' = state
  BY <1>3 DEF Next, Step, ActivateStep, UndoStep, DeactivateStep, ImageStep, Return,
     ActivateStart, OthersDone, Extract, ExtractFails, CallDeactivate, ClaimReplaced,
     ClaimFree, ClaimRefused, ClaimForced, ClaimFails, ClaimDone, ReplacedDone, Link,
     Move, MoveFails, MoveDone, Unmove, Restore, UnmoveDone, RestoreDone, ReactDone,
     LateFails, CallActivate, DeactivateStart, Unlink, Remove, RemoveFails, RemoveDone,
     UnmarkFails, UninstallStart, DeleteImage, InstallStart, EntryFails, Command,
     UserMakes, NewProcess, Crash, vars, registry, environment
<1> QED
  BY <1>1, <1>2, <1>3

\* What a step may do to the registry's rows: roll back, commit, or change the
\* rows in this connection's view only.
LEMMA RowsChange ==
    ASSUME [Next]_vars
    PROVE  \/ UNCHANGED <<active, committed>>
           \/ Rollback
           \/ active' = active /\ Commit
           \/ \E p \in Paths : ClaimForced(p)
           \/ Link
           \/ Unlink
           \/ DeleteEntry
  BY DEF Next, Step, ActivateStep, UndoStep, DeactivateStep, ImageStep, Return,
     ActivateStart, OthersDone, Extract, ExtractFails, CallDeactivate, ClaimReplaced,
     ClaimFree, ClaimRefused, ClaimFails, ClaimDone, ReplacedDone, Mark,
     Move, MoveFails, MoveDone, Unmove, Restore, UnmoveDone, RestoreDone, ReactDone,
     LateFails, CallActivate, DeactivateStart, Remove, RemoveFails, RemoveDone,
     Unmark, UnmarkFails, UninstallStart, DeleteImage, InstallStart, Record,
     EntryFails, Command, UserMakes, NewProcess, Crash, vars, registry, environment

\* The rows stay rows, of this connection and as committed.
LEMMA RowsType ==
    ASSUME TypeOK, [Next]_vars PROVE active' \in Rows /\ committed' \in Rows
<1> USE DEF TypeOK, Rows
<1>1. ASSUME NEW p \in Paths, ClaimForced(p) PROVE active' \in Rows /\ committed' \in Rows
  <2>1. Top.stamp \in 0..MaxStamp /\ p[1] \in Files
    BY <1>1, TopFields DEF ClaimForced, At, Paths
  <2>2. \A o \in Owner(p) : <<o, p[1], Top.stamp>> \in Entries \X Files \X (0..MaxStamp)
    BY <2>1 DEF Owner
  <2>3. RowsMoved(p, <<p[1], Top.stamp>>) \in Rows
    BY <2>2 DEF RowsMoved
  <2> QED
    BY <1>1, <2>3 DEF ClaimForced, Rollback
<1>2. CASE Link
  <2>1. Top.ent \in Entries
    BY <1>2, TopFields DEF Link, At
  <2>2. {<<Top.ent, f, 0>> : f \in Contents[Top.ent]} \in Rows
    BY <2>1, PortImageAssumption
  <2> QED
    BY <1>2, <2>2 DEF Link, Rollback, RowsOf
<1>3. CASE Unlink
  BY <1>3 DEF Unlink, RowsOf
<1>4. CASE DeleteEntry
  BY <1>4 DEF DeleteEntry, RowsOf
<1>5. CASE Rollback \/ (active' = active /\ Commit) \/ UNCHANGED <<active, committed>>
  BY <1>5 DEF Rollback, Commit
<1> QED
  BY <1>1, <1>2, <1>3, <1>4, <1>5, RowsChange

\* What is at every path.
LEMMA DiskType ==
    ASSUME TypeOK, [Next]_vars PROVE fs' \in [Paths -> {"none", "user"} \cup Entries]
<1> USE DEF TypeOK
<1>1. ASSUME NEW p \in Paths, ClaimForced(p)
      PROVE  fs' \in [Paths -> {"none", "user"} \cup Entries]
  BY <1>1 DEF ClaimForced, BackUp
<1>2. ASSUME NEW p \in Paths, Move(p) \/ Remove(p)
      PROVE  fs' \in [Paths -> {"none", "user"} \cup Entries]
  <2>1. Top.ent \in Entries
    BY <1>2, TopFields DEF Move, Remove, At
  <2> QED
    BY <1>2, <2>1 DEF Move, Remove
<1>3. ASSUME NEW f \in Files, Unmove(f) \/ Restore(f) \/ UserMakes(f)
      PROVE  fs' \in [Paths -> {"none", "user"} \cup Entries]
  <2>1. Restore(f) => <<f, Top.stamp>> \in Paths
    BY TopFields DEF Restore, At, Paths
  <2> QED
    BY <1>3, <2>1 DEF Unmove, Restore, UserMakes
<1>4. ASSUME ~(\E p \in Paths : ClaimForced(p) \/ Move(p) \/ Remove(p)),
             ~(\E f \in Files : Unmove(f) \/ Restore(f) \/ UserMakes(f))
      PROVE  fs' = fs
  BY <1>4 DEF Next, Step, ActivateStep, UndoStep, DeactivateStep, ImageStep, Return,
     ActivateStart, OthersDone, Extract, ExtractFails, CallDeactivate, ClaimReplaced,
     ClaimFree, ClaimRefused, ClaimFails, ClaimDone, ReplacedDone, Link, Mark,
     MoveFails, MoveDone, UnmoveDone, RestoreDone, ReactDone, LateFails,
     CallActivate, DeactivateStart, Unlink, RemoveFails, RemoveDone, Unmark,
     UnmarkFails, UninstallStart, DeleteImage, DeleteEntry, InstallStart, Record,
     EntryFails, Command, NewProcess, Crash, vars, registry, environment
<1> QED
  BY <1>1, <1>2, <1>3, <1>4

\* The archives, and what is outside the registry and the disk.
LEMMA SmallTypes ==
    ASSUME TypeOK, [Next]_vars
    PROVE  /\ archive' \in SUBSET Entries
           /\ force' \in BOOLEAN
           /\ clean' \in BOOLEAN
           /\ clock' \in 1..(MaxStamp + 1)
           /\ made' \in [Files -> Nat]
           /\ budget' \in [fails : Nat, crashes : Nat]
<1> USE DEF TypeOK
<1>1. archive' \in SUBSET Entries
  <2>1. CASE DeleteImage \/ InstallStart
    BY <2>1, TopFields DEF DeleteImage, InstallStart, At
  <2>2. ASSUME ~(DeleteImage \/ InstallStart) PROVE archive' = archive
    BY <2>2 DEF Next, Step, ActivateStep, UndoStep, DeactivateStep, ImageStep, Return,
       ActivateStart, OthersDone, Extract, ExtractFails, CallDeactivate,
       ClaimReplaced, ClaimFree, ClaimRefused, ClaimForced, ClaimFails, ClaimDone,
       ReplacedDone, Link, Move, MoveFails, MoveDone, Mark, Unmove, Restore,
       UnmoveDone, RestoreDone, ReactDone, LateFails, CallActivate, DeactivateStart,
       Unlink, Remove, RemoveFails, RemoveDone, Unmark, UnmarkFails, UninstallStart,
       DeleteEntry, Record, EntryFails, Command, UserMakes, NewProcess, Crash, vars,
       registry, environment
  <2> QED
    BY <2>1, <2>2
<1>2. force' \in BOOLEAN
  <2>1. CASE Crash \/ NewProcess \/ (\E op \in Ops, e \in Entries, forced \in
           Forcing : Command(op, e, forced))
    BY <2>1, PortImageAssumption DEF Crash, NewProcess, Command
  <2>2. ASSUME ~(Crash \/ NewProcess \/ (\E op \in Ops, e \in Entries, forced \in
      Forcing : Command(op, e, forced))) PROVE force' = force
    BY <2>2 DEF Next, Step, ActivateStep, UndoStep, DeactivateStep, ImageStep, Return,
       ActivateStart, OthersDone, Extract, ExtractFails, CallDeactivate,
       ClaimReplaced, ClaimFree, ClaimRefused, ClaimForced, ClaimFails, ClaimDone,
       ReplacedDone, Link, Move, MoveFails, MoveDone, Mark, Unmove, Restore,
       UnmoveDone, RestoreDone, ReactDone, LateFails, CallActivate, DeactivateStart,
       Unlink, Remove, RemoveFails, RemoveDone, Unmark, UnmarkFails, UninstallStart,
       DeleteImage, DeleteEntry, InstallStart, Record, EntryFails, UserMakes, vars,
       registry, environment
  <2> QED
    BY <2>1, <2>2
<1>3. clean' \in BOOLEAN
  <2>1. CASE Crash \/ LateFails \/ RemoveFails \/ UnmarkFails \/ EntryFails
    BY <2>1 DEF Crash, LateFails, RemoveFails, UnmarkFails, EntryFails
  <2>2. ASSUME ~(Crash \/ LateFails \/ RemoveFails \/ UnmarkFails \/ EntryFails) PROVE
      clean' = clean
    BY <2>2 DEF Next, Step, ActivateStep, UndoStep, DeactivateStep, ImageStep, Return,
       ActivateStart, OthersDone, Extract, ExtractFails, CallDeactivate,
       ClaimReplaced, ClaimFree, ClaimRefused, ClaimForced, ClaimFails, ClaimDone,
       ReplacedDone, Link, Move, MoveFails, MoveDone, Mark, Unmove, Restore,
       UnmoveDone, RestoreDone, ReactDone, CallActivate, DeactivateStart, Unlink,
       Remove, RemoveDone, Unmark, UninstallStart, DeleteImage, DeleteEntry,
       InstallStart, Record, Command, UserMakes, NewProcess, vars, registry,
       environment
  <2> QED
    BY <2>1, <2>2
<1>4. clock' \in 1..(MaxStamp + 1)
  <2>1. CASE Extract
    BY <2>1, PortImageAssumption DEF Extract
  <2>2. ASSUME ~(Extract) PROVE clock' = clock
    BY <2>2 DEF Next, Step, ActivateStep, UndoStep, DeactivateStep, ImageStep, Return,
       ActivateStart, OthersDone, ExtractFails, CallDeactivate, ClaimReplaced,
       ClaimFree, ClaimRefused, ClaimForced, ClaimFails, ClaimDone, ReplacedDone,
       Link, Move, MoveFails, MoveDone, Mark, Unmove, Restore, UnmoveDone,
       RestoreDone, ReactDone, LateFails, CallActivate, DeactivateStart, Unlink,
       Remove, RemoveFails, RemoveDone, Unmark, UnmarkFails, UninstallStart,
       DeleteImage, DeleteEntry, InstallStart, Record, EntryFails, Command,
       UserMakes, NewProcess, Crash, vars, registry, environment
  <2> QED
    BY <2>1, <2>2
<1>5. made' \in [Files -> Nat]
  <2>1. CASE (\E f \in Files : UserMakes(f))
    BY <2>1 DEF UserMakes
  <2>2. ASSUME ~((\E f \in Files : UserMakes(f))) PROVE made' = made
    BY <2>2 DEF Next, Step, ActivateStep, UndoStep, DeactivateStep, ImageStep, Return,
       ActivateStart, OthersDone, Extract, ExtractFails, CallDeactivate,
       ClaimReplaced, ClaimFree, ClaimRefused, ClaimForced, ClaimFails, ClaimDone,
       ReplacedDone, Link, Move, MoveFails, MoveDone, Mark, Unmove, Restore,
       UnmoveDone, RestoreDone, ReactDone, LateFails, CallActivate, DeactivateStart,
       Unlink, Remove, RemoveFails, RemoveDone, Unmark, UnmarkFails, UninstallStart,
       DeleteImage, DeleteEntry, InstallStart, Record, EntryFails, Command,
       NewProcess, Crash, vars, registry, environment
  <2> QED
    BY <2>1, <2>2
<1>6. budget' \in [fails : Nat, crashes : Nat]
  <2>1. CASE Crash \/ ExtractFails \/ ClaimFails \/ MoveFails \/ LateFails \/
           RemoveFails \/ UnmarkFails \/ EntryFails
    BY <2>1 DEF Crash, ExtractFails, ClaimFails, MoveFails,
       LateFails, RemoveFails, UnmarkFails, EntryFails, Spend
  <2>2. ASSUME ~(Crash \/ ExtractFails \/ ClaimFails \/ MoveFails \/ LateFails \/
      RemoveFails \/ UnmarkFails \/ EntryFails) PROVE budget' = budget
    BY <2>2 DEF Next, Step, ActivateStep, UndoStep, DeactivateStep, ImageStep, Return,
       ActivateStart, OthersDone, Extract, CallDeactivate, ClaimReplaced, ClaimFree,
       ClaimRefused, ClaimForced, ClaimDone, ReplacedDone, Link, Move, MoveDone,
       Mark, Unmove, Restore, UnmoveDone, RestoreDone, ReactDone, CallActivate,
       DeactivateStart, Unlink, Remove, RemoveDone, Unmark, UninstallStart,
       DeleteImage, DeleteEntry, InstallStart, Record, Command, UserMakes,
       NewProcess, vars, registry, environment
  <2> QED
    BY <2>1, <2>2
<1> QED
  BY <1>1, <1>2, <1>3, <1>4, <1>5, <1>6
-----------------------------------------------------------------------------
\* Every variable keeps its type.
THEOREM TypeCorrect == Spec => []TypeOK
<1>1. Init => TypeOK
  <2> SUFFICES ASSUME Init PROVE TypeOK
    OBVIOUS
  <2>1. made \in [Files -> Nat]
    BY DEF Init
  <2>2. fs \in [Paths -> {"none", "user"} \cup Entries]
    BY DEF Init
  <2>3. clock \in 1..(MaxStamp + 1) /\ budget \in [fails : Nat, crashes : Nat]
    BY PortImageAssumption DEF Init
  <2>4. stack \in Seq(Frames)
    BY DEF Init
  <2> QED
    BY <2>1, <2>2, <2>3, <2>4 DEF Init, TypeOK
<1>2. TypeOK /\ [Next]_vars => TypeOK'
  <2> SUFFICES ASSUME TypeOK, [Next]_vars PROVE TypeOK'
    OBVIOUS
  <2>s. stack' \in Seq(Frames)
    BY StackType
  <2>1. state' \in [Entries -> {"absent", "imaged", "installed"}]
    BY StateType
  <2>2. active' \in Rows /\ committed' \in Rows
    BY RowsType
  <2>3. archive' \in SUBSET Entries /\ force' \in BOOLEAN /\ clean' \in BOOLEAN
    BY SmallTypes
  <2>4. fs' \in [Paths -> {"none", "user"} \cup Entries]
    BY DiskType
  <2>5. /\ clock' \in 1..(MaxStamp + 1)
        /\ made' \in [Files -> Nat]
        /\ budget' \in [fails : Nat, crashes : Nat]
    BY SmallTypes
  <2> QED
    BY <2>s, <2>1, <2>2, <2>3, <2>4, <2>5 DEF TypeOK, Rows
<1> QED
  BY <1>1, <1>2, PTL DEF Spec

-----------------------------------------------------------------------------
\* Moving the rows of a path to a path that nobody owns shares no path.
LEMMA MoveRowsUnique ==
    ASSUME TypeOK, NoSharedPath(active), NEW p \in Paths, NEW bak \in Paths,
           Owner(p) = {} \/ ~Taken({bak})
    PROVE  NoSharedPath(RowsMoved(p, bak))
<1> DEFINE old == active \ {<<o, p[1], p[2]>> : o \in Owner(p)}
           new == {<<o, bak[1], bak[2]>> : o \in Owner(p)}
<1>1. \A r \in active : /\ <<r[1], r[2], r[3]>> = r
                        /\ r[1] \in Entries
  BY DEF TypeOK
<1>2. \A d, e \in Owner(p) : d = e
  <2> SUFFICES ASSUME NEW d \in Owner(p), NEW e \in Owner(p) PROVE d = e
    OBVIOUS
  <2>1. <<d, p[1], p[2]>> \in active /\ <<e, p[1], p[2]>> \in active
    BY DEF Owner
  <2> QED
    BY <2>1 DEF NoSharedPath
<1>3. \A r \in active : Owner(p) # {} => ~(r[2] = bak[1] /\ r[3] = bak[2])
  <2> SUFFICES ASSUME NEW r \in active, Owner(bak) = {}, r[2] = bak[1], r[3] = bak[2]
               PROVE  FALSE
    BY DEF Taken
  <2> QED
    BY <1>1 DEF Owner
<1>4. \A r, q \in old : r[2] = q[2] /\ r[3] = q[3] => r[1] = q[1]
  BY DEF NoSharedPath
<1>5. \A q \in new : /\ q[1] \in Owner(p) /\ q[2] = bak[1] /\ q[3] = bak[2]
                     /\ \A r \in old : ~(r[2] = q[2] /\ r[3] = q[3])
  BY <1>3
<1>6. RowsMoved(p, bak) = old \cup new
  BY DEF RowsMoved
<1> HIDE DEF old, new
<1> QED
  BY <1>2, <1>4, <1>5, <1>6 DEF NoSharedPath

\* No two entries ever own the same path, in the registry as this connection
\* sees it or as it is committed, whatever is forced, fails or dies.
THEOREM UniqueOwnerCorrect == Spec => []UniqueOwner
<1>1. Init => UniqueOwner
  BY DEF Init, UniqueOwner, NoSharedPath
<1>2. TypeOK /\ UniqueOwner /\ [Next]_vars => UniqueOwner'
  <2> SUFFICES ASSUME TypeOK, UniqueOwner, [Next]_vars
               PROVE  NoSharedPath(active') /\ NoSharedPath(committed')
    BY DEF UniqueOwner, NoSharedPath
  <2> USE DEF UniqueOwner
  <2>1. ASSUME NEW p \in Paths, ClaimForced(p)
        PROVE  NoSharedPath(active') /\ NoSharedPath(committed')
    <3>1. <<p[1], Top.stamp>> \in Paths
      BY <2>1, TopFields DEF ClaimForced, At, Paths
    <3>2. CASE Rollback
      BY <3>2 DEF Rollback
    <3>3. CASE ~Rollback
      BY <2>1, <3>1, <3>3, MoveRowsUnique DEF ClaimForced
    <3> QED
      BY <3>2, <3>3
  <2>2. CASE Link
    <3>1. CASE Rollback
      BY <3>1 DEF Rollback
    <3>2. CASE ~Rollback
      <4>1. Top.ent \in Entries
        BY <2>2, TopFields DEF Link, At
      <4>2. \A r \in active, f \in Contents[Top.ent] : ~(r[2] = f /\ r[3] = 0)
        <5>1. \A f \in Contents[Top.ent] : Owner(<<f, 0>>) = {}
          BY <2>2, <3>2 DEF Link, Taken, Image
        <5>2. \A r \in active : r \in Entries \X Files \X (0..MaxStamp)
          BY DEF TypeOK
        <5> QED
          BY <5>1, <5>2 DEF Owner
      <4> DEFINE new == {<<Top.ent, f, 0>> : f \in Contents[Top.ent]}
      <4>3. \A q \in new : q[1] = Top.ent /\ q[2] \in Contents[Top.ent] /\ q[3] = 0
        OBVIOUS
      <4>4. active' = (active \ RowsOf(Top.ent)) \cup new /\ committed' = committed
        BY <2>2, <3>2 DEF Link
      <4> HIDE DEF new
      <4> QED
        BY <4>2, <4>3, <4>4 DEF NoSharedPath
    <3> QED
      BY <3>1, <3>2
  <2>3. CASE Unlink
    BY <2>3 DEF Unlink, RowsOf, NoSharedPath
  <2>4. CASE DeleteEntry
    BY <2>4 DEF DeleteEntry, RowsOf, NoSharedPath
  <2>5. CASE Rollback \/ (active' = active /\ Commit) \/ UNCHANGED <<active, committed>>
    BY <2>5 DEF Rollback, Commit
  <2> QED
    BY <2>1, <2>2, <2>3, <2>4, <2>5, RowsChange
<1> QED
  BY <1>1, <1>2, TypeCorrect, PTL DEF Spec
-----------------------------------------------------------------------------
\* What stands in a stack whose innermost frame goes on as another.
LEMMA ReplaceTop ==
    ASSUME NEW s \in Seq(Frames), s # <<>>, NEW fr \in Frames, NEW t,
           t = <<fr>> \o Tail(s)
    PROVE  /\ t # <<>> /\ Len(t) = Len(s) /\ Head(t) = fr /\ t[1] = fr
           /\ \A i \in 2..Len(s) : t[i] = s[i]
<1>1. Len(s) \in Nat \ {0}
  OBVIOUS
<1>2. /\ <<fr>> \in Seq(Frames) /\ Tail(s) \in Seq(Frames)
      /\ Len(Tail(s)) = Len(s) - 1
      /\ \A i \in 1..Len(s) - 1 : Tail(s)[i] = s[i + 1]
  OBVIOUS
<1>3. Len(<<fr>>) = 1 /\ <<fr>>[1] = fr
  OBVIOUS
<1>4. t \in Seq(Frames) /\ Len(t) = 1 + (Len(s) - 1)
  BY <1>2, <1>3
<1>5. t[1] = fr
  BY <1>2, <1>3
<1>6. ASSUME NEW i \in 2..Len(s) PROVE t[i] = s[i]
  <2>1. i \in Nat /\ i - 1 \in 1..(Len(s) - 1) /\ (i - 1) + 1 = i
    BY <1>1
  <2>2. t[i] = Tail(s)[i - 1]
    BY <1>1, <1>2, <1>3, <2>1
  <2> QED
    BY <1>2, <2>1, <2>2
<1> QED
  BY <1>1, <1>4, <1>5, <1>6

\* What stands in a stack when a procedure is called.
LEMMA PushTop ==
    ASSUME NEW s \in Seq(Frames), s # <<>>, NEW fr \in Frames, NEW caller \in Frames,
           NEW t, t = <<fr, caller>> \o Tail(s)
    PROVE  /\ t # <<>> /\ Len(t) = Len(s) + 1 /\ Head(t) = fr
           /\ t[1] = fr /\ t[2] = caller
           /\ \A i \in 3..Len(t) : t[i] = s[i - 1]
<1>1. Len(s) \in Nat \ {0}
  OBVIOUS
<1>2. /\ <<fr, caller>> \in Seq(Frames) /\ Tail(s) \in Seq(Frames)
      /\ Len(Tail(s)) = Len(s) - 1
      /\ \A i \in 1..Len(s) - 1 : Tail(s)[i] = s[i + 1]
  OBVIOUS
<1>3. Len(<<fr, caller>>) = 2 /\ <<fr, caller>>[1] = fr /\ <<fr, caller>>[2] = caller
  OBVIOUS
<1>4. t \in Seq(Frames) /\ Len(t) = 2 + (Len(s) - 1)
  BY <1>2, <1>3
<1>5. t[1] = fr /\ t[2] = caller
  BY <1>2, <1>3
<1>6. ASSUME NEW i \in 3..Len(t) PROVE t[i] = s[i - 1]
  <2>1. i \in Nat /\ i - 2 \in 1..(Len(s) - 1) /\ (i - 2) + 1 = i - 1
    BY <1>1, <1>4
  <2>2. t[i] = Tail(s)[i - 2]
    BY <1>1, <1>2, <1>3, <1>4, <2>1
  <2> QED
    BY <1>2, <2>1, <2>2
<1> QED
  BY <1>1, <1>4, <1>5, <1>6

\* What stands in a stack whose innermost procedure returns, and what if its
\* caller goes on in its error handler.
LEMMA ReturnTop ==
    ASSUME NEW s \in Seq(Frames), Len(s) > 1, NEW fr \in Frames
    PROVE  /\ /\ Tail(s) # <<>> /\ Len(Tail(s)) = Len(s) - 1
              /\ Head(Tail(s)) = s[2]
              /\ \A i \in 1..Len(s) - 1 : Tail(s)[i] = s[i + 1]
           /\ LET t == <<fr>> \o Tail(Tail(s)) IN
              /\ t # <<>> /\ Len(t) = Len(s) - 1 /\ Head(t) = fr /\ t[1] = fr
              /\ \A i \in 2..Len(s) - 1 : t[i] = s[i + 1]
<1> DEFINE u == Tail(s)
           t == <<fr>> \o Tail(u)
<1>1. Len(s) \in Nat /\ s # <<>>
  OBVIOUS
<1>2. u \in Seq(Frames) /\ Len(u) = Len(s) - 1
      /\ \A i \in 1..Len(s) - 1 : u[i] = s[i + 1]
  BY <1>1
<1>3. u # <<>>
  <2>1. Len(u) # 0
    BY <1>1, <1>2
  <2>2. Len(<<>>) = 0
    OBVIOUS
  <2> QED
    BY <2>1, <2>2
<1>4. u[1] = s[2]
  BY <1>1, <1>2
<1>5. Head(u) = s[2]
  BY <1>2, <1>3, <1>4
<1> HIDE DEF u
<1>6. /\ t # <<>> /\ Len(t) = Len(u) /\ Head(t) = fr /\ t[1] = fr
      /\ \A i \in 2..Len(u) : t[i] = u[i]
  BY <1>2, <1>3, ReplaceTop
<1> HIDE DEF t
<1>7. \A i \in 2..Len(s) - 1 : t[i] = s[i + 1]
  BY <1>1, <1>2, <1>6
<1> QED
  BY <1>2, <1>3, <1>5, <1>6, <1>7 DEF t, u

-----------------------------------------------------------------------------
\* The activation has deactivated the other versions.
Later == {"extract", "claim", "replaced", "link", "move", "mark", "ok"}

\* Who calls whom: activations call activations from their error handler; only
\* the innermost frame is a deactivation, and it is called for another version,
\* for a replaced port or by uninstall.
Callers == \A i \in 2..Len(stack) :
    \/ stack[i].op = "activate" /\ stack[i].pc = "react" /\ stack[i - 1].op = "activate"
    \/ /\ i = 2 /\ stack[1].op = "deactivate"
       /\ \/ stack[2].op = "activate" /\ stack[2].pc \in {"others", "replaced"}
          \/ stack[2].op = "uninstall" /\ stack[2].pc = "image"

\* An activation that is past the deactivations, or is at them: which other
\* versions may still be active.
TopVersions == ~Idle /\ Top.op = "activate" =>
    /\ Top.pc \in Later => Installed(Port[Top.ent]) \subseteq {Top.ent}
    /\ Top.pc = "others" => Installed(Port[Top.ent]) \subseteq {Top.ent} \cup Top.calls

\* The same of an activation that waits for a deactivation it has called.
CalledVersions ==
    ~Idle /\ Top.op = "deactivate" /\ Len(stack) >= 2 /\ stack[2].op = "activate" =>
        /\ stack[2].pc = "others" =>
            /\ Top.via # "name"
            /\ Top.pc = "ok" => state[Top.ent] # "installed"
            /\ Installed(Port[stack[2].ent])
                   \subseteq {stack[2].ent, Top.ent} \cup stack[2].calls
        /\ stack[2].pc = "replaced" =>
               Installed(Port[stack[2].ent]) \subseteq {stack[2].ent}

\* What an activation has put in place, in the registry and on disk.
RowsLinked(e) == \A h \in Contents[e] : <<e, h, 0>> \in active
Delivery ==
    /\ At("activate", "move") =>
         /\ RowsLinked(Top.ent)
         /\ \A p \in Image(Top.ent) \ Top.todo : fs[p] = Top.ent
    /\ At("activate", "mark") \/ At("activate", "ok") =>
         /\ RowsLinked(Top.ent)
         /\ \A p \in Image(Top.ent) : fs[p] = Top.ent
    /\ At("activate", "ok") => state[Top.ent] = "installed"

\* The steps that lead an activation to where Delivery speaks of it.
Delivers == Link \/ MoveDone \/ Mark \/ \E p \in Paths : Move(p)

\* Before an activation moves files in; and the other entries that have files.
Early == {"start", "others", "extract", "claim", "replaced", "link"}
Owners == {e \in Entries \ {Top.ent} : \E r \in active : r[1] = e}

\* What a frame fr that the running procedure goes on as has kept, and which
\* steps lead it to where it changes the registry or the disk.
Keeps(fr) ==
    /\ ~force => fr.backups \subseteq Top.backups
    /\ Top.op = "activate" =>
        /\ \/ fr.victims = Top.victims
           \/ Top.pc = "claim" /\ fr.victims \subseteq Top.victims \cup Owners
        /\ fr.pc \in Early => Top.pc \in Early /\ fr.moved = Top.moved
        /\ fr.pc = "react" =>
              \/ fr.calls \subseteq fr.victims
              \/ Top.pc = "react" /\ fr.calls \subseteq Top.calls /\ fr.victims = Top.victims
        /\ fr.pc \notin {"start", "ok", "fail"} =>
              Top.pc \notin {"start", "ok", "fail"} \/ state[Top.ent] = "imaged"
        /\ fr.pc = "unmove" =>
              Link \/ MoveFails \/ (\E p \in Paths : Move(p)) \/ \E f \in Files : Unmove(f)
    /\ Top.op = "deactivate" =>
        /\ fr.ent = Top.ent \/ (Top.pc = "start" /\ fr.pc \in {"unlink", "fail"})
        /\ fr.pc = "unlink" => state[fr.ent] = "installed"
        /\ fr.pc \in {"remove", "unmark"} =>
              Unlink \/ RemoveDone \/ \E p \in Paths : Remove(p)
    /\ Top.op = "uninstall" =>
        /\ fr.pc \in {"image", "entry"} => Top.pc = "image" \/ state[Top.ent] = "imaged"
        /\ fr.pc = "entry" => DeleteImage
    /\ Top.op = "install" /\ fr.pc = "record" => InstallStart

\* The running procedure goes on as the frame fr.
Follows(fr) ==
    /\ ~Idle /\ Continue(fr)
    /\ fr.op = Top.op /\ fr.via = Top.via
    /\ Top.via # "name" \/ Top.op # "deactivate" => fr.ent = Top.ent
    /\ Top.op = "activate" =>
        /\ fr.pc \in Later =>
              Top.pc \in Later \/ (Top.pc = "others" /\ Top.calls = {})
        /\ fr.pc = "others" => fr.calls = Installed(Port[Top.ent]) \ {Top.ent}
        /\ fr.pc \in {"move", "mark", "ok"} => Delivers
    /\ Top.op = "deactivate" /\ fr.pc = "ok" => Unmark
    /\ Keeps(fr)

\* A step that goes on, that calls nothing and returns from nothing.
LEMMA ActivateFollows ==
    ASSUME TypeOK, ActivateStep, ~\E o \in Entries : CallDeactivate(o)
    PROVE  \E fr \in Frames : Follows(fr)
<1> USE DEF TypeOK, Later, Early
<1>f. ~Idle => Top \in Frames
  BY FramesNonempty
<1>t. \A e \in Entries : Port[e] \in Names
  BY PortImageAssumption
<1>1. CASE ActivateStart
  <2> DEFINE fr == [Top EXCEPT !.pc = "others",
                               !.calls = Installed(Port[Top.ent]) \ {Top.ent}]
             no == [Top EXCEPT !.pc = "fail"]
  <2>1. /\ ~Idle /\ Top.op = "activate" /\ Top.pc = "start"
        /\ Continue(no) \/ (Continue(fr) /\ state[Top.ent] = "imaged")
    BY <1>1 DEF ActivateStart, At, Goto
  <2>2. fr \in Frames /\ no \in Frames
    BY <1>f, <1>t, <2>1, OperatorTypes DEF Frames, Pcs
  <2>3. /\ fr.op = Top.op /\ fr.via = Top.via /\ fr.ent = Top.ent
        /\ fr.pc = "others" /\ fr.calls = Installed(Port[Top.ent]) \ {Top.ent}
        /\ fr.victims = Top.victims /\ fr.moved = Top.moved /\ fr.backups = Top.backups
    BY <1>f, <2>1 DEF Frames
  <2>4. no.op = Top.op /\ no.via = Top.via /\ no.ent = Top.ent /\ no.pc = "fail"
        /\ no.victims = Top.victims /\ no.backups = Top.backups
    BY <1>f, <2>1 DEF Frames
  <2> HIDE DEF fr, no
  <2> QED
    BY <2>1, <2>2, <2>3, <2>4 DEF Follows, Keeps
<1>2. CASE OthersDone \/ ClaimFails \/ ReplacedDone \/ MoveFails \/ MoveDone
             \/ Mark \/ ExtractFails
  <2>1. PICK pc \in Pcs :
          /\ ~Idle /\ Top.op = "activate" /\ Goto(pc)
          /\ pc = "fail"
               \/ (pc = "restore" /\ Top.pc = "claim")
               \/ (pc = "unmove" /\ Top.pc = "move" /\ MoveFails)
               \/ (pc = "extract" /\ Top.pc = "others" /\ Top.calls = {})
               \/ (pc = "link" /\ Top.pc = "replaced")
               \/ (pc = "mark" /\ Top.pc = "move" /\ MoveDone)
               \/ (pc = "ok" /\ Top.pc = "mark" /\ Mark)
    BY <1>2 DEF OthersDone, ClaimFails, ReplacedDone, MoveFails, MoveDone, Mark,
                ExtractFails, At, Pcs
  <2> DEFINE fr == [Top EXCEPT !.pc = pc]
  <2>2. fr \in Frames
    BY <1>f, <2>1 DEF Frames
  <2>3. fr.op = Top.op /\ fr.via = Top.via /\ fr.ent = Top.ent /\ fr.pc = pc /\ fr.victims = Top.victims /\ fr.moved = Top.moved
        /\ fr.backups = Top.backups
    BY <1>f, <2>1 DEF Frames
  <2>4. Continue(fr)
    BY <2>1 DEF Goto
  <2> HIDE DEF fr
  <2> QED
    BY <2>1, <2>2, <2>3, <2>4 DEF Follows, Keeps, Delivers
<1>3. CASE Extract
  <2> DEFINE fr == [Top EXCEPT !.pc = "claim", !.todo = Image(Top.ent),
                               !.stamp = IF force THEN clock ELSE 0]
  <2>1. ~Idle /\ Continue(fr) /\ (force => clock <= MaxStamp)
        /\ Top.op = "activate" /\ Top.pc = "extract"
    BY <1>3 DEF Extract, At
  <2>2. (IF force THEN clock ELSE 0) \in 0..MaxStamp
    BY <2>1, PortImageAssumption
  <2>3. fr \in Frames
    BY <1>f, <2>1, <2>2, OperatorTypes DEF Frames, Pcs
  <2>4. fr.op = Top.op /\ fr.via = Top.via /\ fr.ent = Top.ent /\ fr.pc = "claim" /\ fr.victims = Top.victims /\ fr.moved = Top.moved
        /\ fr.backups = Top.backups
    BY <1>f, <2>1 DEF Frames
  <2> HIDE DEF fr
  <2> QED
    BY <2>1, <2>3, <2>4 DEF Follows, Keeps
<1>4. ASSUME NEW p \in Paths,
             ClaimReplaced(p) \/ ClaimFree(p) \/ ClaimRefused(p) \/ ClaimForced(p)
      PROVE  \E fr \in Frames : Follows(fr)
  <2>1. ~Idle /\ Top.op = "activate" /\ Top.pc = "claim"
    BY <1>4 DEF ClaimReplaced, ClaimFree, ClaimRefused, ClaimForced, At
  <2> DEFINE On(fr) == /\ fr \in Frames /\ Continue(fr)
                       /\ fr.op = Top.op /\ fr.via = Top.via /\ fr.ent = Top.ent
                       /\ fr.pc \in {"claim", "restore"} /\ fr.moved = Top.moved
                       /\ fr.victims \subseteq Top.victims \cup Owners
                       /\ force \/ fr.backups = Top.backups
  <2>2. PICK fr : On(fr)
    <3>1. Top \in Frames /\ p[1] \in Files
      BY <1>f, <2>1 DEF Paths
    <3>2. CASE ClaimReplaced(p)
      <4> DEFINE fr == [Claimed(p) EXCEPT !.victims = @ \cup Replaced(p)]
      <4>1. Replaced(p) \subseteq Entries /\ Replaced(p) \subseteq Owners
        <5>1. \A o \in Owner(p) : o \in Entries /\ \E r \in active : r[1] = o
          BY DEF Owner
        <5> QED
          BY <5>1 DEF Replaced, Owners
      <4>2. /\ fr \in Frames /\ fr.op = Top.op /\ fr.via = Top.via /\ fr.ent = Top.ent
            /\ fr.pc = Top.pc /\ fr.moved = Top.moved /\ fr.backups = Top.backups
            /\ fr.victims = Top.victims \cup Replaced(p)
        BY <3>1, <4>1 DEF Claimed, Frames
      <4>3. Continue(fr)
        BY <3>2 DEF ClaimReplaced
      <4> HIDE DEF fr
      <4>4. On(fr)
        BY <2>1, <4>1, <4>2, <4>3
      <4> QED
        BY <4>4
    <3>3. CASE ClaimFree(p)
      <4> DEFINE fr == Claimed(p)
      <4>2. /\ fr \in Frames /\ fr.op = Top.op /\ fr.via = Top.via /\ fr.ent = Top.ent
            /\ fr.pc = Top.pc /\ fr.moved = Top.moved /\ fr.backups = Top.backups
            /\ fr.victims = Top.victims
        BY <3>1 DEF Claimed, Frames
      <4>3. Continue(fr)
        BY <3>3 DEF ClaimFree
      <4> HIDE DEF fr
      <4>4. On(fr)
        BY <2>1, <4>2, <4>3
      <4> QED
        BY <4>4
    <3>4. CASE ClaimRefused(p)
      <4> DEFINE fr == [Top EXCEPT !.pc = "restore"]
      <4>2. /\ fr \in Frames /\ fr.op = Top.op /\ fr.via = Top.via /\ fr.ent = Top.ent
            /\ fr.pc = "restore" /\ fr.moved = Top.moved /\ fr.backups = Top.backups
            /\ fr.victims = Top.victims
        BY <3>1 DEF Frames, Pcs
      <4>3. Continue(fr)
        BY <3>4 DEF ClaimRefused, Goto
      <4> HIDE DEF fr
      <4>4. On(fr)
        BY <4>2, <4>3
      <4> QED
        BY <4>4
    <3>5. CASE ClaimForced(p)
      <4> DEFINE fr == [Claimed(p) EXCEPT
                          !.backups = IF Exists(p) THEN @ \cup {p[1]} ELSE @]
                 no == [fr EXCEPT !.pc = "restore"]
      <4>1. force /\ (Continue(fr) \/ Continue(no))
        BY <3>5 DEF ClaimForced
      <4>2. /\ fr \in Frames /\ fr.op = Top.op /\ fr.via = Top.via /\ fr.ent = Top.ent
            /\ fr.pc = Top.pc /\ fr.moved = Top.moved /\ fr.victims = Top.victims
        BY <3>1 DEF Claimed, Frames
      <4>3. /\ no \in Frames /\ no.op = Top.op /\ no.via = Top.via /\ no.ent = Top.ent
            /\ no.pc = "restore" /\ no.moved = Top.moved /\ no.victims = Top.victims
        <5> HIDE DEF fr
        <5> QED
          BY <4>2 DEF Frames, Pcs
      <4> HIDE DEF fr, no
      <4>4. On(fr) \/ On(no)
        BY <2>1, <4>1, <4>2, <4>3
      <4> QED
        BY <4>4
    <3> QED
      BY <1>4, <3>2, <3>3, <3>4, <3>5
  <2> QED
    BY <2>1, <2>2 DEF Follows, Keeps
<1>9. CASE ClaimDone
  <2> DEFINE fr == [Top EXCEPT !.pc = "replaced", !.calls = Top.victims]
  <2>1. ~Idle /\ Continue(fr) /\ Top.op = "activate" /\ Top.pc = "claim"
    BY <1>9 DEF ClaimDone, At
  <2>2. fr \in Frames
    BY <1>f, <2>1 DEF Frames, Pcs
  <2>4. fr.op = Top.op /\ fr.via = Top.via /\ fr.ent = Top.ent /\ fr.pc = "replaced" /\ fr.victims = Top.victims /\ fr.moved = Top.moved
        /\ fr.backups = Top.backups
    BY <1>f, <2>1 DEF Frames
  <2> HIDE DEF fr
  <2> QED
    BY <2>1, <2>2, <2>4 DEF Follows, Keeps
<1>10. CASE Link
  <2> DEFINE fr == [Top EXCEPT !.pc = "move", !.todo = Image(Top.ent)]
             no == [Top EXCEPT !.pc = "unmove"]
  <2>1. ~Idle /\ Top.op = "activate" /\ Top.pc = "link" /\ (Continue(no) \/ Continue(fr))
    BY <1>10 DEF Link, At, Goto
  <2>2. fr \in Frames /\ no \in Frames
    BY <1>f, <2>1, OperatorTypes DEF Frames, Pcs
  <2>4. /\ fr.op = Top.op /\ fr.via = Top.via /\ fr.ent = Top.ent /\ fr.pc = "move"
        /\ no.op = Top.op /\ no.via = Top.via /\ no.ent = Top.ent /\ no.pc = "unmove"
        /\ fr.victims = Top.victims /\ fr.backups = Top.backups
        /\ no.victims = Top.victims /\ no.backups = Top.backups
    BY <1>f, <2>1 DEF Frames
  <2> HIDE DEF fr, no
  <2> QED
    BY <1>10, <2>1, <2>2, <2>4 DEF Follows, Keeps, Delivers
<1>11. ASSUME NEW p \in Paths, Move(p) PROVE \E fr \in Frames : Follows(fr)
  <2> DEFINE fr == [Claimed(p) EXCEPT !.moved = @ \cup {p[1]}]
             no == [Top EXCEPT !.pc = "unmove"]
  <2>1. ~Idle /\ Top.op = "activate" /\ Top.pc = "move" /\ (Continue(no) \/ Continue(fr))
    BY <1>11 DEF Move, At, Goto
  <2>2. p[1] \in Files
    BY DEF Paths
  <2>3. fr \in Frames /\ no \in Frames
    BY <1>f, <2>1, <2>2 DEF Frames, Claimed, Pcs
  <2>4. /\ fr.op = Top.op /\ fr.via = Top.via /\ fr.ent = Top.ent /\ fr.pc = "move"
        /\ no.op = Top.op /\ no.via = Top.via /\ no.ent = Top.ent /\ no.pc = "unmove"
        /\ fr.victims = Top.victims /\ fr.backups = Top.backups
        /\ no.victims = Top.victims /\ no.backups = Top.backups
    BY <1>f, <2>1 DEF Frames, Claimed
  <2> HIDE DEF fr, no
  <2> QED
    BY <1>11, <2>1, <2>3, <2>4 DEF Follows, Keeps, Delivers
<1> QED
  BY <1>1, <1>2, <1>3, <1>4, <1>9, <1>10, <1>11 DEF ActivateStep

\* The running procedure calls: which procedures are called from where.
Calls(fr, caller) ==
    /\ ~Idle /\ Push(fr, caller) /\ UNCHANGED state
    /\ fr.pc = "start" /\ fr.victims = {} /\ fr.backups = {} /\ fr.moved = {}
    /\ caller.op = Top.op /\ caller.ent = Top.ent /\ caller.victims = Top.victims
    /\ caller.backups = Top.backups /\ caller.moved = Top.moved
    /\ \/ /\ fr.op = "activate" /\ Top.op = "activate"
          /\ Top.pc = "react" /\ caller.pc = "react" /\ caller.calls \subseteq Top.calls
          /\ fr.ent \in Top.calls /\ state[fr.ent] = "imaged"
       \/ /\ fr.op = "deactivate"
          /\ \/ /\ Top.op = "activate" /\ Top.pc \in {"others", "replaced"}
                /\ caller.pc = Top.pc /\ caller.calls = Top.calls \ {fr.ent}
                /\ Top.pc = "others" => fr.via # "name"
             \/ /\ Top.op = "uninstall" /\ caller.pc = "image"
                /\ fr.ent = Top.ent /\ fr.via # "name"

\* What a called procedure starts with.
LEMMA CallFields ==
    ASSUME NEW op, NEW e, NEW via
    PROVE  LET c == Call(op, e, via) IN
           /\ c.op = op /\ c.ent = e /\ c.via = via /\ c.pc = "start"
           /\ c.victims = {} /\ c.backups = {} /\ c.moved = {}
  BY DEF Call

\* The calls of activate for the ports to deactivate.
LEMMA ActivateCalls ==
    ASSUME TypeOK, NEW o \in Entries, CallDeactivate(o)
    PROVE  \E fr, caller \in Frames : Calls(fr, caller)
<1> DEFINE caller == [Top EXCEPT !.calls = @ \ {o}]
<1>1. /\ ~Idle /\ Top.op = "activate" /\ Top.pc \in {"others", "replaced"}
      /\ UNCHANGED state
      /\ \E via \in {"target", "name", "direct"} :
            /\ Push(Call("deactivate", o, via), caller)
            /\ Top.pc = "others" => via # "name"
  BY DEF CallDeactivate, At, registry
<1>2. PICK via \in {"target", "name", "direct"} :
            /\ Push(Call("deactivate", o, via), caller)
            /\ Top.pc = "others" => via # "name"
  BY <1>1
<1>3. Top \in Frames
  BY <1>1, FramesNonempty DEF TypeOK
<1>4. /\ caller \in Frames /\ caller.op = Top.op /\ caller.ent = Top.ent
      /\ caller.pc = Top.pc /\ caller.calls = Top.calls \ {o}
      /\ caller.victims = Top.victims /\ caller.backups = Top.backups /\ caller.moved = Top.moved
  BY <1>3 DEF Frames
<1> DEFINE fr == Call("deactivate", o, via)
<1>5. fr \in Frames
  BY CallType DEF Ops
<1>6. fr.op = "deactivate" /\ fr.ent = o /\ fr.via = via /\ fr.pc = "start"
      /\ fr.victims = {} /\ fr.backups = {} /\ fr.moved = {}
  BY CallFields
<1>7. Push(fr, caller)
  BY <1>2
<1> HIDE DEF fr, caller
<1> QED
  BY <1>1, <1>2, <1>4, <1>5, <1>6, <1>7 DEF Calls

\* The error handler goes on, or calls an activation.
LEMMA UndoSteps ==
    ASSUME TypeOK, UndoStep
    PROVE  (\E fr \in Frames : Follows(fr)) \/ (\E fr, caller \in Frames : Calls(fr, caller))
<1> USE DEF TypeOK, Later, Early
<1>f. ~Idle => Top \in Frames
  BY FramesNonempty
<1> DEFINE On(fr) == /\ ~Idle /\ Top.op = "activate" /\ Continue(fr) /\ fr \in Frames
                     /\ fr.op = Top.op /\ fr.via = Top.via /\ fr.ent = Top.ent
                     /\ fr.pc \in {"unmove", "restore", "react", "fail"}
                     /\ fr.victims = Top.victims /\ fr.backups \subseteq Top.backups
                     /\ Top.pc \in {"unmove", "restore", "react", "mark"}
                     /\ fr.pc = "react" =>
                          \/ fr.calls = fr.victims
                          \/ Top.pc = "react" /\ fr.calls \subseteq Top.calls
                     /\ fr.pc = "unmove" => \E f \in Files : Unmove(f)
<1>e. ASSUME NEW fr, On(fr) PROVE Follows(fr)
  <2>1. Keeps(fr)
    BY <1>e DEF Keeps
  <2> QED
    BY <1>e, <2>1 DEF Follows
<1>1. ASSUME NEW f \in Files, Unmove(f) PROVE \E fr : On(fr)
  <2> DEFINE fr == [Top EXCEPT !.moved = @ \ {f}]
  <2>1. ~Idle /\ Continue(fr) /\ Top.op = "activate" /\ Top.pc = "unmove"
    BY <1>1 DEF Unmove, At
  <2>2. fr \in Frames /\ fr.op = Top.op /\ fr.via = Top.via /\ fr.ent = Top.ent
        /\ fr.pc = Top.pc /\ fr.victims = Top.victims /\ fr.backups = Top.backups
    BY <1>f, <2>1 DEF Frames
  <2> HIDE DEF fr
  <2> QED
    BY <1>1, <2>1, <2>2
<1>2. ASSUME NEW f \in Files, Restore(f) PROVE \E fr : On(fr)
  <2> DEFINE fr == [Top EXCEPT !.backups = @ \ {f}]
  <2>1. ~Idle /\ Continue(fr) /\ Top.op = "activate" /\ Top.pc = "restore"
    BY <1>2 DEF Restore, At
  <2>2. fr \in Frames /\ fr.op = Top.op /\ fr.via = Top.via /\ fr.ent = Top.ent
        /\ fr.pc = Top.pc /\ fr.victims = Top.victims /\ fr.backups \subseteq Top.backups
    BY <1>f, <2>1 DEF Frames
  <2> HIDE DEF fr
  <2> QED
    BY <2>1, <2>2
<1>3. CASE UnmoveDone \/ ReactDone \/ LateFails
  <2>1. PICK pc \in {"restore", "fail"} :
            /\ ~Idle /\ Top.op = "activate" /\ Goto(pc)
            /\ Top.pc \in {"unmove", "restore", "react", "mark"}
    BY <1>3 DEF UnmoveDone, ReactDone, LateFails, At
  <2> DEFINE fr == [Top EXCEPT !.pc = pc]
  <2>2. fr \in Frames /\ fr.op = Top.op /\ fr.via = Top.via /\ fr.ent = Top.ent
        /\ fr.pc = pc /\ fr.victims = Top.victims /\ fr.backups = Top.backups
    BY <1>f, <2>1 DEF Frames, Pcs
  <2>3. Continue(fr)
    BY <2>1 DEF Goto
  <2> HIDE DEF fr
  <2>4. On(fr)
    BY <2>1, <2>2, <2>3
  <2> QED
    BY <1>e, <2>2, <2>4
<1>4. CASE RestoreDone
  <2> DEFINE fr == [Top EXCEPT !.pc = "react", !.calls = Top.victims]
  <2>1. ~Idle /\ Continue(fr) /\ Top.op = "activate" /\ Top.pc = "restore"
    BY <1>4 DEF RestoreDone, At
  <2>2. fr \in Frames /\ fr.op = Top.op /\ fr.via = Top.via /\ fr.ent = Top.ent
        /\ fr.pc = "react" /\ fr.victims = Top.victims /\ fr.backups = Top.backups
        /\ fr.calls = fr.victims
    BY <1>f, <2>1 DEF Frames, Pcs
  <2> HIDE DEF fr
  <2>3. On(fr)
    BY <2>1, <2>2
  <2> QED
    BY <1>e, <2>2, <2>3
<1>5. ASSUME NEW v \in Entries, CallActivate(v)
      PROVE  (\E fr : On(fr)) \/ (\E fr, caller \in Frames : Calls(fr, caller))
  <2> DEFINE rest == [Top EXCEPT !.calls = @ \ {v}]
  <2>1. /\ ~Idle /\ Top.op = "activate" /\ Top.pc = "react" /\ UNCHANGED state
        /\ v \in Top.calls
        /\ \/ Continue(rest)
           \/ state[v] = "imaged" /\ \E via \in {"target", "direct"} : Push(Call("activate", v, via), rest)
    BY <1>5 DEF CallActivate, At, registry
  <2>2. rest \in Frames /\ rest.op = Top.op /\ rest.via = Top.via /\ rest.ent = Top.ent
        /\ rest.pc = Top.pc /\ rest.victims = Top.victims /\ rest.backups = Top.backups
        /\ rest.calls \subseteq Top.calls /\ rest.moved = Top.moved
    BY <1>f, <2>1 DEF Frames
  <2>3. CASE Continue(rest)
    <3> HIDE DEF rest
    <3> QED
      BY <2>1, <2>2, <2>3
  <2>4. ASSUME NEW via \in {"target", "direct"}, Push(Call("activate", v, via), rest),
             state[v] = "imaged"
        PROVE  \E fr, caller \in Frames : Calls(fr, caller)
    <3> DEFINE fr == Call("activate", v, via)
    <3>1. fr \in Frames
      BY CallType DEF Ops
    <3>2. fr.op = "activate" /\ fr.ent = v /\ fr.pc = "start"
          /\ fr.victims = {} /\ fr.backups = {} /\ fr.moved = {}
      BY CallFields
    <3>3. Push(fr, rest)
      BY <2>4
    <3> HIDE DEF fr, rest
    <3> QED
      BY <2>1, <2>2, <2>4, <3>1, <3>2, <3>3 DEF Calls
  <2> QED
    BY <2>1, <2>3, <2>4
<1>6. \/ \E fr : On(fr)
      \/ \E fr \in Frames : Follows(fr)
      \/ \E fr, caller \in Frames : Calls(fr, caller)
  BY <1>1, <1>2, <1>3, <1>4, <1>5 DEF UndoStep
<1> QED
  BY <1>e, <1>6

\* deactivate calls nothing.
LEMMA DeactivateFollows ==
    ASSUME TypeOK, DeactivateStep PROVE \E fr \in Frames : Follows(fr)
<1> USE DEF TypeOK, Later
<1>f. ~Idle => Top \in Frames
  BY FramesNonempty
<1>1. CASE DeactivateStart
  <2>1. ~Idle /\ Top.op = "deactivate" /\ Top.pc = "start"
    BY <1>1 DEF DeactivateStart, At
  <2>2. PICK i \in Entries, pc \in {"unlink", "fail"} :
            /\ Continue([Top EXCEPT !.pc = pc, !.ent = i])
            /\ Top.via # "name" => i = Top.ent
            /\ pc = "unlink" => state[i] = "installed"
    <3>1. CASE Goto("fail")
      <4>1. [Top EXCEPT !.pc = "fail"] = [Top EXCEPT !.pc = "fail", !.ent = Top.ent]
            /\ Top.ent \in Entries
        BY <1>f, <2>1 DEF Frames
      <4> QED
        BY <3>1, <4>1 DEF Goto
    <3>2. CASE ~Goto("fail")
      <4>1. PICK i \in Installed(Port[Top.ent]) :
                /\ Installed(Port[Top.ent]) = {i}
                /\ Continue([Top EXCEPT !.pc = "unlink", !.ent = i])
                /\ Top.via = "name" \/ Installed(Port[Top.ent]) = {Top.ent}
        BY <1>1, <3>2 DEF DeactivateStart
      <4>2. i \in Entries /\ state[i] = "installed"
        BY <4>1 DEF Installed
      <4>3. Top.via # "name" => i = Top.ent
        BY <4>1
      <4> QED
        BY <4>1, <4>2, <4>3
    <3> QED
      BY <3>1, <3>2
  <2> DEFINE fr == [Top EXCEPT !.pc = pc, !.ent = i]
  <2>3. fr \in Frames /\ fr.op = Top.op /\ fr.via = Top.via /\ fr.ent = i /\ fr.pc = pc
        /\ fr.backups = Top.backups
    BY <1>f, <2>1 DEF Frames, Pcs
  <2>4. Continue(fr)
    BY <2>2
  <2> HIDE DEF fr
  <2> QED
    BY <2>1, <2>2, <2>3, <2>4 DEF Follows, Keeps
<1>2. CASE Unlink
  <2> DEFINE fr == [Top EXCEPT !.pc = "remove",
                               !.todo = {<<r[2], r[3]>> : r \in RowsOf(Top.ent)}]
  <2>1. ~Idle /\ Continue(fr) /\ Top.op = "deactivate"
    BY <1>2 DEF Unlink, At
  <2>2. {<<r[2], r[3]>> : r \in RowsOf(Top.ent)} \subseteq Paths
    BY DEF RowsOf, Paths
  <2>3. fr \in Frames /\ fr.op = Top.op /\ fr.via = Top.via /\ fr.ent = Top.ent
        /\ fr.pc = "remove" /\ fr.backups = Top.backups
    BY <1>f, <2>1, <2>2 DEF Frames, Pcs
  <2> HIDE DEF fr
  <2> QED
    BY <1>2, <2>1, <2>3 DEF Follows, Keeps
<1>3. ASSUME NEW p \in Paths, Remove(p) PROVE \E fr \in Frames : Follows(fr)
  <2> DEFINE fr == Claimed(p)
  <2>1. ~Idle /\ Continue(fr) /\ Top.op = "deactivate" /\ Top.pc = "remove"
    BY <1>3 DEF Remove, At
  <2>2. fr \in Frames /\ fr.op = Top.op /\ fr.via = Top.via /\ fr.ent = Top.ent
        /\ fr.pc = Top.pc /\ fr.backups = Top.backups
    BY <1>f, <2>1 DEF Frames, Claimed
  <2> HIDE DEF fr
  <2> QED
    BY <1>3, <2>1, <2>2 DEF Follows, Keeps
<1>4. CASE RemoveFails \/ RemoveDone \/ Unmark \/ UnmarkFails
  <2>1. PICK pc \in {"fail", "unmark", "ok"} :
            /\ ~Idle /\ Top.op = "deactivate" /\ Goto(pc)
            /\ pc = "ok" => Unmark
            /\ pc = "unmark" => RemoveDone
    BY <1>4 DEF RemoveFails, RemoveDone, Unmark, UnmarkFails, At
  <2> DEFINE fr == [Top EXCEPT !.pc = pc]
  <2>2. fr \in Frames /\ fr.op = Top.op /\ fr.via = Top.via /\ fr.ent = Top.ent
        /\ fr.pc = pc /\ fr.backups = Top.backups
    BY <1>f, <2>1 DEF Frames, Pcs
  <2>3. Continue(fr)
    BY <2>1 DEF Goto
  <2> HIDE DEF fr
  <2> QED
    BY <2>1, <2>2, <2>3 DEF Follows, Keeps
<1> QED
  BY <1>1, <1>2, <1>3, <1>4 DEF DeactivateStep

\* uninstall may call deactivate, install calls nothing.
LEMMA ImageSteps ==
    ASSUME TypeOK, ImageStep
    PROVE  (\E fr \in Frames : Follows(fr)) \/ (\E fr, caller \in Frames : Calls(fr, caller))
<1> USE DEF TypeOK
<1>f. ~Idle => Top \in Frames
  BY FramesNonempty
<1>g. ASSUME NEW pc \in Pcs, ~Idle, Goto(pc), Top.op \in {"uninstall", "install"},
             pc = "image" => state[Top.ent] = "imaged",
             pc = "entry" => Top.pc = "image" /\ DeleteImage,
             pc = "record" => InstallStart
      PROVE  \E fr \in Frames : Follows(fr)
  <2> DEFINE fr == [Top EXCEPT !.pc = pc]
  <2>2. fr \in Frames /\ fr.op = Top.op /\ fr.via = Top.via /\ fr.ent = Top.ent
        /\ fr.pc = pc /\ fr.backups = Top.backups
    BY <1>f, <1>g DEF Frames
  <2>3. Continue(fr)
    BY <1>g DEF Goto
  <2> HIDE DEF fr
  <2> QED
    BY <1>g, <2>2, <2>3 DEF Follows, Keeps
<1>1. CASE UninstallStart
  <2> DEFINE fr == [Top EXCEPT !.pc = "image"]
  <2>1. ~Idle /\ Top.ent \in Entries /\ Top.op = "uninstall" /\ UNCHANGED state
    BY <1>1, <1>f DEF UninstallStart, At, Frames, registry
  <2>2. \/ Goto("fail") \/ (Goto("image") /\ state[Top.ent] = "imaged")
        \/ \E via \in {"target", "direct"} : Push(Call("deactivate", Top.ent, via), fr)
    BY <1>1, <2>1 DEF UninstallStart
  <2>3. fr \in Frames /\ fr.op = Top.op /\ fr.ent = Top.ent /\ fr.pc = "image"
        /\ fr.victims = Top.victims /\ fr.backups = Top.backups /\ fr.moved = Top.moved
    BY <1>f, <2>1 DEF Frames, Pcs
  <2>4. ASSUME NEW via \in {"target", "direct"}, Push(Call("deactivate", Top.ent, via), fr)
        PROVE  \E r, caller \in Frames : Calls(r, caller)
    <3> DEFINE r == Call("deactivate", Top.ent, via)
    <3>1. r \in Frames
      BY <2>1, CallType DEF Ops
    <3>2. r.op = "deactivate" /\ r.ent = Top.ent /\ r.via = via /\ r.pc = "start"
          /\ r.victims = {} /\ r.backups = {} /\ r.moved = {}
      BY CallFields
    <3>3. Push(r, fr)
      BY <2>4
    <3> HIDE DEF r, fr
    <3> QED
      BY <2>1, <2>3, <3>1, <3>2, <3>3 DEF Calls
  <2> HIDE DEF fr
  <2> QED
    BY <1>g, <2>1, <2>2, <2>4 DEF Pcs
<1>2. CASE DeleteImage \/ DeleteEntry \/ InstallStart \/ Record \/ EntryFails
  <2>1. /\ ~Idle /\ Top.op \in {"uninstall", "install"}
        /\ \/ Goto("ok") \/ Goto("fail")
           \/ Goto("entry") /\ Top.pc = "image" /\ DeleteImage
           \/ Goto("record") /\ InstallStart
    BY <1>2 DEF DeleteImage, DeleteEntry, InstallStart, Record, EntryFails, At, Pcs
  <2> QED
    BY <1>g, <2>1 DEF Pcs
<1> QED
  BY <1>1, <1>2 DEF ImageStep

\* What a step does to the stack.
LEMMA StackSteps ==
    ASSUME TypeOK, [Next]_vars
    PROVE  \/ UNCHANGED <<stack, state, active>> /\ (fs' = fs \/ \E f \in Files : UserMakes(f))
           \/ stack' = <<>>
           \/ \E fr \in Frames :
                 /\ stack' = <<fr>>
                 /\ fr.pc = "start" /\ fr.victims = {} /\ fr.backups = {} /\ fr.moved = {}
           \/ \E fr \in Frames : Follows(fr)
           \/ \E fr, caller \in Frames : Calls(fr, caller)
           \/ Return
<1>1. ASSUME NEW op \in Ops, NEW e \in Entries, NEW forced \in Forcing,
             Command(op, e, forced)
      PROVE  \E fr \in Frames :
                 /\ stack' = <<fr>>
                 /\ fr.pc = "start" /\ fr.victims = {} /\ fr.backups = {} /\ fr.moved = {}
  <2> DEFINE c == Call(op, e, "user")
             fr == [c EXCEPT !.forced = forced]
  <2>1. /\ c \in Frames
        /\ c.pc = "start" /\ c.victims = {} /\ c.backups = {} /\ c.moved = {}
    BY CallType, CallFields
  <2>2. /\ fr \in Frames
        /\ fr.pc = "start" /\ fr.victims = {} /\ fr.backups = {} /\ fr.moved = {}
    <3> HIDE DEF c
    <3> QED
      BY <2>1, PortImageAssumption DEF Frames
  <2>3. stack' = <<fr>>
    BY <1>1 DEF Command
  <2> HIDE DEF fr
  <2> QED
    BY <2>2, <2>3
<1>2. CASE NewProcess \/ (\E f \in Files : UserMakes(f)) \/ UNCHANGED vars
  BY <1>2 DEF NewProcess, UserMakes, vars, registry
<1>3. CASE Crash
  BY <1>3 DEF Crash
<1> QED
  BY <1>1, <1>2, <1>3, ActivateFollows, ActivateCalls, UndoSteps, DeactivateFollows,
     ImageSteps DEF Next, Step

\* Only an activation that has put everything in place makes a version active.
LEMMA InstalledGrows ==
    ASSUME TypeOK, [Next]_vars, NEW e \in Entries,
           state'[e] = "installed", state[e] # "installed"
    PROVE  At("activate", "mark") /\ e = Top.ent
<1> USE DEF TypeOK
<1>1. CASE Mark
  <2>1. At("activate", "mark") /\ state' = [state EXCEPT ![Top.ent] = "installed"]
    BY <1>1 DEF Mark
  <2> QED
    BY <2>1
<1>2. CASE Unmark \/ DeleteEntry \/ Record
  BY <1>2 DEF Unmark, DeleteEntry, Record
<1>3. ASSUME ~(Mark \/ Unmark \/ DeleteEntry \/ Record) PROVE state' = state
  BY <1>3 DEF Next, Step, ActivateStep, UndoStep, DeactivateStep, ImageStep, Return,
     ActivateStart, OthersDone, Extract, ExtractFails, CallDeactivate, ClaimReplaced,
     ClaimFree, ClaimRefused, ClaimForced, ClaimFails, ClaimDone, ReplacedDone, Link,
     Move, MoveFails, MoveDone, Unmove, Restore, UnmoveDone, RestoreDone, ReactDone,
     LateFails, CallActivate, DeactivateStart, Unlink, Remove, RemoveFails, RemoveDone,
     UnmarkFails, UninstallStart, DeleteImage, InstallStart, EntryFails, Command,
     UserMakes, NewProcess, Crash, vars, registry, environment
<1> QED
  BY <1>1, <1>2, <1>3

\* How a procedure returns: to the outside, to a caller that goes on where it
\* called, by a direct call of what a target did, or to the caller's handler.
LEMMA ReturnCases ==
    ASSUME TypeOK, Return
    PROVE  /\ ~Idle /\ UNCHANGED <<state, active, fs>> /\ Top.pc \in {"ok", "fail"}
           /\ \/ stack' = <<>>
              \/ /\ Len(stack) > 1
                 /\ \/ stack' = Tail(stack) /\ (Top.pc = "ok" \/ AsWanted(Top))
                    \/ \E fr \in Frames :
                          /\ Continue(fr) /\ fr.pc = "start"
                          /\ fr.op = Top.op /\ fr.ent = Top.ent
                          /\ stack[2].pc # "replaced" => fr.via # "name"
                          /\ fr.victims = {} /\ fr.backups = {} /\ fr.moved = {}
                    \/ \E fr \in Frames :
                          /\ stack' = <<fr>> \o Tail(Tail(stack))
                          /\ fr.op = stack[2].op /\ fr.pc \in {"restore", "fail"}
                          /\ fr.pc = "restore" => stack[2].pc = "replaced"
                          /\ fr.ent = stack[2].ent /\ fr.victims = stack[2].victims
                          /\ fr.backups = stack[2].backups
<1>1. ~Idle /\ UNCHANGED <<state, active, fs>> /\ Top.pc \in {"ok", "fail"}
  BY DEF Return, registry
<1>2. Top \in Frames /\ stack \in Seq(Frames) /\ stack # <<>>
  BY <1>1, FramesNonempty DEF TypeOK, Idle
<1>3. Len(stack) \in Nat \ {0}
  BY <1>2
<1>4. CASE Len(stack) = 1
  <2>1. stack' = Tail(stack)
    BY <1>4 DEF Return
  <2>2. Tail(stack) \in Seq(Frames) /\ Len(Tail(stack)) = 0
    BY <1>2, <1>4
  <2>3. Tail(stack) = <<>>
    BY <2>2, EmptySeq
  <2> QED
    BY <1>1, <2>1, <2>3
<1>5. CASE Len(stack) # 1
  <2> DEFINE again == Call(Top.op, Top.ent,
                           IF stack[2].pc = "replaced" THEN "name" ELSE "direct")
             fr == [stack[2] EXCEPT !.pc = Handler(@)]
  <2>1. \/ stack' = Tail(stack) /\ (Top.pc = "ok" \/ AsWanted(Top))
        \/ Continue(again)
        \/ stack' = <<fr>> \o Tail(Tail(stack))
    BY <1>5 DEF Return
  <2>2. Len(stack) > 1 /\ stack[2] \in Frames
    <3>1. Len(stack) > 1 /\ 2 \in 1..Len(stack)
      <4>1. \A n \in Nat \ {0} : n # 1 => n > 1 /\ 2 \in 1..n
        OBVIOUS
      <4> QED
        BY <1>3, <1>5, <4>1
    <3> QED
      BY <1>2, <3>1
  <2>3. again \in Frames
    BY <1>2, CallType DEF Frames
  <2>4. /\ again.pc = "start" /\ again.op = Top.op /\ again.ent = Top.ent
        /\ again.victims = {} /\ again.backups = {} /\ again.moved = {}
        /\ stack[2].pc # "replaced" => again.via # "name"
    BY CallFields
  <2>5. /\ fr \in Frames /\ fr.op = stack[2].op /\ fr.pc \in {"restore", "fail"}
        /\ fr.pc = "restore" => stack[2].pc = "replaced"
        /\ fr.ent = stack[2].ent /\ fr.victims = stack[2].victims
        /\ fr.backups = stack[2].backups
    BY <2>2 DEF Frames, Handler, Pcs
  <2> HIDE DEF again, fr
  <2> QED
    BY <1>1, <2>1, <2>2, <2>3, <2>4, <2>5
<1> QED
  BY <1>4, <1>5

\* What a step that goes on does to the stack.
LEMMA FollowsTop ==
    ASSUME TypeOK, ~Idle, NEW fr \in Frames, Continue(fr)
    PROVE  /\ ~Idle' /\ Top' = fr /\ Len(stack') = Len(stack)
           /\ stack'[1] = fr /\ \A i \in 2..Len(stack) : stack'[i] = stack[i]
<1>1. stack \in Seq(Frames) /\ stack # <<>> /\ stack' = <<fr>> \o Tail(stack)
  BY DEF TypeOK, Idle, Continue
<1>2. /\ stack' # <<>> /\ Len(stack') = Len(stack) /\ Head(stack') = fr /\ stack'[1] = fr
      /\ \A i \in 2..Len(stack) : stack'[i] = stack[i]
  BY <1>1, ReplaceTop
<1> QED
  BY <1>2 DEF Idle, Top

\* What a call does to the stack.
LEMMA CallsTop ==
    ASSUME TypeOK, ~Idle, NEW fr \in Frames, NEW caller \in Frames, Push(fr, caller)
    PROVE  /\ ~Idle' /\ Top' = fr /\ Len(stack') = Len(stack) + 1
           /\ stack'[1] = fr /\ stack'[2] = caller
           /\ \A i \in 3..Len(stack') : stack'[i] = stack[i - 1]
<1>1. stack \in Seq(Frames) /\ stack # <<>> /\ stack' = <<fr, caller>> \o Tail(stack)
  BY DEF TypeOK, Idle, Push
<1>2. /\ stack' # <<>> /\ Len(stack') = Len(stack) + 1 /\ Head(stack') = fr
      /\ stack'[1] = fr /\ stack'[2] = caller
      /\ \A i \in 3..Len(stack') : stack'[i] = stack[i - 1]
  BY <1>1, PushTop
<1> QED
  BY <1>2 DEF Idle, Top

\* The innermost frame is the first, and their number is a number.
LEMMA StackFacts ==
    ASSUME TypeOK, ~Idle
    PROVE  /\ Top \in Frames /\ Top = stack[1] /\ Len(stack) \in Nat \ {0}
           /\ \A i \in 1..Len(stack) : stack[i] \in Frames
  BY DEF TypeOK, Idle, Top

\* Only calls that the code makes are on the stack.
LEMMA CallersStep ==
    ASSUME TypeOK, Callers, [Next]_vars PROVE Callers'
<1> DEFINE OK(s, i) ==
      \/ s[i].op = "activate" /\ s[i].pc = "react" /\ s[i - 1].op = "activate"
      \/ /\ i = 2 /\ s[1].op = "deactivate"
         /\ \/ s[2].op = "activate" /\ s[2].pc \in {"others", "replaced"}
            \/ s[2].op = "uninstall" /\ s[2].pc = "image"
<1>0. /\ Callers <=> \A i \in 2..Len(stack) : OK(stack, i)
      /\ Callers' <=> \A i \in 2..Len(stack') : OK(stack', i)
  BY DEF Callers
<1>1. CASE stack' = stack
  BY <1>0, <1>1
<1>2. CASE stack' = <<>> \/ \E fr \in Frames : stack' = <<fr>>
  <2>1. Len(stack') \in {0, 1}
    BY <1>2
  <2>2. ~\E i \in 2..Len(stack') : TRUE
    BY <2>1
  <2> QED
    BY <1>0, <2>2
<1>3. ASSUME NEW fr \in Frames, ~Idle, Continue(fr), fr.op = Top.op PROVE Callers'
  <2>1. /\ Len(stack') = Len(stack) /\ stack'[1] = fr
        /\ \A i \in 2..Len(stack) : stack'[i] = stack[i]
    BY <1>3, FollowsTop
  <2>2. Top = stack[1] /\ Len(stack) \in Nat
    BY <1>3, StackFacts
  <2>3. ASSUME NEW i \in 2..Len(stack') PROVE OK(stack', i)
    <3>1. i \in 2..Len(stack) /\ OK(stack, i)
      BY <1>0, <2>1
    <3>2. stack'[i] = stack[i] /\ stack'[i - 1].op = stack[i - 1].op
      <4>1. CASE i = 2
        BY <1>3, <2>1, <2>2, <3>1, <4>1
      <4>2. CASE i # 2
        <5>1. i - 1 \in 2..Len(stack)
          BY <2>2, <3>1, <4>2
        <5> QED
          BY <2>1, <3>1, <5>1
      <4> QED
        BY <4>1, <4>2
    <3>3. stack'[1].op = stack[1].op
      BY <1>3, <2>1, <2>2
    <3>4. i = 2 => stack'[2] = stack[2]
      BY <3>2
    <3> QED
      BY <3>1, <3>2, <3>3, <3>4
  <2> QED
    BY <1>0, <2>3
<1>4. ASSUME NEW fr \in Frames, NEW caller \in Frames, Calls(fr, caller) PROVE Callers'
  <2>1. /\ Len(stack') = Len(stack) + 1 /\ stack'[1] = fr /\ stack'[2] = caller
        /\ \A i \in 3..Len(stack') : stack'[i] = stack[i - 1]
    BY <1>4, CallsTop DEF Calls
  <2>2. Top = stack[1] /\ Len(stack) \in Nat \ {0}
    BY <1>4, StackFacts DEF Calls
  <2>3. OK(stack', 2)
    BY <1>4, <2>1 DEF Calls
  <2>4. ASSUME NEW i \in 3..Len(stack') PROVE OK(stack', i)
    <3>1. i - 1 \in 2..Len(stack) /\ i \in Nat
      BY <2>1, <2>2
    <3>2. OK(stack, i - 1) /\ stack'[i] = stack[i - 1]
      BY <1>0, <2>1, <3>1
    <3>3. Top.op # "deactivate"
      BY <1>4 DEF Calls
    <3>4. stack[i - 1].op = "activate" /\ stack[i - 1].pc = "react"
          /\ stack[(i - 1) - 1].op = "activate"
      BY <2>2, <3>2, <3>3
    <3>5. stack'[i - 1].op = stack[(i - 1) - 1].op
      <4>1. CASE i = 3
        <5>1. i - 1 = 2 /\ (i - 1) - 1 = 1
          BY <4>1
        <5> QED
          BY <1>4, <2>1, <2>2, <5>1 DEF Calls
      <4>2. CASE i # 3
        <5>1. i - 1 \in 3..Len(stack')
          BY <2>1, <2>2, <3>1, <4>2
        <5> QED
          BY <2>1, <5>1
      <4> QED
        BY <4>1, <4>2
    <3> QED
      BY <3>2, <3>4, <3>5
  <2>5. \A i \in 2..Len(stack') : i = 2 \/ i \in 3..Len(stack')
    BY <2>1, <2>2
  <2> QED
    BY <1>0, <2>3, <2>4, <2>5
<1>5. CASE Return
  <2>1. stack \in Seq(Frames) /\ ~Idle
    BY <1>5 DEF TypeOK, Return
  <2>2. Len(stack) \in Nat \ {0}
    BY <2>1, StackFacts
  <2>3. ASSUME Len(stack) > 1, Len(stack') = Len(stack) - 1, stack'[1].op = stack[2].op,
               \A i \in 2..Len(stack) - 1 : stack'[i] = stack[i + 1]
        PROVE  Callers'
    <3>1. ASSUME NEW i \in 2..Len(stack') PROVE OK(stack', i)
      <4>1. i + 1 \in 2..Len(stack) /\ i \in Nat /\ i + 1 # 2 /\ i \in 2..Len(stack) - 1
            /\ (i + 1) - 1 = i
        BY <2>2, <2>3
      <4>2. OK(stack, i + 1)
        BY <1>0, <4>1
      <4>3. stack[i + 1].op = "activate" /\ stack[i + 1].pc = "react"
            /\ stack[i].op = "activate"
        BY <4>1, <4>2
      <4>4. stack'[i] = stack[i + 1]
        BY <2>3, <4>1
      <4>5. stack'[i - 1].op = stack[i].op
        <5>1. CASE i = 2
          BY <2>3, <5>1
        <5>2. CASE i # 2
          <6>1. i - 1 \in 2..Len(stack) - 1 /\ (i - 1) + 1 = i
            BY <2>2, <4>1, <5>2
          <6> QED
            BY <2>3, <6>1
        <5> QED
          BY <5>1, <5>2
      <4> QED
        BY <4>3, <4>4, <4>5
    <3> QED
      BY <1>0, <3>1
  <2>4. CASE Len(stack) > 1 /\ stack' = Tail(stack)
    <3>1. PICK fr \in Frames : TRUE
      BY <2>1, StackFacts
    <3>2. /\ Len(Tail(stack)) = Len(stack) - 1
          /\ \A i \in 1..Len(stack) - 1 : Tail(stack)[i] = stack[i + 1]
      BY <2>1, <2>4, <3>1, ReturnTop
    <3>3. 1 \in 1..Len(stack) - 1 /\ 1 + 1 = 2
      BY <2>2, <2>4
    <3>4. stack'[1] = stack[2]
      BY <2>4, <3>2, <3>3
    <3>5. \A i \in 2..Len(stack) - 1 : stack'[i] = stack[i + 1]
      BY <2>4, <3>2
    <3> QED
      BY <2>3, <2>4, <3>2, <3>4, <3>5
  <2>5. ASSUME Len(stack) > 1, NEW fr \in Frames,
               stack' = <<fr>> \o Tail(Tail(stack)), fr.op = stack[2].op
        PROVE  Callers'
    <3>1. /\ Len(stack') = Len(stack) - 1 /\ stack'[1] = fr
          /\ \A i \in 2..Len(stack) - 1 : stack'[i] = stack[i + 1]
      BY <2>1, <2>5, ReturnTop
    <3> QED
      BY <2>3, <2>5, <3>1
  <2> QED
    BY <1>2, <1>3, <1>5, <2>1, <2>4, <2>5, ReturnCases
<1> QED
  BY <1>1, <1>2, <1>3, <1>4, <1>5, StackSteps DEF Follows

\* If only the versions in C besides its own can be active for the port of an
\* activation, no step adds others.
LEMMA OwnVersions ==
    ASSUME TypeOK, [Next]_vars, ~Idle, Top.op = "activate", NEW C
    PROVE  /\ Top.ent \in Entries /\ Port[Top.ent] \in Names
           /\ Installed(Port[Top.ent]) \subseteq {Top.ent} \cup C =>
                {e \in Entries : Port[e] = Port[Top.ent] /\ state'[e] = "installed"}
                    \subseteq {Top.ent} \cup C
<1>1. Top.ent \in Entries /\ Port[Top.ent] \in Names
  BY TopFields, PortImageAssumption
<1> QED
  BY <1>1, InstalledGrows DEF Installed

\* An activation becomes active when no other version of its port is.
LEMMA OneActiveStep ==
    ASSUME TypeOK, TopVersions, OneActiveVersion, [Next]_vars PROVE OneActiveVersion'
<1> SUFFICES ASSUME NEW d \in Entries, NEW e \in Entries, Port[d] = Port[e],
                    state'[d] = "installed", state'[e] = "installed", d # e
             PROVE  FALSE
  BY DEF OneActiveVersion
<1>1. state[d] # "installed" \/ state[e] # "installed"
  BY DEF OneActiveVersion
<1>2. /\ state[d] # "installed" => At("activate", "mark") /\ d = Top.ent
      /\ state[e] # "installed" => At("activate", "mark") /\ e = Top.ent
  BY InstalledGrows
<1>3. At("activate", "mark") => Installed(Port[Top.ent]) \subseteq {Top.ent}
  BY DEF TopVersions, Later, At
<1>4. CASE state[d] # "installed"
  <2>1. At("activate", "mark") /\ d = Top.ent /\ state[e] = "installed"
    BY <1>2, <1>4
  <2> QED
    BY <1>3, <2>1 DEF Installed
<1>5. CASE state[e] # "installed"
  <2>1. At("activate", "mark") /\ e = Top.ent /\ state[d] = "installed"
    BY <1>2, <1>5
  <2> QED
    BY <1>3, <2>1 DEF Installed
<1> QED
  BY <1>1, <1>4, <1>5

\* The innermost activation comes past its deactivations only when they have
\* succeeded, or left the state they should (run_target).
LEMMA TopVersionsStep ==
    ASSUME TypeOK, Callers, TopVersions, CalledVersions, [Next]_vars PROVE TopVersions'
<1> SUFFICES ASSUME ~Idle', Top'.op = "activate"
             PROVE  /\ Top'.pc \in Later => Installed(Port[Top.ent])' \subseteq {Top'.ent}
                    /\ Top'.pc = "others" =>
                          Installed(Port[Top.ent])' \subseteq {Top'.ent} \cup Top'.calls
  BY DEF TopVersions, Later
<1>i. Installed(Port[Top.ent])' =
         {e \in Entries : Port[e] = Port[Top'.ent] /\ state'[e] = "installed"}
  BY DEF Installed
<1>1. CASE UNCHANGED <<stack, state, active>>
  BY <1>1 DEF TopVersions, Installed, Top, Idle
<1>2. ASSUME NEW fr \in Frames, stack' = <<fr>>, fr.pc = "start"
      PROVE  Top'.pc \notin Later /\ Top'.pc # "others"
  BY <1>2 DEF Top, Later
<1>3. ASSUME NEW fr \in Frames, Follows(fr)
      PROVE  /\ Top'.pc \in Later => Installed(Port[Top.ent])' \subseteq {Top'.ent}
             /\ Top'.pc = "others" =>
                          Installed(Port[Top.ent])' \subseteq {Top'.ent} \cup Top'.calls
  <2>1. Top' = fr /\ ~Idle /\ Top.op = "activate" /\ fr.ent = Top.ent
    BY <1>3, FollowsTop DEF Follows
  <2>2. ASSUME fr.pc \in Later PROVE Installed(Port[Top.ent])' \subseteq {Top'.ent}
    <3>1. Top.pc \in Later \/ (Top.pc = "others" /\ Top.calls = {})
      BY <1>3, <2>1, <2>2 DEF Follows
    <3>2. Installed(Port[Top.ent]) \subseteq {Top.ent} \cup {}
      BY <2>1, <3>1 DEF TopVersions
    <3>3. {e \in Entries : Port[e] = Port[Top.ent] /\ state'[e] = "installed"}
              \subseteq {Top.ent} \cup {}
      BY <2>1, <3>2, OwnVersions
    <3> QED
      BY <1>i, <2>1, <3>3
  <2>3. ASSUME fr.pc = "others"
        PROVE  Installed(Port[Top.ent])' \subseteq {Top'.ent} \cup Top'.calls
    <3>1. fr.calls = Installed(Port[Top.ent]) \ {Top.ent}
      BY <1>3, <2>1, <2>3 DEF Follows
    <3>2. Installed(Port[Top.ent]) \subseteq {Top.ent} \cup fr.calls
      BY <3>1
    <3>3. {e \in Entries : Port[e] = Port[Top.ent] /\ state'[e] = "installed"}
              \subseteq {Top.ent} \cup fr.calls
      BY <2>1, <3>2, OwnVersions
    <3> QED
      BY <1>i, <2>1, <3>3
  <2> QED
    BY <2>1, <2>2, <2>3
<1>4. ASSUME NEW fr \in Frames, NEW caller \in Frames, Calls(fr, caller)
      PROVE  Top'.pc \notin Later /\ Top'.pc # "others"
  <2>1. Top' = fr
    BY <1>4, CallsTop DEF Calls
  <2> QED
    BY <1>4, <2>1 DEF Calls, Later
<1>5. CASE Return
  <2>1. ~Idle /\ state' = state /\ stack \in Seq(Frames)
    BY <1>5, ReturnCases DEF TypeOK
  <2>2. Len(stack) \in Nat /\ Top = stack[1]
    BY <2>1, StackFacts
  <2>3. CASE stack' = <<>>
    BY <2>3 DEF Idle
  <2>4. CASE Len(stack) > 1 /\ stack' = Tail(stack) /\ (Top.pc = "ok" \/ AsWanted(Top))
    <3>1. Top \in Frames
      BY <2>1, StackFacts
    <3>2. Top' = stack[2]
      BY <2>1, <2>4, <3>1, ReturnTop DEF Top
    <3>3. 2 \in 2..Len(stack) /\ 2 - 1 = 1
      BY <2>2, <2>4
    <3>4. \/ stack[2].pc = "react"
          \/ Top.op = "deactivate" /\ stack[2].pc \in {"others", "replaced"}
      BY <1>5, <2>2, <3>2, <3>3 DEF Callers
    <3>5. CASE stack[2].pc = "react"
      BY <3>2, <3>5 DEF Later
    <3>6. CASE Top.op = "deactivate" /\ stack[2].pc \in {"others", "replaced"}
      <4>1. Len(stack) >= 2 /\ stack[2].op = "activate"
        BY <2>2, <2>4, <3>2
      <4>2. CASE stack[2].pc = "others"
        <5>1. /\ Top.pc = "ok" => state[Top.ent] # "installed"
              /\ Installed(Port[stack[2].ent])
                     \subseteq {stack[2].ent, Top.ent} \cup stack[2].calls
          BY <2>1, <3>6, <4>1, <4>2 DEF CalledVersions
        <5>2. state[Top.ent] # "installed"
          BY <2>4, <3>6, <5>1 DEF AsWanted
        <5>3. Top.ent \notin Installed(Port[stack[2].ent])
          BY <5>2 DEF Installed
        <5>4. Installed(Port[stack[2].ent]) \subseteq {stack[2].ent} \cup stack[2].calls
          BY <5>1, <5>3
        <5>5. Installed(Port[Top.ent])' = Installed(Port[stack[2].ent])
          BY <1>i, <2>1, <3>2 DEF Installed
        <5> QED
          BY <3>2, <4>2, <5>4, <5>5 DEF Later
      <4>3. CASE stack[2].pc = "replaced"
        <5>1. Installed(Port[stack[2].ent]) \subseteq {stack[2].ent}
          BY <2>1, <3>6, <4>1, <4>3 DEF CalledVersions
        <5>5. Installed(Port[Top.ent])' = Installed(Port[stack[2].ent])
          BY <1>i, <2>1, <3>2 DEF Installed
        <5> QED
          BY <3>2, <4>3, <5>1, <5>5
      <4> QED
        BY <3>6, <4>2, <4>3
    <3> QED
      BY <3>4, <3>5, <3>6
  <2>5. ASSUME NEW fr \in Frames, Continue(fr), fr.pc = "start"
        PROVE  Top'.pc \notin Later /\ Top'.pc # "others"
    <3>1. Top' = fr
      BY <2>1, <2>5, FollowsTop
    <3> QED
      BY <2>5, <3>1 DEF Later
  <2>6. ASSUME Len(stack) > 1, NEW fr \in Frames,
               stack' = <<fr>> \o Tail(Tail(stack)), fr.pc \in {"restore", "fail"}
        PROVE  Top'.pc \notin Later /\ Top'.pc # "others"
    <3>1. Top' = fr
      BY <2>1, <2>6, ReturnTop DEF Top
    <3> QED
      BY <2>6, <3>1 DEF Later
  <2> QED
    BY <1>5, <2>3, <2>4, <2>5, <2>6, ReturnCases
<1>6. CASE stack' = <<>>
  BY <1>6 DEF Idle
<1> QED
  BY <1>1, <1>2, <1>3, <1>4, <1>5, <1>6, StackSteps

\* So does one that waits for them.
LEMMA CalledVersionsStep ==
    ASSUME TypeOK, Callers, TopVersions, CalledVersions, [Next]_vars
    PROVE  CalledVersions'
<1> SUFFICES ASSUME ~Idle', Top'.op = "deactivate", Len(stack') >= 2,
                    stack'[2].op = "activate"
             PROVE  /\ stack'[2].pc = "others" =>
                        /\ Top'.via # "name"
                        /\ Top'.pc = "ok" => state'[Top'.ent] # "installed"
                        /\ Installed(Port[stack[2].ent])'
                               \subseteq {stack'[2].ent, Top'.ent} \cup stack'[2].calls
                    /\ stack'[2].pc = "replaced" =>
                           Installed(Port[stack[2].ent])' \subseteq {stack'[2].ent}
  BY DEF CalledVersions
<1>i. Installed(Port[stack[2].ent])' =
         {e \in Entries : Port[e] = Port[stack'[2].ent] /\ state'[e] = "installed"}
  BY DEF Installed
<1>1. CASE UNCHANGED <<stack, state, active>>
  BY <1>1 DEF CalledVersions, Installed, Top, Idle
<1>2. ASSUME NEW fr \in Frames, stack' = <<fr>> PROVE FALSE
  BY <1>2
<1>3. ASSUME NEW fr \in Frames, Follows(fr) PROVE CalledVersions'
  <2>1. Top' = fr /\ ~Idle /\ Len(stack') = Len(stack) /\ Top.op = "deactivate"
    BY <1>3, FollowsTop DEF Follows
  <2>2. Len(stack) \in Nat /\ 2 \in 2..Len(stack)
    BY <2>1, StackFacts
  <2>3. stack'[2] = stack[2]
    BY <1>3, <2>2, FollowsTop DEF Follows
  <2>4. fr.via = Top.via /\ (Top.via # "name" => fr.ent = Top.ent)
        /\ (fr.pc = "ok" => Unmark)
    BY <1>3, <2>1 DEF Follows
  <2>5. {e \in Entries : Port[e] = Port[stack[2].ent] /\ state'[e] = "installed"}
            \subseteq Installed(Port[stack[2].ent])
    BY <2>1, InstalledGrows DEF Installed, At
  <2>6. Top.ent \in Entries
    BY <2>1, TopFields
  <2>7. fr.pc = "ok" => state'[Top.ent] # "installed"
    BY <2>4, <2>6 DEF Unmark, TypeOK
  <2>8. Len(stack) >= 2 /\ stack[2].op = "activate"
    BY <2>1, <2>3
  <2>9. CASE stack[2].pc = "others"
    <3>1. /\ Top.via # "name"
          /\ Installed(Port[stack[2].ent])
                 \subseteq {stack[2].ent, Top.ent} \cup stack[2].calls
      BY <2>1, <2>8, <2>9 DEF CalledVersions
    <3>2. fr.ent = Top.ent /\ fr.via # "name"
      BY <2>4, <3>1
    <3>3. Installed(Port[stack[2].ent])'
              \subseteq {stack[2].ent, Top.ent} \cup stack[2].calls
      BY <1>i, <2>3, <2>5, <3>1
    <3>4. stack'[2].pc = "others"
      BY <2>3, <2>9
    <3> QED
      BY <2>1, <2>3, <2>7, <3>2, <3>3, <3>4 DEF CalledVersions
  <2>10. CASE stack[2].pc = "replaced"
    <3>1. Installed(Port[stack[2].ent]) \subseteq {stack[2].ent}
      BY <2>1, <2>8, <2>10 DEF CalledVersions
    <3>3. Installed(Port[stack[2].ent])' \subseteq {stack[2].ent}
      BY <1>i, <2>3, <2>5, <3>1
    <3>4. stack'[2].pc = "replaced"
      BY <2>3, <2>10
    <3> QED
      BY <2>3, <3>3, <3>4 DEF CalledVersions
  <2>11. CASE stack[2].pc \notin {"others", "replaced"}
    BY <2>3, <2>11 DEF CalledVersions
  <2> QED
    BY <2>9, <2>10, <2>11
<1>4. ASSUME NEW fr \in Frames, NEW caller \in Frames, Calls(fr, caller)
      PROVE CalledVersions'
  <2>1. /\ Top' = fr /\ stack'[2] = caller /\ ~Idle /\ state' = state
        /\ caller.op = Top.op /\ caller.ent = Top.ent
    BY <1>4, CallsTop DEF Calls
  <2>2. fr.op = "deactivate" /\ Top.op = "activate"
    BY <2>1
  <2>3. /\ Top.pc \in {"others", "replaced"} /\ caller.pc = Top.pc
        /\ caller.calls = Top.calls \ {fr.ent}
        /\ Top.pc = "others" => fr.via # "name"
        /\ fr.pc = "start"
    BY <1>4, <2>2 DEF Calls
  <2>4. Installed(Port[stack[2].ent])' = Installed(Port[Top.ent])
    BY <1>i, <2>1 DEF Installed
  <2>5. /\ Top.pc = "others" => Installed(Port[Top.ent]) \subseteq {Top.ent} \cup Top.calls
        /\ Top.pc = "replaced" => Installed(Port[Top.ent]) \subseteq {Top.ent}
    BY <2>1, <2>2 DEF TopVersions, Later
  <2>6. {Top.ent} \cup Top.calls \subseteq {Top.ent, fr.ent} \cup caller.calls
    BY <2>3
  <2>7. CASE Top.pc = "others"
    <3>1. Installed(Port[stack[2].ent])' \subseteq {caller.ent, fr.ent} \cup caller.calls
      BY <2>1, <2>4, <2>5, <2>6, <2>7
    <3>2. caller.pc = "others" /\ fr.via # "name"
      BY <2>3, <2>7
    <3> QED
      BY <2>1, <2>3, <3>1, <3>2 DEF CalledVersions
  <2>8. CASE Top.pc = "replaced"
    <3>1. Installed(Port[stack[2].ent])' \subseteq {caller.ent}
      BY <2>1, <2>4, <2>5, <2>8
    <3>2. caller.pc = "replaced"
      BY <2>3, <2>8
    <3> QED
      BY <2>1, <3>1, <3>2 DEF CalledVersions
  <2> QED
    BY <2>3, <2>7, <2>8
<1>5. CASE Return
  <2>1. ~Idle /\ state' = state /\ stack \in Seq(Frames)
    BY <1>5, ReturnCases DEF TypeOK
  <2>2. Len(stack) \in Nat /\ Top = stack[1] /\ Top \in Frames
    BY <2>1, StackFacts
  <2>3. ASSUME Len(stack) > 1, stack[2].op = "deactivate" PROVE FALSE
    <3>1. 2 \in 2..Len(stack)
      BY <2>2, <2>3
    <3> QED
      BY <2>3, <3>1 DEF Callers
  <2>4. CASE Len(stack) > 1 /\ stack' = Tail(stack)
    <3>1. Top' = stack[2]
      BY <2>1, <2>2, <2>4, ReturnTop DEF Top
    <3> QED
      BY <2>3, <2>4, <3>1
  <2>5. ASSUME Len(stack) > 1, NEW fr \in Frames, stack' = <<fr>> \o Tail(Tail(stack)),
               fr.op = stack[2].op
        PROVE  FALSE
    <3>1. Top' = fr
      BY <2>1, <2>5, ReturnTop DEF Top
    <3> QED
      BY <2>3, <2>5, <3>1
  <2>6. ASSUME Len(stack) > 1, NEW fr \in Frames, Continue(fr), fr.pc = "start",
               fr.op = Top.op, fr.ent = Top.ent, stack[2].pc # "replaced" => fr.via # "name"
        PROVE  CalledVersions'
    <3>1. Top' = fr /\ 2 \in 2..Len(stack)
      BY <2>1, <2>2, <2>6, FollowsTop
    <3>2. stack'[2] = stack[2]
      BY <2>1, <2>6, <3>1, FollowsTop
    <3>3. Installed(Port[stack[2].ent])' = Installed(Port[stack[2].ent])
      BY <1>i, <2>1, <3>2 DEF Installed
    <3>4. Len(stack) >= 2 /\ stack[2].op = "activate" /\ Top.op = "deactivate"
      BY <2>2, <2>6, <3>1, <3>2
    <3>5. CASE stack[2].pc = "others"
      <4>1. Installed(Port[stack[2].ent])
                \subseteq {stack[2].ent, Top.ent} \cup stack[2].calls
        BY <2>1, <3>4, <3>5 DEF CalledVersions
      <4>2. fr.via # "name" /\ fr.ent = Top.ent /\ fr.pc # "ok"
            /\ stack'[2].pc = "others"
        BY <2>6, <3>2, <3>5
      <4> QED
        BY <3>1, <3>2, <3>3, <4>1, <4>2 DEF CalledVersions
    <3>6. CASE stack[2].pc = "replaced"
      <4>1. Installed(Port[stack[2].ent]) \subseteq {stack[2].ent}
        BY <2>1, <3>4, <3>6 DEF CalledVersions
      <4>2. stack'[2].pc = "replaced"
        BY <3>2, <3>6
      <4> QED
        BY <3>1, <3>2, <3>3, <4>1, <4>2 DEF CalledVersions
    <3>7. CASE stack[2].pc \notin {"others", "replaced"}
      BY <3>2, <3>7 DEF CalledVersions
    <3> QED
      BY <3>5, <3>6, <3>7
  <2>7. CASE stack' = <<>>
    BY <2>7 DEF Idle
  <2> QED
    BY <1>5, <2>4, <2>5, <2>6, <2>7, ReturnCases DEF CalledVersions
<1>6. CASE stack' = <<>>
  BY <1>6 DEF Idle
<1>7. CASE CalledVersions'
  BY <1>7 DEF CalledVersions
<1> QED
  BY <1>1, <1>2, <1>3, <1>4, <1>5, <1>6, <1>7, StackSteps

\* What an activation has put in place stays until it returns.
LEMMA DeliveryStep ==
    ASSUME TypeOK, Callers, Delivery, [Next]_vars PROVE Delivery'
<1> DEFINE Late(t) == t.op = "activate" /\ t.pc \in {"move", "mark", "ok"}
<1>p. /\ (~Idle' /\ Late(Top') => Delivery') => Delivery'
      /\ \A p \in Paths : fs[p] \in Entries => fs[p] # "none"
  BY PortImageAssumption DEF Delivery, At
<1> SUFFICES ASSUME ~Idle', Late(Top') PROVE Delivery'
  BY <1>p
<1>1. CASE UNCHANGED <<stack, state, active>> /\ (fs' = fs \/ \E f \in Files : UserMakes(f))
  <2>1. Top' = Top /\ ~Idle /\ Top.ent \in Entries
    BY <1>1, TopFields DEF Top, Idle
  <2>2. Image(Top.ent) \subseteq Paths
    BY <2>1, OperatorTypes
  <2>3. \A p \in Paths : fs[p] = Top.ent => fs'[p] = Top.ent
    <3>1. ASSUME NEW f \in Files, UserMakes(f), NEW p \in Paths, fs[p] = Top.ent
          PROVE  fs'[p] = Top.ent
      <4>1. fs' = [fs EXCEPT ![<<f, 0>>] = "user"] /\ fs[<<f, 0>>] = "none"
        BY <3>1 DEF UserMakes, Exists
      <4>2. p # <<f, 0>>
        BY <1>p, <2>1, <3>1, <4>1
      <4> QED
        BY <3>1, <4>1, <4>2 DEF TypeOK
    <3> QED
      BY <1>1, <3>1
  <2>4. Image(Top'.ent) = Image(Top.ent)
    BY <2>1
  <2>5. \A op \in Ops, pc \in Pcs : At(op, pc)' <=> At(op, pc)
    BY <1>1, <2>1 DEF At, Idle
  <2>6. /\ At("activate", "move")' <=> At("activate", "move")
        /\ At("activate", "mark")' <=> At("activate", "mark")
        /\ At("activate", "ok")' <=> At("activate", "ok")
    BY <2>5 DEF Ops, Pcs
  <2>7. RowsLinked(Top.ent)' <=> RowsLinked(Top.ent)
    BY <1>1, <2>1 DEF RowsLinked
  <2> QED
    BY <1>1, <2>1, <2>2, <2>3, <2>4, <2>6, <2>7 DEF Delivery
<1>2. ASSUME NEW fr \in Frames, stack' = <<fr>>, fr.pc = "start" PROVE FALSE
  BY <1>2 DEF Top
<1>3. ASSUME NEW fr \in Frames, Follows(fr) PROVE Delivery'
  <2>1. Top' = fr /\ ~Idle /\ Continue(fr) /\ fr.op = Top.op /\ Top.op = "activate"
        /\ fr.ent = Top.ent
    BY <1>3, FollowsTop DEF Follows
  <2>2. Delivers
    BY <1>3, <2>1 DEF Follows, Later
  <2>e. Top \in Frames /\ Top.ent \in Entries
    BY <2>1, FramesNonempty, TopFields DEF TypeOK
  <2>s. ASSUME NEW x \in Frames, Continue(x) PROVE Top' = x
    BY <2>1, <2>s, FollowsTop
  <2>u. ASSUME Goto("unmove") PROVE FALSE
    <3>1. [Top EXCEPT !.pc = "unmove"] \in Frames
      BY <2>e DEF Frames, Pcs
    <3>2. Top' = [Top EXCEPT !.pc = "unmove"]
      BY <2>s, <2>u, <3>1 DEF Goto
    <3>3. Top'.pc = "unmove"
      BY <2>e, <3>2 DEF Frames
    <3> QED
      BY <3>3
  <2>3. CASE Link
    <3> DEFINE x == [Top EXCEPT !.pc = "move", !.todo = Image(Top.ent)]
    <3>1. /\ active' = (active \ RowsOf(Top.ent)) \cup {<<Top.ent, f, 0>> : f \in Contents[Top.ent]}
          /\ Continue(x)
      BY <2>3, <2>u DEF Link
    <3>2. x \in Frames /\ x.pc = "move" /\ x.todo = Image(Top.ent)
      BY <2>e, OperatorTypes DEF Frames, Pcs
    <3> HIDE DEF x
    <3>3. Top'.pc = "move" /\ Top'.todo = Image(Top.ent) /\ Top'.ent = Top.ent
      BY <2>1, <2>s, <3>1, <3>2
    <3>4. RowsLinked(Top.ent)'
      BY <3>1, <3>3 DEF RowsLinked
    <3>5. Image(Top'.ent) \ Top'.todo = {}
      BY <3>3
    <3> QED
      BY <3>3, <3>4, <3>5 DEF Delivery, At
  <2>4. ASSUME NEW p \in Paths, Move(p) PROVE Delivery'
    <3> DEFINE x == [Claimed(p) EXCEPT !.moved = @ \cup {p[1]}]
    <3>1. /\ fs' = [fs EXCEPT ![p] = Top.ent] /\ active' = active
          /\ Continue(x)
      BY <2>4, <2>u DEF Move
    <3>2. At("activate", "move")
      BY <2>4 DEF Move
    <3>3. p[1] \in Files
      BY DEF Paths
    <3>4. x \in Frames /\ x.pc = "move" /\ x.todo = Top.todo \ {p}
      BY <2>e, <3>2, <3>3 DEF Frames, Claimed, At
    <3> HIDE DEF x
    <3>5. Top'.pc = "move" /\ Top'.todo = Top.todo \ {p} /\ Top'.ent = Top.ent
      BY <2>1, <2>s, <3>1, <3>4
    <3>6. RowsLinked(Top.ent)'
      BY <3>1, <3>2, <3>5 DEF Delivery, RowsLinked
    <3>7. ASSUME NEW q \in Image(Top.ent) \ (Top.todo \ {p}) PROVE fs'[q] = Top.ent
      <4>1. q \in Paths
        BY <2>e, OperatorTypes
      <4>2. q # p => fs[q] = Top.ent
        BY <3>2, <3>7 DEF Delivery
      <4> QED
        BY <3>1, <4>1, <4>2 DEF TypeOK
    <3>8. \A q \in Image(Top'.ent) \ Top'.todo : fs'[q] = Top'.ent
      BY <3>5, <3>7
    <3> QED
      BY <3>5, <3>6, <3>8 DEF Delivery, At, Image
  <2>5. CASE MoveDone
    <3> DEFINE x == [Top EXCEPT !.pc = "mark"]
    <3>1. /\ fs' = fs /\ active' = active /\ Top.todo = {} /\ At("activate", "move")
          /\ Continue(x)
      BY <2>5 DEF MoveDone, Goto
    <3>2. x \in Frames /\ x.pc = "mark"
      BY <2>e DEF Frames, Pcs
    <3> HIDE DEF x
    <3>3. Top'.pc = "mark" /\ Top'.ent = Top.ent
      BY <2>1, <2>s, <3>1, <3>2
    <3>4. RowsLinked(Top.ent)'
      BY <3>1, <3>3 DEF Delivery, RowsLinked
    <3>5. \A q \in Image(Top'.ent) : fs'[q] = Top'.ent
      BY <3>1, <3>3 DEF Delivery
    <3> QED
      BY <3>3, <3>4, <3>5 DEF Delivery, At, Image
  <2>6. CASE Mark
    <3>1. /\ fs' = fs /\ active' = active /\ At("activate", "mark")
          /\ state' = [state EXCEPT ![Top.ent] = "installed"]
          /\ Continue([Top EXCEPT !.pc = "ok"])
      BY <2>6 DEF Mark, Goto
    <3>2. [Top EXCEPT !.pc = "ok"] \in Frames
      BY <2>e DEF Frames, Pcs
    <3>3. Top' = [Top EXCEPT !.pc = "ok"]
      BY <2>s, <3>1, <3>2
    <3>4. Top'.pc = "ok" /\ Top'.ent = Top.ent
      BY <2>1, <2>e, <3>3 DEF Frames
    <3>5. RowsLinked(Top.ent)'
      BY <3>1, <3>4 DEF Delivery, RowsLinked
    <3>6. \A q \in Image(Top'.ent) : fs'[q] = Top'.ent
      BY <3>1, <3>4 DEF Delivery
    <3>7. state'[Top'.ent] = "installed"
      BY <2>e, <3>1, <3>4 DEF TypeOK
    <3> QED
      BY <3>4, <3>5, <3>6, <3>7 DEF Delivery, At, Image
  <2> QED
    BY <2>2, <2>3, <2>4, <2>5, <2>6 DEF Delivers
<1>4. ASSUME NEW fr \in Frames, NEW caller \in Frames, Calls(fr, caller) PROVE FALSE
  <2>1. Top' = fr /\ fr.pc = "start"
    BY <1>4, CallsTop DEF Calls
  <2> QED
    BY <2>1
<1>5. ASSUME Return PROVE FALSE
  <2>1. ~Idle /\ stack \in Seq(Frames)
    BY <1>5, ReturnCases DEF TypeOK
  <2>2. Len(stack) \in Nat /\ Top \in Frames
    BY <2>1, StackFacts
  <2>3. ASSUME Len(stack) > 1, stack' = Tail(stack) PROVE FALSE
    <3>1. Top' = stack[2]
      BY <2>1, <2>2, <2>3, ReturnTop DEF Top
    <3>2. 2 \in 2..Len(stack)
      BY <2>2, <2>3
    <3> QED
      BY <3>1, <3>2 DEF Callers
  <2>4. ASSUME Len(stack) > 1, NEW fr \in Frames, stack' = <<fr>> \o Tail(Tail(stack)),
               fr.pc \in {"restore", "fail"}
        PROVE  FALSE
    <3>1. Top' = fr
      BY <2>1, <2>4, ReturnTop DEF Top
    <3> QED
      BY <2>4, <3>1
  <2>5. ASSUME NEW fr \in Frames, Continue(fr), fr.pc = "start" PROVE FALSE
    <3>1. Top' = fr
      BY <2>1, <2>5, FollowsTop
    <3> QED
      BY <2>5, <3>1
  <2>6. CASE stack' = <<>>
    BY <2>6 DEF Idle
  <2> QED
    BY <1>5, <2>3, <2>4, <2>5, <2>6, ReturnCases
<1>6. CASE stack' = <<>>
  BY <1>6 DEF Idle
<1> QED
  BY <1>1, <1>2, <1>3, <1>4, <1>5, <1>6, StackSteps

\* Whatever failed or died before: at most one version of a port is active, and
\* an activation that succeeds has made its version the active one, with every
\* file of the image in its place and in the registry (activate,
\* _activate_contents).
THEOREM ActivatesOneCorrect == Spec => []ActivatesOne
<1> DEFINE Inv == Callers /\ TopVersions /\ CalledVersions /\ OneActiveVersion /\ Delivery
<1>1. Init => Inv
  <2> SUFFICES ASSUME Init PROVE Inv
    OBVIOUS
  <2>1. stack = <<>> /\ Len(stack) = 0 /\ Idle
    BY DEF Init, Idle
  <2>2. Callers
    BY <2>1 DEF Callers
  <2>3. OneActiveVersion
    BY DEF Init, OneActiveVersion
  <2> QED
    BY <2>1, <2>2, <2>3 DEF TopVersions, CalledVersions, Delivery, At
<1>2. TypeOK /\ Inv /\ [Next]_vars => Inv'
  BY CallersStep, TopVersionsStep, CalledVersionsStep, OneActiveStep, DeliveryStep
<1>3. TypeOK /\ Inv /\ UniqueOwner => ActivatesOne
  <2> SUFFICES ASSUME TypeOK, Inv, UniqueOwner, At("activate", "ok")
               PROVE  /\ state[Top.ent] = "installed"
                      /\ Installed(Port[Top.ent]) = {Top.ent}
                      /\ \A p \in Image(Top.ent) : fs[p] = Top.ent /\ Owner(p) = {Top.ent}
    BY DEF ActivatesOne, ActivationDelivers
  <2>1. Top.ent \in Entries /\ ~Idle
    BY TopFields DEF At
  <2>2. state[Top.ent] = "installed" /\ RowsLinked(Top.ent)
        /\ \A p \in Image(Top.ent) : fs[p] = Top.ent
    BY DEF Delivery
  <2>3. Installed(Port[Top.ent]) \subseteq {Top.ent}
    BY DEF TopVersions, At, Later
  <2>4. Top.ent \in Installed(Port[Top.ent])
    BY <2>1, <2>2 DEF Installed
  <2>5. ASSUME NEW p \in Image(Top.ent) PROVE Owner(p) = {Top.ent}
    <3>1. PICK f \in Contents[Top.ent] : p = <<f, 0>>
      BY DEF Image
    <3>2. <<Top.ent, f, 0>> \in active
      BY <2>2 DEF RowsLinked
    <3>3. Top.ent \in Owner(p)
      BY <2>1, <3>1, <3>2 DEF Owner
    <3>4. ASSUME NEW o \in Owner(p) PROVE o = Top.ent
      <4>1. <<o, f, 0>> \in active
        BY <3>1 DEF Owner
      <4> QED
        BY <3>2, <4>1 DEF UniqueOwner, NoSharedPath
    <3> QED
      BY <3>3, <3>4
  <2> QED
    BY <2>2, <2>3, <2>4, <2>5
<1> HIDE DEF Inv
<1> QED
  BY <1>1, <1>2, <1>3, TypeCorrect, UniqueOwnerCorrect, PTL DEF Spec

(* Activations, deactivations and the rest without force *)

\* A frame backs up nothing; before it moves files in it has moved none; what
\* its error handler activates again are its victims.
FrameOK(fr) ==
    /\ fr.backups = {}
    /\ fr.op = "activate" =>
        /\ fr.pc \in Early => fr.moved = {}
        /\ fr.pc = "react" => fr.calls \subseteq fr.victims
FramesOK == ~force /\ \A i \in 1..Len(stack) : FrameOK(stack[i])

\* What a frame n of the next stack has kept of the frame o that it comes from.
Kept(n, o) ==
    /\ n.op = o.op /\ n.backups \subseteq o.backups
    /\ o.op = "activate" =>
        /\ n.ent = o.ent
        /\ \/ n.victims \subseteq o.victims
           \/ At("activate", "claim") /\ o = Top /\ n.victims \subseteq o.victims \cup Owners
        /\ n.pc \in Early => n.moved = {} \/ (o.pc \in Early /\ n.moved = o.moved)
        /\ n.pc = "react" =>
              \/ n.calls \subseteq n.victims
              \/ o.pc = "react" /\ n.calls \subseteq o.calls /\ n.victims = o.victims
        /\ n.pc \notin {"start", "ok", "fail"} =>
              o.pc \notin {"start", "ok", "fail"} \/ state[o.ent] = "imaged"

\* A frame that is called.
Called(n) ==
    /\ n.pc = "start" /\ n.victims = {} /\ n.backups = {} /\ n.moved = {}
    /\ n.op = "activate" =>
        /\ Top.op = "activate" /\ Top.pc = "react"
        /\ n.ent \in Top.calls /\ state[n.ent] = "imaged"

\* A frame keeps what it has.
LEMMA KeptItself == ASSUME NEW o PROVE Kept(o, o)
  BY DEF Kept

\* Every frame of the next stack comes from one of this stack, in the same order,
\* but for the innermost after a call.
LEMMA FramesMove ==
    ASSUME TypeOK, Callers, ~force, [Next]_vars
    PROVE  \/ stack' = <<>>
           \/ \E fr \in Frames :
                 /\ stack' = <<fr>>
                 /\ fr.pc = "start" /\ fr.victims = {} /\ fr.backups = {} /\ fr.moved = {}
           \/ \E s \in {0, 1} : \A i \in 1..Len(stack') :
                 i + s \in 1..Len(stack) /\ Kept(stack'[i], stack[i + s])
           \/ /\ ~Idle /\ Called(stack'[1])
              /\ \A i \in 2..Len(stack') :
                     i - 1 \in 1..Len(stack) /\ Kept(stack'[i], stack[i - 1])
<1> USE DEF TypeOK
<1>1. CASE stack' = stack
  <2>1. \A i \in 1..Len(stack') : i + 0 \in 1..Len(stack) /\ stack[i + 0] = stack'[i]
    BY <1>1
  <2>2. \A i \in 1..Len(stack') : i + 0 \in 1..Len(stack) /\ Kept(stack'[i], stack[i + 0])
    BY <2>1, KeptItself
  <2> QED
    BY <2>2
<1>2. ASSUME NEW fr \in Frames, Follows(fr)
      PROVE  \A i \in 1..Len(stack') : i + 0 \in 1..Len(stack) /\ Kept(stack'[i], stack[i + 0])
  <2>1. /\ ~Idle /\ Len(stack') = Len(stack) /\ stack'[1] = fr
        /\ \A i \in 2..Len(stack) : stack'[i] = stack[i]
    BY <1>2, FollowsTop DEF Follows
  <2>2. Top = stack[1] /\ Len(stack) \in Nat
    BY <2>1, StackFacts
  <2>3. Kept(fr, Top)
    BY <1>2, <2>1 DEF Follows, Keeps, Kept, At
  <2>4. ASSUME NEW i \in 1..Len(stack')
        PROVE  i + 0 = i /\ i \in 1..Len(stack) /\ Kept(stack'[i], stack[i])
    <3>1. i = 1 \/ i \in 2..Len(stack)
      BY <2>1, <2>2
    <3> QED
      BY <2>1, <2>2, <2>3, <3>1, KeptItself
  <2> QED
    BY <2>4
<1>3. ASSUME NEW fr \in Frames, NEW caller \in Frames, Calls(fr, caller)
      PROVE  /\ ~Idle /\ Called(stack'[1])
             /\ \A i \in 2..Len(stack') :
                    i - 1 \in 1..Len(stack) /\ Kept(stack'[i], stack[i - 1])
  <2>1. /\ ~Idle /\ Len(stack') = Len(stack) + 1 /\ stack'[1] = fr /\ stack'[2] = caller
        /\ \A i \in 3..Len(stack') : stack'[i] = stack[i - 1]
    BY <1>3, CallsTop DEF Calls
  <2>2. Top = stack[1] /\ Len(stack) \in Nat \ {0}
    BY <2>1, StackFacts
  <2>3. Called(fr)
    BY <1>3 DEF Calls, Called
  <2>4. Kept(caller, Top)
    BY <1>3 DEF Calls, Kept, Early
  <2>5. ASSUME NEW i \in 2..Len(stack')
        PROVE  i - 1 \in 1..Len(stack) /\ Kept(stack'[i], stack[i - 1])
    <3>1. i - 1 \in 1..Len(stack) /\ (i = 2 \/ i \in 3..Len(stack')) /\ (i = 2 => i - 1 = 1)
      BY <2>1, <2>2
    <3>2. CASE i = 2
      BY <2>1, <2>2, <2>4, <3>1, <3>2
    <3>3. CASE i # 2
      BY <2>1, <3>1, <3>3, KeptItself
    <3> QED
      BY <3>1, <3>2, <3>3
  <2> QED
    BY <2>1, <2>3, <2>5
<1>4. CASE Return
  <2>1. /\ ~Idle /\ Top.pc \in {"ok", "fail"} /\ stack \in Seq(Frames)
        /\ \/ stack' = <<>>
           \/ /\ Len(stack) > 1
              /\ \/ stack' = Tail(stack)
                 \/ \E fr \in Frames :
                       /\ Continue(fr) /\ fr.pc = "start"
                       /\ fr.op = Top.op /\ fr.ent = Top.ent
                       /\ fr.victims = {} /\ fr.backups = {} /\ fr.moved = {}
                 \/ \E fr \in Frames :
                       /\ stack' = <<fr>> \o Tail(Tail(stack))
                       /\ fr.op = stack[2].op /\ fr.pc \in {"restore", "fail"}
                       /\ fr.pc = "restore" => stack[2].pc = "replaced"
                       /\ fr.ent = stack[2].ent /\ fr.victims = stack[2].victims
                       /\ fr.backups = stack[2].backups
    BY <1>4, ReturnCases
  <2>2. Top = stack[1] /\ Len(stack) \in Nat \ {0}
    BY <2>1, StackFacts
  <2>3. CASE Len(stack) > 1 /\ stack' = Tail(stack)
    <3>1. PICK fr \in Frames : TRUE
      BY <2>1, StackFacts
    <3>2. /\ Len(Tail(stack)) = Len(stack) - 1
          /\ \A i \in 1..Len(stack) - 1 : Tail(stack)[i] = stack[i + 1]
      BY <2>1, <2>3, <3>1, ReturnTop
    <3>3. \A i \in 1..Len(stack') : i + 1 \in 1..Len(stack) /\ stack'[i] = stack[i + 1]
      BY <2>2, <2>3, <3>2
    <3> QED
      BY <3>3, KeptItself
  <2>4. ASSUME NEW fr \in Frames, Continue(fr), fr.pc = "start",
               fr.op = Top.op, fr.ent = Top.ent,
               fr.victims = {}, fr.backups = {}, fr.moved = {}
        PROVE  \A i \in 1..Len(stack') : i + 0 \in 1..Len(stack) /\ Kept(stack'[i], stack[i + 0])
    <3>1. /\ Len(stack') = Len(stack) /\ stack'[1] = fr
          /\ \A i \in 2..Len(stack) : stack'[i] = stack[i]
      BY <2>1, <2>4, FollowsTop
    <3>2. Kept(fr, Top)
      BY <2>4 DEF Kept
    <3>3. ASSUME NEW i \in 1..Len(stack')
          PROVE  i + 0 = i /\ i \in 1..Len(stack) /\ Kept(stack'[i], stack[i])
      <4>1. i = 1 \/ i \in 2..Len(stack)
        BY <2>2, <3>1
      <4> QED
        BY <2>2, <3>1, <3>2, <4>1, KeptItself
    <3> QED
      BY <3>3
  <2>5. ASSUME Len(stack) > 1, NEW fr \in Frames,
               stack' = <<fr>> \o Tail(Tail(stack)), fr.op = stack[2].op,
               fr.pc \in {"restore", "fail"}, fr.pc = "restore" => stack[2].pc = "replaced",
               fr.ent = stack[2].ent, fr.victims = stack[2].victims,
               fr.backups = stack[2].backups
        PROVE  \A i \in 1..Len(stack') : i + 1 \in 1..Len(stack) /\ Kept(stack'[i], stack[i + 1])
    <3>1. /\ Len(stack') = Len(stack) - 1 /\ stack'[1] = fr
          /\ \A i \in 2..Len(stack) - 1 : stack'[i] = stack[i + 1]
      BY ZenonT(60), <2>1, <2>5, ReturnTop
    <3>2. Kept(fr, stack[2])
      BY <2>5 DEF Kept, Early
    <3>3. ASSUME NEW i \in 1..Len(stack')
          PROVE  i + 1 \in 1..Len(stack) /\ Kept(stack'[i], stack[i + 1])
      <4>1. i + 1 \in 1..Len(stack) /\ (i = 1 \/ i \in 2..Len(stack) - 1) /\ (i = 1 => i + 1 = 2)
        BY <2>2, <2>5, <3>1
      <4>2. CASE i = 1
        BY <3>1, <3>2, <4>1, <4>2
      <4>3. CASE i # 1
        BY <3>1, <4>1, <4>3, KeptItself
      <4> QED
        BY <4>1, <4>2, <4>3
    <3> QED
      BY <3>3
  <2> QED
    BY <2>1, <2>3, <2>4, <2>5
<1> QED
  BY <1>1, <1>2, <1>3, <1>4, StackSteps

\* Without -f no command sets portimage::force, and the frames keep FrameOK.
LEMMA FramesOKStep ==
    ASSUME Forcing = {FALSE}, TypeOK, Callers, FramesOK, [Next]_vars PROVE FramesOK'
<1>1. ~force'
  BY DEF FramesOK, Next, Step, ActivateStep, UndoStep, DeactivateStep, ImageStep, Return,
     ActivateStart, OthersDone, Extract, ExtractFails, CallDeactivate, ClaimReplaced,
     ClaimFree, ClaimRefused, ClaimForced, ClaimFails, ClaimDone, ReplacedDone, Link,
     Move, MoveFails, MoveDone, Mark, Unmove, Restore, UnmoveDone, RestoreDone, ReactDone,
     LateFails, CallActivate, DeactivateStart, Unlink, Remove, RemoveFails, RemoveDone,
     Unmark, UnmarkFails, UninstallStart, DeleteImage, DeleteEntry, InstallStart, Record,
     EntryFails, Command, UserMakes, NewProcess, Crash, vars
<1>2. ASSUME NEW n, n.pc = "start" /\ n.victims = {} /\ n.backups = {} /\ n.moved = {}
      PROVE  FrameOK(n)
  BY <1>2 DEF FrameOK
<1>3. ASSUME NEW n, NEW i \in 1..Len(stack), Kept(n, stack[i]) PROVE FrameOK(n)
  BY <1>3 DEF FramesOK, FrameOK, Kept
<1>4. \A i \in 1..Len(stack') : FrameOK(stack'[i])
  <2>1. CASE stack' = <<>>
    BY <2>1
  <2>2. ASSUME NEW fr \in Frames, stack' = <<fr>>, FrameOK(fr)
        PROVE  \A i \in 1..Len(stack') : FrameOK(stack'[i])
    BY <2>2
  <2>3. ASSUME NEW s \in {0, 1},
               \A i \in 1..Len(stack') :
                   i + s \in 1..Len(stack) /\ Kept(stack'[i], stack[i + s])
        PROVE  \A i \in 1..Len(stack') : FrameOK(stack'[i])
    BY <1>3, <2>3
  <2>4. CASE /\ ~Idle /\ Called(stack'[1])
             /\ \A i \in 2..Len(stack') :
                    i - 1 \in 1..Len(stack) /\ Kept(stack'[i], stack[i - 1])
    <3>1. FrameOK(stack'[1])
      BY <1>2, <2>4 DEF Called
    <3>2. \A i \in 2..Len(stack') : FrameOK(stack'[i])
      BY <1>3, <2>4
    <3>3. \A i \in 1..Len(stack') : i = 1 \/ i \in 2..Len(stack')
      <4>1. stack' \in Seq(Frames)
        BY StackType
      <4> QED
        BY <4>1
    <3> QED
      BY <3>1, <3>2, <3>3
  <2> QED
    BY <1>2, <2>1, <2>2, <2>3, <2>4, FramesMove DEF FramesOK
<1> QED
  BY <1>1, <1>4 DEF FramesOK

\* Which steps change the state of an entry, and of which.
LEMMA StateChanges ==
    ASSUME TypeOK, [Next]_vars
    PROVE  \/ state' = state
           \/ Mark /\ state' = [state EXCEPT ![Top.ent] = "installed"]
           \/ Unmark /\ state' = [state EXCEPT ![Top.ent] = "imaged"]
           \/ DeleteEntry /\ state' = [state EXCEPT ![Top.ent] = "absent"]
           \/ Record /\ state' = [state EXCEPT ![Top.ent] = "imaged"]
<1>1. CASE Mark \/ Unmark \/ DeleteEntry \/ Record
  BY <1>1 DEF Mark, Unmark, DeleteEntry, Record
<1>2. ASSUME ~(Mark \/ Unmark \/ DeleteEntry \/ Record) PROVE state' = state
  BY <1>2 DEF Next, Step, ActivateStep, UndoStep, DeactivateStep, ImageStep, Return,
     ActivateStart, OthersDone, Extract, ExtractFails, CallDeactivate, ClaimReplaced,
     ClaimFree, ClaimRefused, ClaimForced, ClaimFails, ClaimDone, ReplacedDone, Link,
     Move, MoveFails, MoveDone, Unmove, Restore, UnmoveDone, RestoreDone, ReactDone,
     LateFails, CallActivate, DeactivateStart, Unlink, Remove, RemoveFails, RemoveDone,
     UnmarkFails, UninstallStart, DeleteImage, InstallStart, EntryFails, Command,
     UserMakes, NewProcess, Crash, vars, registry, environment
<1> QED
  BY <1>1, <1>2

\* The state of the entry that the innermost procedure works on; and what a
\* deactivation that uninstall called works on.
TopStates == ~Idle =>
    /\ Top.op = "deactivate" =>
        /\ Top.pc \in {"unlink", "remove", "unmark"} => state[Top.ent] = "installed"
        /\ Top.pc = "ok" => state[Top.ent] = "imaged"
        /\ Len(stack) >= 2 /\ stack[2].op = "uninstall" =>
              Top.ent = stack[2].ent /\ Top.via # "name"
    /\ Top.op = "uninstall" /\ Top.pc \in {"image", "entry"} => state[Top.ent] = "imaged"
    /\ Top.op = "install" /\ Top.pc = "record" => state[Top.ent] = "absent"

\* Where the steps that change a state lead.
LEMMA StateSteps ==
    ASSUME TypeOK, Mark \/ Unmark \/ DeleteEntry \/ Record
    PROVE  /\ ~Idle /\ ~Idle' /\ Top'.op = Top.op /\ Top'.ent = Top.ent /\ Top'.pc = "ok"
           /\ Top'.via = Top.via
           /\ Len(stack') = Len(stack) /\ \A i \in 2..Len(stack) : stack'[i] = stack[i]
           /\ Top.op = "deactivate" => Unmark
<1> USE DEF TypeOK
<1> DEFINE fr == [Top EXCEPT !.pc = "ok"]
<1>1. ~Idle /\ Continue(fr) /\ (Top.op = "deactivate" => Unmark)
  BY DEF Mark, Unmark, DeleteEntry, Record, At, Goto
<1>2. Top \in Frames
  BY <1>1, FramesNonempty
<1>3. /\ fr \in Frames /\ fr.op = Top.op /\ fr.ent = Top.ent /\ fr.pc = "ok"
      /\ fr.via = Top.via
  BY <1>2 DEF Frames, Pcs
<1> HIDE DEF fr
<1> QED
  BY <1>1, <1>3, FollowsTop

\* Every step keeps TopStates.
LEMMA TopStatesStep ==
    ASSUME TypeOK, Callers, TopStates, [Next]_vars PROVE TopStates'
<1> USE DEF TypeOK
<1>1. CASE Mark \/ Unmark \/ DeleteEntry \/ Record
  <2>1. /\ ~Idle /\ ~Idle' /\ Top'.op = Top.op /\ Top'.ent = Top.ent /\ Top'.pc = "ok"
        /\ Top'.via = Top.via
        /\ Len(stack') = Len(stack) /\ \A i \in 2..Len(stack) : stack'[i] = stack[i]
        /\ Top.op = "deactivate" => Unmark
    BY <1>1, StateSteps
  <2>2. Top.op = "deactivate" => state'[Top.ent] = "imaged"
    BY <2>1, TopFields DEF Unmark
  <2>3. Len(stack) >= 2 => stack'[2] = stack[2]
    BY <2>1
  <2> QED
    BY <2>1, <2>2, <2>3 DEF TopStates
<1>2. ASSUME state' = state, NEW fr \in Frames, Follows(fr),
             ~(Mark \/ Unmark \/ DeleteEntry \/ Record)
      PROVE  TopStates'
  <2>1. /\ ~Idle /\ ~Idle' /\ Top' = fr /\ Len(stack') = Len(stack)
        /\ \A i \in 2..Len(stack) : stack'[i] = stack[i]
    BY <1>2, FollowsTop DEF Follows
  <2>2. fr.op = Top.op /\ fr.via = Top.via /\ Keeps(fr)
        /\ (Top.via # "name" \/ Top.op # "deactivate" => fr.ent = Top.ent)
        /\ (Top.op = "deactivate" => fr.pc # "ok")
    BY <1>2 DEF Follows
  <2>3. Len(stack) >= 2 => stack'[2] = stack[2]
    BY <2>1
  <2>4. CASE Top.op = "deactivate"
    <3>1. fr.pc = "unlink" => state[fr.ent] = "installed"
      BY <2>2, <2>4 DEF Keeps
    <3>2. ASSUME fr.pc \in {"remove", "unmark"}
          PROVE  state[fr.ent] = "installed"
      <4>1. Top.pc \in {"unlink", "remove"}
        BY <2>2, <2>4, <3>2 DEF Keeps, Unlink, RemoveDone, Remove, At
      <4>2. fr.ent = Top.ent
        BY <2>2, <2>4, <4>1 DEF Keeps
      <4> QED
        BY <2>1, <2>4, <4>1, <4>2 DEF TopStates
    <3> QED
      BY <1>2, <2>1, <2>2, <2>3, <2>4, <3>1, <3>2 DEF TopStates
  <2>5. CASE Top.op = "uninstall"
    <3>1. fr.pc \in {"image", "entry"} => state[fr.ent] = "imaged"
      BY <2>1, <2>2, <2>5 DEF Keeps, TopStates
    <3> QED
      BY <1>2, <2>1, <2>2, <2>5, <3>1 DEF TopStates
  <2>6. CASE Top.op = "install"
    <3>1. fr.pc = "record" => state[fr.ent] = "absent"
      <4>1. ASSUME InstallStart, Goto("fail") PROVE fr.pc = "fail"
        <5>1. Continue([Top EXCEPT !.pc = "fail"]) /\ Continue(fr) /\ Top \in Frames
          BY <1>2, <2>1, <4>1, FramesNonempty DEF Goto, Follows
        <5> DEFINE no == [Top EXCEPT !.pc = "fail"]
        <5>2. no \in Frames /\ no.pc = "fail"
          BY <5>1 DEF Frames, Pcs
        <5> HIDE DEF no
        <5>3. Top' = no
          BY <2>1, <5>1, <5>2, FollowsTop DEF no
        <5> QED
          BY <2>1, <5>2, <5>3
      <4>2. InstallStart => state[Top.ent] = "absent" \/ Goto("fail")
        BY DEF InstallStart
      <4> QED
        BY <2>2, <2>6, <4>1, <4>2 DEF Keeps
    <3> QED
      BY <1>2, <2>1, <2>2, <2>6, <3>1 DEF TopStates
  <2>7. CASE Top.op = "activate"
    BY <2>1, <2>2, <2>7 DEF TopStates
  <2> QED
    BY <2>1, <2>4, <2>5, <2>6, <2>7, FramesNonempty DEF Frames, Ops
<1>3. ASSUME NEW fr \in Frames, NEW caller \in Frames, Calls(fr, caller) PROVE TopStates'
  <2>1. /\ ~Idle /\ ~Idle' /\ Top' = fr /\ stack'[2] = caller
    BY <1>3, CallsTop DEF Calls
  <2> QED
    BY <1>3, <2>1 DEF Calls, TopStates
<1>4. CASE Return
  <2>1. /\ ~Idle /\ UNCHANGED state
        /\ \/ stack' = <<>>
           \/ /\ Len(stack) > 1
              /\ \/ stack' = Tail(stack) /\ (Top.pc = "ok" \/ AsWanted(Top))
                 \/ \E fr \in Frames :
                       /\ Continue(fr) /\ fr.pc = "start"
                       /\ fr.op = Top.op /\ fr.ent = Top.ent
                       /\ stack[2].pc # "replaced" => fr.via # "name"
                 \/ \E fr \in Frames :
                       /\ stack' = <<fr>> \o Tail(Tail(stack))
                       /\ fr.op = stack[2].op /\ fr.pc \in {"restore", "fail"}
    BY <1>4, ReturnCases
  <2>2. Top = stack[1] /\ Len(stack) \in Nat \ {0} /\ stack \in Seq(Frames)
    BY <2>1, StackFacts
  <2>3. ASSUME Len(stack) > 1
        PROVE  /\ stack[2].op \in {"activate", "uninstall"}
               /\ stack[2].op = "uninstall" => stack[2].pc = "image" /\ Top.op = "deactivate"
    <3>1. 2 \in 2..Len(stack)
      BY <2>2, <2>3
    <3> QED
      BY <2>2, <3>1 DEF Callers
  <2>4. CASE Len(stack) > 1 /\ stack' = Tail(stack) /\ (Top.pc = "ok" \/ AsWanted(Top))
    <3>1. Tail(stack) # <<>> /\ Head(Tail(stack)) = stack[2]
      BY <2>1, <2>2, <2>4, StackFacts, ReturnTop
    <3>2. ~Idle' /\ Top' = stack[2]
      BY <2>4, <3>1 DEF Idle, Top
    <3>3. stack[2].op = "uninstall" => state[stack[2].ent] = "imaged"
      <4>1. Len(stack) >= 2
        BY <2>2, <2>4
      <4> QED
        BY <2>1, <2>3, <2>4, <4>1 DEF TopStates, AsWanted
    <3> QED
      BY <2>1, <2>3, <2>4, <3>2, <3>3 DEF TopStates
  <2>5. ASSUME Len(stack) > 1, NEW fr \in Frames, Continue(fr), fr.pc = "start",
               fr.op = Top.op, fr.ent = Top.ent,
               stack[2].pc # "replaced" => fr.via # "name"
        PROVE  TopStates'
    <3>1. /\ ~Idle' /\ Top' = fr /\ Len(stack') = Len(stack)
          /\ \A i \in 2..Len(stack) : stack'[i] = stack[i]
      BY <2>1, <2>5, FollowsTop
    <3>2. stack'[2] = stack[2] /\ Len(stack) >= 2
      BY <2>2, <2>5, <3>1
    <3> QED
      BY <2>1, <2>3, <2>5, <3>1, <3>2 DEF TopStates
  <2>6. ASSUME Len(stack) > 1, NEW fr \in Frames,
               stack' = <<fr>> \o Tail(Tail(stack)),
               fr.op = stack[2].op, fr.pc \in {"restore", "fail"}
        PROVE  TopStates'
    <3>1. stack' # <<>> /\ Head(stack') = fr
      BY <2>1, <2>2, <2>6, ReturnTop
    <3>2. ~Idle' /\ Top' = fr
      BY <3>1 DEF Idle, Top
    <3> QED
      BY <2>3, <2>6, <3>2 DEF TopStates
  <2>7. CASE stack' = <<>>
    BY <2>7 DEF TopStates, Idle
  <2> QED
    BY <2>1, <2>4, <2>5, <2>6, <2>7
<1>5. CASE stack' = <<>>
  BY <1>5 DEF TopStates, Idle
<1>6. ASSUME NEW fr \in Frames, stack' = <<fr>>, fr.pc = "start" PROVE TopStates'
  <2>1. ~Idle' /\ Top' = fr /\ Len(stack') = 1
    BY <1>6 DEF Idle, Top
  <2> QED
    BY <1>6, <2>1 DEF TopStates
<1>7. CASE UNCHANGED <<stack, state, active>>
  BY <1>7 DEF TopStates, Idle, Top
<1> QED
  BY <1>1, <1>2, <1>3, <1>4, <1>5, <1>6, <1>7, StackSteps, StateChanges

\* The innermost procedure goes on with this program counter, this list and
\* these files moved.
Becomes(pc, todo, moved) ==
    /\ ~Idle' /\ Top'.op = Top.op /\ Top'.ent = Top.ent /\ Top'.pc = pc
    /\ Top'.todo = todo /\ Top'.moved = moved

\* Goto and Continue do.
LEMMA GotoBecomes ==
    ASSUME TypeOK, ~Idle, NEW pc \in Pcs, Goto(pc)
    PROVE  Becomes(pc, Top.todo, Top.moved)
<1> DEFINE fr == [Top EXCEPT !.pc = pc]
<1>1. Top \in Frames
  BY FramesNonempty DEF TypeOK
<1>2. /\ fr \in Frames /\ fr.op = Top.op /\ fr.ent = Top.ent /\ fr.pc = pc
      /\ fr.todo = Top.todo /\ fr.moved = Top.moved
  BY <1>1 DEF Frames
<1>3. Continue(fr)
  BY DEF Goto
<1> HIDE DEF fr
<1> QED
  BY <1>2, <1>3, FollowsTop DEF Becomes

\* A frame of the same procedure that goes on does.
LEMMA FrameBecomes ==
    ASSUME TypeOK, ~Idle, NEW fr \in Frames, Continue(fr),
           fr.op = Top.op, fr.ent = Top.ent
    PROVE  Becomes(fr.pc, fr.todo, fr.moved)
  BY FollowsTop DEF Becomes

\* The steps that change the stores, or lead to those that do.
Effects ==
    \/ Link \/ MoveFails \/ MoveDone \/ Mark
    \/ Unlink \/ RemoveFails \/ RemoveDone \/ Unmark
    \/ DeleteImage \/ DeleteEntry \/ InstallStart \/ Record
    \/ \E p \in Paths : Move(p) \/ Remove(p)
    \/ \E f \in Files : Unmove(f) \/ UserMakes(f)
    \/ Crash

\* Where the innermost procedure is between two such steps.
Busy ==
    \/ At("activate", "move") \/ At("activate", "mark") \/ At("activate", "unmove")
    \/ At("deactivate", "remove") \/ At("deactivate", "unmark")
    \/ At("uninstall", "entry") \/ At("install", "record")

\* The registry's rows in this connection's view and as committed: the same,
\* except while the two transactions that take several steps are open. What
\* they have done so far.
Committing ==
    /\ ~At("activate", "move") /\ ~At("deactivate", "remove") => active = committed
    /\ At("deactivate", "remove") =>
         /\ active \subseteq committed
         /\ \A p \in Top.todo : \E r \in committed : r[2] = p[1] /\ r[3] = p[2]
    /\ At("activate", "move") =>
         /\ Top.todo \subseteq Image(Top.ent)
         /\ \A r \in active :
                r \in committed \/ (r[1] = Top.ent /\ r[3] = 0 /\ r[2] \in Contents[Top.ent])
         /\ \A h \in Contents[Top.ent] : <<h, 0>> \in Top.todo \/ h \in Top.moved

\* The other steps leave the stores as they are, and nothing in between.
LEMMA QuietStores ==
    ASSUME Forcing = {FALSE}, TypeOK, FramesOK, Committing, [Next]_vars, ~Effects
    PROVE  UNCHANGED <<state, active, committed, archive, fs>>
<1>1. ~force /\ (~Idle => Top.backups = {})
  <2>1. ~Idle => 1 \in 1..Len(stack) /\ Top = stack[1]
    BY StackFacts
  <2> QED
    BY <2>1 DEF FramesOK, FrameOK
<1>2. CASE ActivateStep
  <2>1. CASE ActivateStart \/ OthersDone \/ Extract \/ ExtractFails \/ ReplacedDone
             \/ \E o \in Entries : CallDeactivate(o)
    BY <2>1 DEF ActivateStart, OthersDone, Extract, ExtractFails, ReplacedDone,
                CallDeactivate, registry
  <2>2. CASE \E p \in Paths : ClaimReplaced(p) \/ ClaimFree(p)
    BY <2>2 DEF ClaimReplaced, ClaimFree, registry
  <2>3. CASE ClaimFails \/ ClaimDone \/ \E p \in Paths : ClaimRefused(p)
    <3>1. active = committed
      BY <2>3 DEF ClaimFails, ClaimDone, ClaimRefused, Committing, At
    <3> QED
      BY <2>3, <3>1 DEF ClaimFails, ClaimDone, ClaimRefused, Rollback, Commit
  <2>4. \A p \in Paths : ~ClaimForced(p)
    BY <1>1 DEF ClaimForced
  <2> QED
    BY <1>2, <2>1, <2>2, <2>3, <2>4 DEF ActivateStep, Effects
<1>3. CASE UndoStep
  <2>1. \A f \in Files : ~Restore(f)
    BY <1>1 DEF Restore, At
  <2>2. CASE UnmoveDone \/ RestoreDone \/ ReactDone \/ LateFails
             \/ \E v \in Entries : CallActivate(v)
    BY <2>2 DEF UnmoveDone, RestoreDone, ReactDone, LateFails, CallActivate, registry
  <2> QED
    BY <1>3, <2>1, <2>2 DEF UndoStep, Effects
<1>4. CASE DeactivateStep
  <2>1. CASE DeactivateStart \/ UnmarkFails
    BY <2>1 DEF DeactivateStart, UnmarkFails, registry
  <2> QED
    BY <1>4, <2>1 DEF DeactivateStep, Effects
<1>5. CASE ImageStep
  <2>1. CASE UninstallStart \/ EntryFails
    BY <2>1 DEF UninstallStart, EntryFails, registry
  <2> QED
    BY <1>5, <2>1 DEF ImageStep, Effects
<1>6. CASE Return \/ NewProcess
           \/ \E op \in Ops, e \in Entries, forced \in Forcing : Command(op, e, forced)
  BY <1>6 DEF Return, NewProcess, Command, registry
<1>7. CASE UNCHANGED vars
  BY <1>7 DEF vars
<1> QED
  BY <1>2, <1>3, <1>4, <1>5, <1>6, <1>7 DEF Next, Step, Effects

\* What cannot be undone stays so.
LEMMA CleanSteps ==
    ASSUME [Next]_vars PROVE clean' => clean
<1>1. CASE ActivateStep
  BY <1>1 DEF ActivateStep, ActivateStart, OthersDone, Extract, ExtractFails,
     CallDeactivate, ClaimReplaced, ClaimFree, ClaimRefused, ClaimForced, ClaimFails,
     ClaimDone, ReplacedDone, Link, Move, MoveFails, MoveDone, Mark, environment
<1>2. CASE UndoStep
  BY <1>2 DEF UndoStep, Unmove, Restore, UnmoveDone, RestoreDone, ReactDone, LateFails,
     CallActivate, environment
<1>3. CASE DeactivateStep
  BY <1>3 DEF DeactivateStep, DeactivateStart, Unlink, Remove, RemoveFails, RemoveDone,
     Unmark, UnmarkFails, environment
<1>4. CASE ImageStep
  BY <1>4 DEF ImageStep, UninstallStart, DeleteImage, DeleteEntry, InstallStart, Record,
     EntryFails, environment
<1>5. CASE Return \/ NewProcess \/ Crash \/ (\E f \in Files : UserMakes(f))
           \/ \E op \in Ops, e \in Entries, forced \in Forcing : Command(op, e, forced)
  BY <1>5 DEF Return, NewProcess, Crash, UserMakes, Command, environment
<1>6. CASE UNCHANGED vars
  BY <1>6 DEF vars
<1> QED
  BY <1>1, <1>2, <1>3, <1>4, <1>5, <1>6 DEF Next, Step

\* Nor do they lead to where the stores are changed,
LEMMA QuietLeads ==
    ASSUME TypeOK, Callers, [Next]_vars, ~Effects
    PROVE  ~Busy' \/ stack' = stack
<1> USE DEF TypeOK
<1>1. CASE stack' = <<>>
  BY <1>1 DEF Busy, At, Idle
<1>2. ASSUME NEW fr \in Frames, stack' = <<fr>>, fr.pc = "start" PROVE ~Busy'
  <2>1. Top' = fr
    BY <1>2 DEF Top
  <2> QED
    BY <1>2, <2>1 DEF Busy, At
<1>3. ASSUME NEW fr \in Frames, Follows(fr) PROVE ~Busy'
  <2>1. Top' = fr /\ fr.op = Top.op
    BY <1>3, FollowsTop DEF Follows
  <2>2. fr.op = "activate" => fr.pc \notin {"move", "mark", "unmove"}
    BY <1>3, <2>1 DEF Follows, Keeps, Delivers, Effects
  <2>3. fr.op = "deactivate" => fr.pc \notin {"remove", "unmark"}
    BY <1>3, <2>1 DEF Follows, Keeps, Effects
  <2>4. /\ fr.op = "uninstall" => fr.pc # "entry"
        /\ fr.op = "install" => fr.pc # "record"
    BY <1>3, <2>1 DEF Follows, Keeps, Effects
  <2> QED
    BY <2>1, <2>2, <2>3, <2>4 DEF Busy, At
<1>4. ASSUME NEW fr \in Frames, NEW caller \in Frames, Calls(fr, caller) PROVE ~Busy'
  <2>1. Top' = fr
    BY <1>4, CallsTop DEF Calls
  <2> QED
    BY <1>4, <2>1 DEF Busy, At, Calls
<1>5. CASE Return
  <2>1. /\ ~Idle
        /\ \/ stack' = <<>>
           \/ /\ Len(stack) > 1
              /\ \/ stack' = Tail(stack)
                 \/ \E fr \in Frames : Continue(fr) /\ fr.pc = "start"
                 \/ \E fr \in Frames :
                       stack' = <<fr>> \o Tail(Tail(stack)) /\ fr.pc \in {"restore", "fail"}
    BY <1>5, ReturnCases
  <2>2. Top = stack[1] /\ Len(stack) \in Nat \ {0} /\ stack \in Seq(Frames)
    BY <2>1, StackFacts
  <2>3. CASE Len(stack) > 1 /\ stack' = Tail(stack)
    <3>1. Tail(stack) # <<>> /\ Head(Tail(stack)) = stack[2]
      BY <2>1, <2>2, <2>3, StackFacts, ReturnTop
    <3>2. Top' = stack[2]
      BY <2>3, <3>1 DEF Top
    <3>3. 2 \in 2..Len(stack)
      BY <2>2, <2>3
    <3>4. stack[2].pc \in {"react", "others", "replaced", "image"}
      BY <3>3 DEF Callers
    <3> QED
      BY <3>2, <3>4 DEF Busy, At
  <2>4. ASSUME NEW fr \in Frames, Continue(fr), fr.pc = "start" PROVE ~Busy'
    <3>1. Top' = fr
      BY <2>1, <2>4, FollowsTop
    <3> QED
      BY <2>4, <3>1 DEF Busy, At
  <2>5. ASSUME Len(stack) > 1, NEW fr \in Frames,
               stack' = <<fr>> \o Tail(Tail(stack)), fr.pc \in {"restore", "fail"}
        PROVE  ~Busy'
    <3>1. Head(stack') = fr
      BY <2>1, <2>2, <2>5, ReturnTop
    <3>2. Top' = fr
      BY <3>1 DEF Top
    <3> QED
      BY <2>5, <3>2 DEF Busy, At
  <2> QED
    BY <1>1, <2>1, <2>3, <2>4, <2>5
<1>6. CASE UNCHANGED <<stack, state, active>>
  BY <1>6
<1> QED
  BY <1>1, <1>2, <1>3, <1>4, <1>5, <1>6, StackSteps

\* and what leaves such a place leaves nothing to do, or cannot be undone.
LEMMA QuietLeaves ==
    ASSUME TypeOK, [Next]_vars, ~Effects, Busy, stack' # stack, clean'
    PROVE  (At("activate", "unmove") /\ Top.moved = {}) \/ At("install", "record")
<1>1. ~Idle
  BY DEF Busy, At
<1>2. Top.pc \in {"move", "mark", "unmove", "remove", "unmark", "entry", "record"}
  BY DEF Busy, At
<1>3. CASE UndoStep
  BY <1>1, <1>2, <1>3 DEF UndoStep, Effects, Restore, UnmoveDone, RestoreDone, ReactDone,
     LateFails, CallActivate, At
<1>4. CASE EntryFails \/ UnmarkFails
  BY <1>4 DEF EntryFails, UnmarkFails, At
<1>5. ~(ActivateStep \/ UninstallStart \/ DeactivateStart \/ Return)
  BY <1>1, <1>2 DEF ActivateStep, Effects, UninstallStart, DeactivateStart, Return,
     ActivateStart, OthersDone, Extract, ExtractFails, CallDeactivate, ClaimReplaced,
     ClaimFree, ClaimRefused, ClaimForced, ClaimFails, ClaimDone, ReplacedDone, At
<1>6. ~(NewProcess \/ (\E op \in Ops, e \in Entries, forced \in Forcing : Command(op, e, forced))
        \/ UNCHANGED vars)
  BY <1>1 DEF NewProcess, Command, vars
<1> QED
  BY <1>3, <1>4, <1>5, <1>6 DEF Next, Step, DeactivateStep, ImageStep, Effects

\* The files that an activation has moved in are there.
MovedThere == At("activate", "move") \/ At("activate", "unmove") =>
    \A h \in Top.moved : fs[<<h, 0>>] = Top.ent

\* Where a port has a file, by what is committed, the user has none.
NoUserAtRow == \A r \in committed : fs[<<r[2], r[3]>>] # "user"

StoresInv == Committing /\ MovedThere /\ NoUserAtRow

\* What the steps that go on lead to.
LEMMA EffectsBecome ==
    ASSUME TypeOK
    PROVE  /\ Link => IF Taken(Image(Top.ent)) THEN Becomes("unmove", Top.todo, Top.moved)
                      ELSE Becomes("move", Image(Top.ent), Top.moved)
           /\ \A p \in Paths :
                /\ Move(p) => IF Exists(p) THEN Becomes("unmove", Top.todo, Top.moved)
                              ELSE Becomes("move", Top.todo \ {p}, Top.moved \cup {p[1]})
                /\ Remove(p) => Becomes("remove", Top.todo \ {p}, Top.moved)
           /\ MoveFails => Becomes("unmove", Top.todo, Top.moved)
           /\ MoveDone => Becomes("mark", Top.todo, Top.moved)
           /\ \A f \in Files : Unmove(f) => Becomes("unmove", Top.todo, Top.moved \ {f})
           /\ Unlink => Becomes("remove", {<<r[2], r[3]>> : r \in RowsOf(Top.ent)}, Top.moved)
           /\ RemoveFails => Becomes("fail", Top.todo, Top.moved)
           /\ RemoveDone => Becomes("unmark", Top.todo, Top.moved)
           /\ Mark \/ Unmark \/ DeleteEntry \/ Record => Becomes("ok", Top.todo, Top.moved)
           /\ DeleteImage => Becomes("entry", Top.todo, Top.moved)
           /\ InstallStart => IF state[Top.ent] = "absent"
                              THEN Becomes("record", Top.todo, Top.moved)
                              ELSE Becomes("fail", Top.todo, Top.moved)
<1> USE DEF TypeOK
<1>f. ~Idle => Top \in Frames
  BY FramesNonempty
<1>g. ASSUME ~Idle, NEW pc \in {"unmove", "mark", "fail", "unmark", "ok", "entry", "record"},
             Goto(pc)
      PROVE  Becomes(pc, Top.todo, Top.moved)
  BY <1>g, GotoBecomes DEF Pcs
<1>1. ASSUME Link, ~Taken(Image(Top.ent)) PROVE Becomes("move", Image(Top.ent), Top.moved)
  <2> DEFINE fr == [Top EXCEPT !.pc = "move", !.todo = Image(Top.ent)]
  <2>1. ~Idle /\ Continue(fr)
    BY <1>1 DEF Link, At
  <2>2. /\ fr \in Frames /\ fr.op = Top.op /\ fr.ent = Top.ent
        /\ fr.pc = "move" /\ fr.todo = Image(Top.ent) /\ fr.moved = Top.moved
    BY <1>f, <2>1, OperatorTypes DEF Frames, Pcs
  <2> HIDE DEF fr
  <2>3. Becomes(fr.pc, fr.todo, fr.moved)
    BY <2>1, <2>2, FrameBecomes
  <2> QED
    BY <2>2, <2>3
<1>2. ASSUME NEW p \in Paths, Move(p), ~Exists(p)
      PROVE  Becomes("move", Top.todo \ {p}, Top.moved \cup {p[1]})
  <2> DEFINE fr == [Claimed(p) EXCEPT !.moved = @ \cup {p[1]}]
  <2>1. ~Idle /\ Continue(fr) /\ Top.pc = "move"
    BY <1>2 DEF Move, At
  <2>2. p[1] \in Files
    BY DEF Paths
  <2>3. /\ fr \in Frames /\ fr.op = Top.op /\ fr.ent = Top.ent
        /\ fr.pc = "move" /\ fr.todo = Top.todo \ {p} /\ fr.moved = Top.moved \cup {p[1]}
    BY <1>f, <2>1, <2>2 DEF Frames, Claimed
  <2> HIDE DEF fr
  <2>4. Becomes(fr.pc, fr.todo, fr.moved)
    BY <2>1, <2>3, FrameBecomes
  <2> QED
    BY <2>3, <2>4
<1>3. ASSUME NEW p \in Paths, Remove(p) PROVE Becomes("remove", Top.todo \ {p}, Top.moved)
  <2> DEFINE fr == Claimed(p)
  <2>1. ~Idle /\ Continue(fr) /\ Top.pc = "remove"
    BY <1>3 DEF Remove, At
  <2>3. /\ fr \in Frames /\ fr.op = Top.op /\ fr.ent = Top.ent
        /\ fr.pc = "remove" /\ fr.todo = Top.todo \ {p} /\ fr.moved = Top.moved
    BY <1>f, <2>1 DEF Frames, Claimed
  <2> HIDE DEF fr
  <2>4. Becomes(fr.pc, fr.todo, fr.moved)
    BY <2>1, <2>3, FrameBecomes
  <2> QED
    BY <2>3, <2>4
<1>4. ASSUME NEW f \in Files, Unmove(f) PROVE Becomes("unmove", Top.todo, Top.moved \ {f})
  <2> DEFINE fr == [Top EXCEPT !.moved = @ \ {f}]
  <2>1. ~Idle /\ Continue(fr) /\ Top.pc = "unmove"
    BY <1>4 DEF Unmove, At
  <2>3. /\ fr \in Frames /\ fr.op = Top.op /\ fr.ent = Top.ent
        /\ fr.pc = "unmove" /\ fr.todo = Top.todo /\ fr.moved = Top.moved \ {f}
    BY <1>f, <2>1 DEF Frames
  <2> HIDE DEF fr
  <2>4. Becomes(fr.pc, fr.todo, fr.moved)
    BY <2>1, <2>3, FrameBecomes
  <2> QED
    BY <2>3, <2>4
<1>5. ASSUME Unlink
      PROVE  Becomes("remove", {<<r[2], r[3]>> : r \in RowsOf(Top.ent)}, Top.moved)
  <2> DEFINE td == {<<r[2], r[3]>> : r \in RowsOf(Top.ent)}
             fr == [Top EXCEPT !.pc = "remove", !.todo = td]
  <2>1. ~Idle /\ Continue(fr)
    BY <1>5 DEF Unlink, At
  <2>2. td \subseteq Paths
    BY DEF RowsOf, Paths
  <2> HIDE DEF td
  <2>3. /\ fr \in Frames /\ fr.op = Top.op /\ fr.ent = Top.ent
        /\ fr.pc = "remove" /\ fr.todo = td /\ fr.moved = Top.moved
    BY <1>f, <2>1, <2>2 DEF Frames, Pcs
  <2> HIDE DEF fr
  <2>4. Becomes(fr.pc, fr.todo, fr.moved)
    BY <2>1, <2>3, FrameBecomes
  <2>5. Becomes("remove", td, Top.moved)
    BY <2>3, <2>4
  <2> QED
    BY <2>5 DEF td
<1>6. Link /\ Taken(Image(Top.ent)) => ~Idle /\ Goto("unmove")
  BY DEF Link, At
<1>7. \A p \in Paths : Move(p) /\ Exists(p) => ~Idle /\ Goto("unmove")
  BY DEF Move, At
<1>8. /\ MoveFails => ~Idle /\ Goto("unmove")
      /\ MoveDone => ~Idle /\ Goto("mark")
      /\ RemoveFails => ~Idle /\ Goto("fail")
      /\ RemoveDone => ~Idle /\ Goto("unmark")
      /\ Mark \/ Unmark \/ DeleteEntry \/ Record => ~Idle /\ Goto("ok")
      /\ DeleteImage => ~Idle /\ Goto("entry")
      /\ InstallStart => ~Idle /\ (IF state[Top.ent] = "absent" THEN Goto("record") ELSE Goto("fail"))
  BY DEF MoveFails, MoveDone, RemoveFails, RemoveDone, Mark, Unmark, DeleteEntry, Record,
         DeleteImage, InstallStart, At
<1>9. /\ Link => IF Taken(Image(Top.ent)) THEN Becomes("unmove", Top.todo, Top.moved)
                 ELSE Becomes("move", Image(Top.ent), Top.moved)
      /\ \A p \in Paths :
           Move(p) => IF Exists(p) THEN Becomes("unmove", Top.todo, Top.moved)
                      ELSE Becomes("move", Top.todo \ {p}, Top.moved \cup {p[1]})
  BY <1>1, <1>2, <1>6, <1>7, <1>g
<1>10. /\ MoveFails => Becomes("unmove", Top.todo, Top.moved)
       /\ MoveDone => Becomes("mark", Top.todo, Top.moved)
       /\ RemoveFails => Becomes("fail", Top.todo, Top.moved)
       /\ RemoveDone => Becomes("unmark", Top.todo, Top.moved)
       /\ Mark \/ Unmark \/ DeleteEntry \/ Record => Becomes("ok", Top.todo, Top.moved)
       /\ DeleteImage => Becomes("entry", Top.todo, Top.moved)
       /\ InstallStart => IF state[Top.ent] = "absent"
                          THEN Becomes("record", Top.todo, Top.moved)
                          ELSE Becomes("fail", Top.todo, Top.moved)
  BY <1>8, <1>g
<1> QED
  BY <1>3, <1>4, <1>5, <1>9, <1>10

\* The steps of an activation that move its files keep the stores' invariant.
LEMMA StoresLink ==
    ASSUME TypeOK, FramesOK, StoresInv, Link PROVE StoresInv'
<1> USE DEF TypeOK
<1>1. At("activate", "link") /\ ~Idle /\ fs' = fs /\ active = committed
  BY DEF Link, At, StoresInv, Committing
<1>2. Top.moved = {} /\ Top \in Frames /\ Top.ent \in Entries
  <2>1. 1 \in 1..Len(stack) /\ Top = stack[1] /\ Top \in Frames
    BY <1>1, StackFacts
  <2> QED
    BY <1>1, <2>1 DEF FramesOK, FrameOK, Early, At, Frames
<1>3. CASE Taken(Image(Top.ent))
  <2>1. Becomes("unmove", Top.todo, Top.moved) /\ active' = committed /\ committed' = committed
    BY <1>3, EffectsBecome DEF Link, Rollback
  <2> QED
    BY <1>1, <1>2, <2>1 DEF StoresInv, Committing, MovedThere, NoUserAtRow, Becomes, At
<1>4. CASE ~Taken(Image(Top.ent))
  <2> DEFINE new == {<<Top.ent, f, 0>> : f \in Contents[Top.ent]}
  <2>1. /\ Becomes("move", Image(Top.ent), Top.moved) /\ committed' = committed
        /\ active' = (active \ RowsOf(Top.ent)) \cup new
    BY <1>4, EffectsBecome DEF Link
  <2>2. \A r \in new : r[1] = Top.ent /\ r[3] = 0 /\ r[2] \in Contents[Top.ent]
    OBVIOUS
  <2> HIDE DEF new
  <2>3. /\ Top'.todo = Image(Top.ent) /\ Top'.ent = Top.ent /\ Top'.moved = {}
        /\ At("activate", "move")' /\ ~At("deactivate", "remove")'
    BY <1>1, <1>2, <2>1 DEF Becomes, At
  <2>4. Image(Top.ent)' = Image(Top.ent)
    BY <2>3 DEF Image
  <2>5. \A r \in active' : r \in committed' \/ r \in new
    BY <1>1, <2>1
  <2>6. \A h \in Contents[Top.ent] : <<h, 0>> \in Image(Top.ent)
    BY DEF Image
  <2> QED
    BY <1>1, <2>1, <2>2, <2>3, <2>4, <2>5, <2>6
    DEF StoresInv, Committing, MovedThere, NoUserAtRow, At
<1> QED
  BY <1>3, <1>4

\* A file that is moved in is this entry's, and no user's was there.
LEMMA StoresMove ==
    ASSUME TypeOK, StoresInv, NEW p \in Paths, Move(p) PROVE StoresInv'
<1> USE DEF TypeOK
<1>1. At("activate", "move") /\ ~Idle /\ p \in Top.todo
  BY DEF Move, At
<1>2. Top.ent \in Entries /\ p = <<p[1], 0>> /\ Top.todo \subseteq Image(Top.ent)
  <2>1. Top.todo \subseteq Image(Top.ent)
    BY <1>1 DEF StoresInv, Committing
  <2> QED
    BY <1>1, <2>1, TopFields DEF Image
<1>3. CASE Exists(p)
  <2>1. /\ Becomes("unmove", Top.todo, Top.moved) /\ active' = committed
        /\ committed' = committed /\ fs' = fs
    BY <1>3, EffectsBecome DEF Move, Rollback
  <2> QED
    BY <1>1, <2>1 DEF StoresInv, Committing, MovedThere, NoUserAtRow, Becomes, At
<1>4. CASE ~Exists(p)
  <2>1. /\ Becomes("move", Top.todo \ {p}, Top.moved \cup {p[1]})
        /\ active' = active /\ committed' = committed
        /\ fs' = [fs EXCEPT ![p] = Top.ent]
    BY <1>4, EffectsBecome DEF Move
  <2>2. /\ Top'.todo = Top.todo \ {p} /\ Top'.ent = Top.ent
        /\ Top'.moved = Top.moved \cup {p[1]}
        /\ At("activate", "move")' /\ ~At("deactivate", "remove")'
    BY <1>1, <2>1 DEF Becomes, At
  <2>3. Image(Top.ent)' = Image(Top.ent)
    BY <2>2 DEF Image
  <2>4. fs'[p] = Top.ent /\ \A q \in Paths : q # p => fs'[q] = fs[q]
    BY <2>1
  <2>5. Committing'
    <3>1. \A h \in Contents[Top.ent] : <<h, 0>> \in Top'.todo \/ h \in Top'.moved
      <4> TAKE h \in Contents[Top.ent]
      <4>1. <<h, 0>> \in Top.todo \/ h \in Top.moved
        BY <1>1 DEF StoresInv, Committing
      <4>2. <<h, 0>> = p => p[1] = h
        OBVIOUS
      <4> QED
        BY <2>2, <4>1, <4>2
    <3>2. \A r \in active :
             r \in committed \/ (r[1] = Top.ent /\ r[3] = 0 /\ r[2] \in Contents[Top.ent])
      BY <1>1 DEF StoresInv, Committing
    <3> QED
      BY <1>2, <2>1, <2>2, <2>3, <3>1, <3>2 DEF Committing
  <2>6. MovedThere'
    <3>1. \A h \in Top.moved : fs[<<h, 0>>] = Top.ent
      BY <1>1 DEF StoresInv, MovedThere
    <3>2. \A h \in Top.moved : <<h, 0>> \in Paths
      <4>1. Top.moved \subseteq Files
        BY <1>1, FramesNonempty DEF Frames
      <4>2. 0 \in 0..MaxStamp
        BY PortImageAssumption
      <4> QED
        BY <4>1, <4>2 DEF Paths
    <3>3. \A h \in Top'.moved : fs'[<<h, 0>>] = Top.ent
      BY <1>2, <2>2, <2>4, <3>1, <3>2
    <3> QED
      BY <2>2, <3>3 DEF MovedThere
  <2>7. NoUserAtRow'
    <3>1. \A r \in committed : <<r[2], r[3]>> \in Paths
      BY DEF Paths
    <3>2. Top.ent # "user"
      BY <1>2, PortImageAssumption
    <3>3. \A r \in committed : fs[<<r[2], r[3]>>] # "user"
      BY DEF StoresInv, NoUserAtRow
    <3> QED
      BY <2>1, <2>4, <3>1, <3>2, <3>3 DEF NoUserAtRow
  <2> QED
    BY <2>5, <2>6, <2>7 DEF StoresInv
<1> QED
  BY <1>3, <1>4

\* At the end of the moving each of its files has been moved in.
LEMMA StoresMoved ==
    ASSUME TypeOK, StoresInv, MoveFails \/ MoveDone PROVE StoresInv'
<1> USE DEF TypeOK
<1>1. At("activate", "move") /\ ~Idle /\ fs' = fs
  BY DEF MoveFails, MoveDone, At
<1>2. CASE MoveFails
  <2>1. /\ Becomes("unmove", Top.todo, Top.moved) /\ active' = committed
        /\ committed' = committed
    BY <1>2, EffectsBecome DEF MoveFails, Rollback
  <2> QED
    BY <1>1, <2>1 DEF StoresInv, Committing, MovedThere, NoUserAtRow, Becomes, At
<1>3. CASE MoveDone
  <2>1. /\ Becomes("mark", Top.todo, Top.moved) /\ active' = active
        /\ committed' = active /\ Top.todo = {}
    BY <1>3, EffectsBecome DEF MoveDone, Commit
  <2>2. /\ At("activate", "mark")' /\ ~At("activate", "move")' /\ ~At("activate", "unmove")'
        /\ ~At("deactivate", "remove")'
    BY <1>1, <2>1 DEF Becomes, At
  <2>3. Top.ent \in Entries
    BY <1>1, TopFields
  <2>4. ASSUME NEW r \in active PROVE fs[<<r[2], r[3]>>] # "user"
    <3>1. CASE r \in committed
      BY <3>1 DEF StoresInv, NoUserAtRow
    <3>2. CASE r \notin committed
      <4>1. r[3] = 0 /\ r[2] \in Contents[Top.ent]
        BY <1>1, <3>2 DEF StoresInv, Committing
      <4>2. r[2] \in Top.moved
        BY <1>1, <2>1, <4>1 DEF StoresInv, Committing
      <4> QED
        BY <1>1, <2>3, <4>1, <4>2, PortImageAssumption DEF StoresInv, MovedThere
    <3> QED
      BY <3>1, <3>2
  <2> QED
    BY <1>1, <2>1, <2>2, <2>4 DEF StoresInv, Committing, MovedThere, NoUserAtRow
<1> QED
  BY <1>2, <1>3

\* The handler removes files that have been moved in, and no others.
LEMMA StoresUnmove ==
    ASSUME TypeOK, StoresInv, NEW f \in Files, Unmove(f) PROVE StoresInv'
<1> USE DEF TypeOK
<1>1. /\ At("activate", "unmove") /\ ~Idle /\ f \in Top.moved
      /\ fs' = [fs EXCEPT ![<<f, 0>>] = "none"] /\ UNCHANGED <<active, committed>>
  BY DEF Unmove, At, registry
<1>2. Becomes("unmove", Top.todo, Top.moved \ {f})
  BY EffectsBecome
<1>3. /\ At("activate", "unmove")' /\ ~At("activate", "move")' /\ ~At("deactivate", "remove")'
      /\ ~At("activate", "move") /\ ~At("deactivate", "remove")
      /\ Top'.ent = Top.ent /\ Top'.moved = Top.moved \ {f}
  BY <1>1, <1>2 DEF Becomes, At
<1>4. \A q \in Paths : fs'[q] = fs[q] \/ (q = <<f, 0>> /\ fs'[q] = "none")
  BY <1>1
<1>5. \A h \in Files : <<h, 0>> \in Paths
  <2>1. 0 \in 0..MaxStamp
    BY PortImageAssumption
  <2> QED
    BY <2>1 DEF Paths
<1>6. Top.moved \subseteq Files
  BY <1>1, FramesNonempty DEF Frames
<1>7. MovedThere'
  <2>1. \A h \in Top.moved \ {f} : <<h, 0>> # <<f, 0>> /\ <<h, 0>> \in Paths
    BY <1>5, <1>6
  <2>2. \A h \in Top.moved \ {f} : fs'[<<h, 0>>] = Top.ent
    BY <1>1, <1>4, <2>1 DEF StoresInv, MovedThere
  <2> QED
    BY <1>3, <2>2 DEF MovedThere
<1>8. NoUserAtRow'
  <2>1. \A r \in committed : <<r[2], r[3]>> \in Paths
    BY DEF Paths
  <2> QED
    BY <1>1, <1>4, <2>1 DEF StoresInv, NoUserAtRow
<1>9. Committing'
  BY <1>1, <1>3 DEF StoresInv, Committing
<1> QED
  BY <1>7, <1>8, <1>9 DEF StoresInv

\* So do those of a deactivation.
LEMMA StoresUnlink ==
    ASSUME TypeOK, StoresInv, Unlink PROVE StoresInv'
<1> USE DEF TypeOK
<1> DEFINE td == {<<r[2], r[3]>> : r \in RowsOf(Top.ent)}
<1>1. /\ At("deactivate", "unlink") /\ fs' = fs /\ committed' = committed
      /\ active' = active \ RowsOf(Top.ent)
  BY DEF Unlink
<1>2. Becomes("remove", td, Top.moved)
  BY EffectsBecome
<1>3. \A p \in td : \E r \in active : r[2] = p[1] /\ r[3] = p[2]
  BY DEF RowsOf
<1> HIDE DEF td
<1>4. /\ At("deactivate", "remove")' /\ ~At("activate", "move")' /\ ~At("activate", "unmove")'
      /\ Top'.todo = td /\ active = committed
  BY <1>1, <1>2 DEF Becomes, At, StoresInv, Committing
<1> QED
  BY <1>1, <1>3, <1>4 DEF StoresInv, Committing, MovedThere, NoUserAtRow

\* A file that is removed has a committed row.
LEMMA StoresRemove ==
    ASSUME TypeOK, StoresInv, NEW p \in Paths, Remove(p) PROVE StoresInv'
<1> USE DEF TypeOK
<1>1. /\ At("deactivate", "remove") /\ fs' = [fs EXCEPT ![p] = "none"]
      /\ UNCHANGED <<active, committed>>
  BY DEF Remove, registry
<1>2. Becomes("remove", Top.todo \ {p}, Top.moved)
  BY EffectsBecome
<1>3. /\ At("deactivate", "remove")' /\ ~At("activate", "move")' /\ ~At("activate", "unmove")'
      /\ ~At("activate", "move") /\ Top'.todo = Top.todo \ {p}
  BY <1>1, <1>2 DEF Becomes, At
<1>4. \A q \in Paths : fs'[q] = fs[q] \/ fs'[q] = "none"
  BY <1>1
<1>5. \A r \in committed : <<r[2], r[3]>> \in Paths
  BY DEF Paths
<1> QED
  BY <1>1, <1>3, <1>4, <1>5 DEF StoresInv, Committing, MovedThere, NoUserAtRow

\* At the end the rows are committed, or all are back.
LEMMA StoresRemoved ==
    ASSUME TypeOK, StoresInv, RemoveFails \/ RemoveDone PROVE StoresInv'
<1>1. /\ At("deactivate", "remove") /\ fs' = fs /\ active' = committed'
      /\ committed' \subseteq committed
  BY DEF RemoveFails, RemoveDone, Rollback, Commit, StoresInv, Committing
<1>2. Becomes("fail", Top.todo, Top.moved) \/ Becomes("unmark", Top.todo, Top.moved)
  BY EffectsBecome
<1>3. ~At("activate", "move")' /\ ~At("activate", "unmove")' /\ ~At("deactivate", "remove")'
  BY <1>1, <1>2 DEF Becomes, At
<1> QED
  BY <1>1, <1>3 DEF StoresInv, Committing, MovedThere, NoUserAtRow

\* So do the steps outside them that change a store, or the state of an entry.
LEMMA StoresOutside ==
    ASSUME TypeOK, StoresInv,
           Mark \/ Unmark \/ DeleteImage \/ DeleteEntry \/ InstallStart \/ Record
    PROVE  StoresInv'
<1>1. \E pc \in {"ok", "entry", "record", "fail"} : Becomes(pc, Top.todo, Top.moved)
  BY EffectsBecome
<1>2. ~At("activate", "move")' /\ ~At("activate", "unmove")' /\ ~At("deactivate", "remove")'
  BY <1>1 DEF Becomes, At
<1>3. ~At("activate", "move") /\ ~At("activate", "unmove") /\ ~At("deactivate", "remove")
  BY DEF Mark, Unmark, DeleteImage, DeleteEntry, InstallStart, Record, At
<1>4. fs' = fs /\ active' = committed' /\ committed' \subseteq committed
  BY <1>3 DEF Mark, Unmark, DeleteImage, DeleteEntry, InstallStart, Record, registry,
     StoresInv, Committing
<1> QED
  BY <1>2, <1>4 DEF StoresInv, Committing, MovedThere, NoUserAtRow

\* The user makes files where nothing is, and a death leaves what is committed.
LEMMA StoresAround ==
    ASSUME TypeOK, StoresInv, Crash \/ \E f \in Files : UserMakes(f) PROVE StoresInv'
<1> USE DEF TypeOK
<1>1. CASE Crash
  <2>1. Idle' /\ active' = committed /\ committed' = committed /\ fs' = fs
    BY <1>1 DEF Crash, Rollback, Idle
  <2> QED
    BY <2>1 DEF StoresInv, Committing, MovedThere, NoUserAtRow, At
<1>2. ASSUME NEW f \in Files, UserMakes(f) PROVE StoresInv'
  <2>1. /\ UNCHANGED <<active, committed, stack>> /\ ~Exists(<<f, 0>>)
        /\ fs' = [fs EXCEPT ![<<f, 0>>] = "user"]
        /\ \A e \in Entries : <<e, f, 0>> \notin committed
    BY <1>2 DEF UserMakes, registry
  <2>2. <<f, 0>> \in Paths /\ 0 \in 0..MaxStamp
    <3>1. 0 \in 0..MaxStamp
      BY PortImageAssumption
    <3> QED
      BY <3>1 DEF Paths
  <2>3. \A q \in Paths : q # <<f, 0>> => fs'[q] = fs[q]
    BY <2>1
  <2>4. \A op, pc : At(op, pc)' <=> At(op, pc)
    BY <2>1 DEF At, Idle, Top
  <2>5. Top' = Top /\ Image(Top.ent)' = Image(Top.ent)
    BY <2>1 DEF Top, Image
  <2>6. MovedThere'
    <3>1. ASSUME NEW h \in Top.moved, At("activate", "move") \/ At("activate", "unmove")
          PROVE  fs'[<<h, 0>>] = Top.ent
      <4>1. fs[<<h, 0>>] = Top.ent /\ Top.ent \in Entries /\ h \in Files
        BY <3>1, TopFields, FramesNonempty DEF StoresInv, MovedThere, At, Frames
      <4>2. <<h, 0>> # <<f, 0>>
        BY <2>1, <4>1, PortImageAssumption DEF Exists
      <4>3. <<h, 0>> \in Paths
        BY <2>2, <4>1 DEF Paths
      <4> QED
        BY <2>3, <4>1, <4>2, <4>3
    <3> QED
      BY <2>4, <2>5, <3>1 DEF MovedThere
  <2>7. NoUserAtRow'
    <3>1. \A r \in committed : <<r[2], r[3]>> # <<f, 0>>
      BY <2>1
    <3>2. \A r \in committed : <<r[2], r[3]>> \in Paths
      BY DEF Paths
    <3> QED
      BY <2>1, <2>3, <3>1, <3>2 DEF StoresInv, NoUserAtRow
  <2>8. Committing'
    BY <2>1, <2>4, <2>5 DEF StoresInv, Committing
  <2> QED
    BY <2>6, <2>7, <2>8 DEF StoresInv
<1> QED
  BY <1>1, <1>2

\* Every step keeps them.
LEMMA StoresStep ==
    ASSUME Forcing = {FALSE}, TypeOK, Callers, FramesOK, StoresInv, [Next]_vars
    PROVE  StoresInv'
<1>1. CASE Effects
  BY <1>1, StoresLink, StoresMove, StoresMoved, StoresUnmove, StoresUnlink, StoresRemove,
     StoresRemoved, StoresOutside, StoresAround DEF Effects
<1>2. CASE ~Effects /\ stack' = stack
  <2>1. UNCHANGED <<state, active, committed, archive, fs>>
    BY <1>2, QuietStores DEF StoresInv
  <2> QED
    BY <1>2, <2>1 DEF StoresInv, Committing, MovedThere, NoUserAtRow, At, Idle, Top, Image
<1>3. CASE ~Effects /\ stack' # stack
  <2>1. UNCHANGED <<state, active, committed, archive, fs>> /\ ~Busy'
    BY <1>3, QuietStores, QuietLeads DEF StoresInv
  <2>2. ASSUME Busy /\ ~At("activate", "unmove") /\ ~At("install", "record")
               /\ (At("activate", "move") \/ At("deactivate", "remove"))
        PROVE  FALSE
    <3>1. Top.pc \in {"move", "remove"} /\ ~Idle /\ Top.op \in {"activate", "deactivate"}
      BY <2>2 DEF At
    <3> QED
      BY <1>3, <3>1 DEF Effects, Next, Step, ActivateStep, UndoStep, DeactivateStep,
         ImageStep, Return, ActivateStart, OthersDone, Extract, ExtractFails,
         CallDeactivate, ClaimReplaced, ClaimFree, ClaimRefused, ClaimForced, ClaimFails,
         ClaimDone, ReplacedDone, Restore, UnmoveDone, RestoreDone, ReactDone, LateFails,
         CallActivate, DeactivateStart, UnmarkFails, UninstallStart, EntryFails, Command,
         NewProcess, vars, At
  <2>3. ~At("activate", "move") /\ ~At("deactivate", "remove")
    BY <2>2 DEF Busy, At
  <2> QED
    BY <2>1, <2>3 DEF StoresInv, Committing, MovedThere, NoUserAtRow, Busy
<1> QED
  BY <1>1, <1>2, <1>3

\* No step takes a file of the user's away.
LEMMA UserFilesStep ==
    ASSUME Forcing = {FALSE}, TypeOK, Callers, FramesOK, StoresInv, [Next]_vars,
           NEW p \in Paths, fs[p] = "user"
    PROVE  fs'[p] = "user"
<1> USE DEF TypeOK
<1>1. CASE ~Effects
  BY <1>1, QuietStores DEF StoresInv
<1>2. ASSUME NEW q \in Paths, Move(q) PROVE fs'[p] = "user"
  BY <1>2 DEF Move, Exists
<1>3. ASSUME NEW q \in Paths, Remove(q) PROVE fs'[p] = "user"
  <2>1. /\ At("deactivate", "remove") /\ q \in Top.todo
        /\ fs' = [fs EXCEPT ![q] = "none"]
    BY <1>3 DEF Remove
  <2>2. PICK r \in committed : r[2] = q[1] /\ r[3] = q[2]
    BY <2>1 DEF StoresInv, Committing
  <2>3. q = <<q[1], q[2]>>
    BY DEF Paths
  <2>4. fs[q] # "user"
    BY <2>2, <2>3 DEF StoresInv, NoUserAtRow
  <2> QED
    BY <2>1, <2>4
<1>4. ASSUME NEW f \in Files, Unmove(f) PROVE fs'[p] = "user"
  <2>1. /\ At("activate", "unmove") /\ f \in Top.moved
        /\ fs' = [fs EXCEPT ![<<f, 0>>] = "none"]
    BY <1>4 DEF Unmove
  <2>2. fs[<<f, 0>>] = Top.ent /\ Top.ent \in Entries
    BY <2>1, TopFields DEF StoresInv, MovedThere, At
  <2>3. fs[<<f, 0>>] # "user"
    BY <2>2, PortImageAssumption
  <2> QED
    BY <2>1, <2>3
<1>5. ASSUME NEW f \in Files, UserMakes(f) PROVE fs'[p] = "user"
  BY <1>5 DEF UserMakes
<1>6. CASE Link \/ MoveFails \/ MoveDone \/ Mark \/ Unlink \/ RemoveFails \/ RemoveDone
           \/ Unmark \/ DeleteImage \/ DeleteEntry \/ InstallStart \/ Record \/ Crash
  BY <1>6 DEF Link, MoveFails, MoveDone, Mark, Unlink, RemoveFails, RemoveDone, Unmark,
     DeleteImage, DeleteEntry, InstallStart, Record, Crash
<1> QED
  BY <1>1, <1>2, <1>3, <1>4, <1>5, <1>6 DEF Effects

\* What holds without force, whatever happens.
UnforcedInv == TypeOK /\ Callers /\ FramesOK /\ TopStates /\ StoresInv

\* Every behaviour without force keeps that invariant.
LEMMA UnforcedInvCorrect == ASSUME Forcing = {FALSE} PROVE Spec => []UnforcedInv
<1>1. Init => Callers /\ FramesOK /\ TopStates /\ StoresInv
  BY DEF Init, Callers, FramesOK, TopStates, StoresInv, Committing, MovedThere,
         NoUserAtRow, At, Idle
<1>2. TypeOK /\ Callers /\ FramesOK /\ TopStates /\ StoresInv /\ [Next]_vars
      => (Callers /\ FramesOK /\ TopStates /\ StoresInv)'
  BY CallersStep, FramesOKStep, TopStatesStep, StoresStep
<1> QED
  BY <1>1, <1>2, TypeCorrect, PTL DEF Spec, UnforcedInv

\* Where no command is given -f, no step moves or removes a file of the user's:
\* what _deactivate_contents removes are files of ports, what the handler of
\* _activate_contents removes it has moved in, and _activate_file overwrites
\* nothing, whatever fails or dies and whatever the user makes meanwhile.
THEOREM UnforcedKeepsUserFilesCorrect ==
    ASSUME Forcing = {FALSE} PROVE Spec => UnforcedKeepsUserFiles
<1>1. UnforcedInv /\ [Next]_vars =>
          [~force => \A p \in Paths : fs[p] = "user" => fs'[p] = "user"]_vars
  BY UserFilesStep DEF UnforcedInv
<1>2. Spec => []UnforcedInv
  BY UnforcedInvCorrect
<1> QED
  BY <1>1, <1>2, PTL DEF Spec, UnforcedKeepsUserFiles

\* The activations on the stack are of different entries, and none is to
\* deactivate, or to activate again, one that an outer one works on.
Apart == \A i, j \in 1..Len(stack) :
    stack[i].op = "activate" /\ stack[j].op = "activate" =>
        /\ i # j => stack[i].ent # stack[j].ent
        /\ i <= j => stack[j].ent \notin stack[i].victims

\* An activation on its way, or that waits for what it has called, is of an
\* entry that is not active.
Waits == \A i \in 1..Len(stack) :
    stack[i].op = "activate" /\ stack[i].pc \notin {"start", "ok", "fail"} =>
        state[stack[i].ent] = "imaged"

\* The rows an active entry has: one for each file, at its own path.
ActiveOnes == {e \in Entries : state[e] = "installed"}
Linked(S) == {r \in Entries \X Files \X {0} : r[1] \in S /\ r[2] \in Contents[r[1]]}
Linking == IF At("activate", "move") \/ At("activate", "mark") THEN {Top.ent} ELSE {}
Unlinking == IF At("deactivate", "remove") \/ At("deactivate", "unmark") THEN {Top.ent} ELSE {}
RowsAgree ==
    /\ active = Linked((ActiveOnes \cup Linking) \ Unlinking)
    /\ At("activate", "move") \/ At("deactivate", "remove") => committed = Linked(ActiveOnes)

\* Entries that own what an activation claims are active, and are not those
\* that the activations on the stack are of.
LEMMA OwnersApart ==
    ASSUME TypeOK, Callers, Waits, RowsAgree, At("activate", "claim"),
           NEW k \in 1..Len(stack), stack[k].op = "activate"
    PROVE  stack[k].ent \notin Owners
<1>1. ~Idle /\ Top = stack[1] /\ Len(stack) \in Nat \ {0}
  BY StackFacts DEF At
<1>2. CASE k = 1
  BY <1>1, <1>2 DEF Owners
<1>3. CASE k # 1
  <2>1. k \in 2..Len(stack)
    BY <1>1, <1>3
  <2>2. stack[k].pc = "react"
    BY <1>1, <2>1 DEF Callers, At
  <2>3. state[stack[k].ent] = "imaged"
    BY <2>2 DEF Waits
  <2>4. \A r \in active : state[r[1]] = "installed"
    BY DEF RowsAgree, Linked, ActiveOnes, Linking, At
  <2> QED
    BY <2>3, <2>4 DEF Owners
<1> QED
  BY <1>2, <1>3

\* Every step keeps the activations apart.
LEMMA ApartStep ==
    ASSUME TypeOK, Callers, FramesOK, Apart, Waits, RowsAgree, [Next]_vars
    PROVE  Apart'
<1>1. ASSUME NEW n, NEW k \in 1..Len(stack), Kept(n, stack[k]), n.op = "activate"
      PROVE  /\ stack[k].op = "activate" /\ n.ent = stack[k].ent
             /\ \A j \in 1..Len(stack) : stack[j].op = "activate" /\ k <= j =>
                    stack[j].ent \notin n.victims
  BY <1>1, OwnersApart DEF Kept, Apart
<1>2. stack' \in Seq(Frames) /\ Len(stack') \in Nat /\ Len(stack) \in Nat
  BY StackType DEF TypeOK
<1>3. CASE stack' = <<>>
  BY <1>3 DEF Apart
<1>4. ASSUME NEW fr \in Frames, stack' = <<fr>>, fr.victims = {} PROVE Apart'
  BY <1>4 DEF Apart
<1>5. ASSUME NEW s \in {0, 1},
             \A i \in 1..Len(stack') :
                 i + s \in 1..Len(stack) /\ Kept(stack'[i], stack[i + s])
      PROVE  Apart'
  <2> SUFFICES ASSUME NEW i \in 1..Len(stack'), NEW j \in 1..Len(stack'),
                      stack'[i].op = "activate", stack'[j].op = "activate"
               PROVE  /\ i # j => stack'[i].ent # stack'[j].ent
                      /\ i <= j => stack'[j].ent \notin stack'[i].victims
    BY DEF Apart
  <2>1. /\ i + s \in 1..Len(stack) /\ Kept(stack'[i], stack[i + s])
        /\ j + s \in 1..Len(stack) /\ Kept(stack'[j], stack[j + s])
    BY <1>5
  <2>2. /\ i # j => i + s # j + s
        /\ i <= j => i + s <= j + s
    BY <1>2
  <2>3. /\ stack[i + s].op = "activate" /\ stack'[i].ent = stack[i + s].ent
        /\ stack[j + s].op = "activate" /\ stack'[j].ent = stack[j + s].ent
        /\ i + s <= j + s => stack[j + s].ent \notin stack'[i].victims
    BY <1>1, <2>1
  <2>4. i + s # j + s => stack[i + s].ent # stack[j + s].ent
    BY <2>1, <2>3 DEF Apart
  <2> QED
    BY <2>2, <2>3, <2>4
<1>6. CASE /\ ~Idle /\ Called(stack'[1])
           /\ \A i \in 2..Len(stack') :
                  i - 1 \in 1..Len(stack) /\ Kept(stack'[i], stack[i - 1])
  <2>1. ASSUME stack'[1].op = "activate"
        PROVE  \A k \in 1..Len(stack) :
                   stack[k].op = "activate" => stack[k].ent # stack'[1].ent
    <3>1. 1 \in 1..Len(stack) /\ Top = stack[1] /\ \A k \in 1..Len(stack) : 1 <= k
      BY <1>6, StackFacts
    <3>2. stack'[1].ent \in Top.calls /\ Top.op = "activate" /\ Top.pc = "react"
      BY <1>6, <2>1 DEF Called
    <3>3. stack'[1].ent \in stack[1].victims
      BY <3>1, <3>2 DEF FramesOK, FrameOK
    <3> QED
      BY <3>1, <3>2, <3>3 DEF Apart
  <2> SUFFICES ASSUME NEW i \in 1..Len(stack'), NEW j \in 1..Len(stack'),
                      stack'[i].op = "activate", stack'[j].op = "activate"
               PROVE  /\ i # j => stack'[i].ent # stack'[j].ent
                      /\ i <= j => stack'[j].ent \notin stack'[i].victims
    BY DEF Apart
  <2>2. i = 1 \/ i \in 2..Len(stack')
    BY <1>2
  <2>3. j = 1 \/ j \in 2..Len(stack')
    BY <1>2
  <2>4. CASE i = 1
    <3>1. stack'[i].victims = {}
      BY <1>6, <2>4 DEF Called
    <3>2. ASSUME j # i PROVE stack'[i].ent # stack'[j].ent
      <4>1. j \in 2..Len(stack') /\ j - 1 \in 1..Len(stack) /\ Kept(stack'[j], stack[j - 1])
        BY <1>6, <2>3, <2>4, <3>2
      <4>2. stack[j - 1].op = "activate" /\ stack'[j].ent = stack[j - 1].ent
        BY <1>1, <4>1
      <4> QED
        BY <2>1, <2>4, <4>1, <4>2
    <3> QED
      BY <3>1, <3>2
  <2>5. CASE i \in 2..Len(stack')
    <3>1. i - 1 \in 1..Len(stack) /\ Kept(stack'[i], stack[i - 1])
      BY <1>6, <2>5
    <3>2. /\ stack[i - 1].op = "activate" /\ stack'[i].ent = stack[i - 1].ent
          /\ \A k \in 1..Len(stack) : stack[k].op = "activate" /\ i - 1 <= k =>
                 stack[k].ent \notin stack'[i].victims
      BY <1>1, <3>1
    <3>3. CASE j = 1
      <4>1. ~(i <= j)
        BY <1>2, <2>5, <3>3
      <4> QED
        BY <2>1, <3>1, <3>2, <3>3, <4>1
    <3>4. CASE j \in 2..Len(stack')
      <4>1. j - 1 \in 1..Len(stack) /\ Kept(stack'[j], stack[j - 1])
        BY <1>6, <3>4
      <4>2. stack[j - 1].op = "activate" /\ stack'[j].ent = stack[j - 1].ent
        BY <1>1, <4>1
      <4>3. (i # j => i - 1 # j - 1) /\ (i <= j => i - 1 <= j - 1)
        BY <1>2
      <4>4. i - 1 # j - 1 => stack[i - 1].ent # stack[j - 1].ent
        BY <3>1, <3>2, <4>1, <4>2 DEF Apart
      <4> QED
        BY <3>2, <4>1, <4>2, <4>3, <4>4
    <3> QED
      BY <2>3, <3>3, <3>4
  <2> QED
    BY <2>2, <2>4, <2>5
<1> QED
  BY <1>3, <1>4, <1>5, <1>6, FramesMove DEF FramesOK

\* And lets them wait for what becomes active.
LEMMA WaitsStep ==
    ASSUME TypeOK, Callers, FramesOK, Apart, Waits, [Next]_vars
    PROVE  Waits'
<1>1. CASE state' = state
  <2>1. ASSUME NEW n, NEW k \in 1..Len(stack), Kept(n, stack[k]), n.op = "activate",
               n.pc \notin {"start", "ok", "fail"}
        PROVE  state[n.ent] = "imaged"
    BY <2>1 DEF Kept, Waits
  <2>2. CASE stack' = <<>>
    BY <2>2 DEF Waits
  <2>3. ASSUME NEW fr \in Frames, stack' = <<fr>>, fr.pc = "start" PROVE Waits'
    BY <2>3 DEF Waits
  <2>4. ASSUME NEW s \in {0, 1},
               \A i \in 1..Len(stack') :
                   i + s \in 1..Len(stack) /\ Kept(stack'[i], stack[i + s])
        PROVE  Waits'
    BY <1>1, <2>1, <2>4 DEF Waits
  <2>5. CASE /\ ~Idle /\ Called(stack'[1])
             /\ \A i \in 2..Len(stack') :
                    i - 1 \in 1..Len(stack) /\ Kept(stack'[i], stack[i - 1])
    <3>1. \A i \in 1..Len(stack') : i = 1 \/ i \in 2..Len(stack')
      <4>1. stack' \in Seq(Frames)
        BY StackType
      <4> QED
        BY <4>1
    <3>2. stack'[1].pc = "start"
      BY <2>5 DEF Called
    <3> QED
      BY <1>1, <2>1, <2>5, <3>1, <3>2 DEF Waits
  <2> QED
    BY <2>2, <2>3, <2>4, <2>5, FramesMove DEF FramesOK
<1>2. CASE Mark \/ Unmark \/ DeleteEntry \/ Record
  <2>1. /\ ~Idle /\ ~Idle' /\ Top'.op = Top.op /\ Top'.ent = Top.ent /\ Top'.pc = "ok"
        /\ Len(stack') = Len(stack) /\ \A i \in 2..Len(stack) : stack'[i] = stack[i]
    BY <1>2, StateSteps
  <2>2. Top = stack[1] /\ Len(stack) \in Nat \ {0} /\ Top' = stack'[1]
    <3>1. TypeOK' => Top' = stack'[1]
      BY <2>1 DEF TypeOK, Idle, Top
    <3>2. stack' \in Seq(Frames)
      BY StackType
    <3> QED
      BY <2>1, <3>2, StackFacts DEF Idle, Top
  <2>3. ASSUME NEW i \in 2..Len(stack), stack[i].op = "activate",
               stack[i].pc \notin {"start", "ok", "fail"}
        PROVE  state'[stack[i].ent] = "imaged"
    <3>1. state[stack[i].ent] = "imaged" /\ i \in 1..Len(stack) /\ i # 1 /\ 1 \in 1..Len(stack)
      BY <2>2, <2>3 DEF Waits
    <3>2. CASE Mark
      <4>1. At("activate", "mark") /\ state' = [state EXCEPT ![Top.ent] = "installed"]
        BY <3>2 DEF Mark
      <4>2. stack[i].ent # Top.ent
        BY <2>2, <2>3, <3>1, <4>1 DEF Apart, At
      <4> QED
        BY <3>1, <4>1, <4>2 DEF TypeOK
    <3>3. CASE Unmark \/ Record
      <4>1. state' = [state EXCEPT ![Top.ent] = "imaged"]
        BY <3>3 DEF Unmark, Record
      <4> QED
        BY <3>1, <4>1 DEF TypeOK
    <3>4. CASE DeleteEntry
      <4>1. Top.op = "uninstall" /\ 2 \in 2..Len(stack)
        BY <2>2, <3>4 DEF DeleteEntry, At
      <4> QED
        BY <2>2, <4>1 DEF Callers
    <3> QED
      BY <1>2, <3>2, <3>3, <3>4
  <2>4. \A i \in 1..Len(stack') : i = 1 \/ i \in 2..Len(stack)
    BY <2>1, <2>2
  <2> QED
    BY <2>1, <2>2, <2>3, <2>4 DEF Waits
<1> QED
  BY <1>1, <1>2, StateChanges

\* An active row has its file on disk and the file of a port its row, but for
\* what the activation or deactivation that is at it has still to do or to undo.
RowsOnDisk == \A r \in active :
    \/ fs[<<r[2], r[3]>>] = r[1]
    \/ At("activate", "move") /\ r[1] = Top.ent /\ <<r[2], r[3]>> \in Top.todo
DiskInRows == \A p \in Paths : fs[p] \in Entries =>
    \/ <<fs[p], p[1], p[2]>> \in active
    \/ At("activate", "unmove") /\ fs[p] = Top.ent /\ p[2] = 0 /\ p[1] \in Top.moved
    \/ At("deactivate", "remove") /\ fs[p] = Top.ent /\ p \in Top.todo
TodoOnDisk ==
    /\ At("activate", "move") => \A p \in Paths : fs[p] = Top.ent => p[1] \in Top.moved
    /\ At("deactivate", "remove") => \A p \in Top.todo : fs[p] = Top.ent
DiskRows == RowsOnDisk /\ DiskInRows /\ TodoOnDisk

\* An entry has its archive, until uninstall has deleted it; install has put it
\* in its place before it records the entry.
Archives ==
    /\ \A e \in Entries : state[e] # "absent" =>
          e \in archive \/ (At("uninstall", "entry") /\ e = Top.ent)
    /\ At("install", "record") => Top.ent \in archive

Agree == Waits /\ RowsAgree /\ DiskRows /\ Archives

\* What Linked gives for one entry more and one entry less.
LEMMA LinkedOne ==
    ASSUME NEW S \in SUBSET Entries, NEW e \in Entries
    PROVE  /\ Linked(S \cup {e}) = Linked(S) \cup {<<e, h, 0>> : h \in Contents[e]}
           /\ Linked(S \ {e}) = {r \in Linked(S) : r[1] # e}
           /\ e \notin S => {r \in Linked(S) : r[1] = e} = {}
<1>1. Contents[e] \subseteq Files
  BY PortImageAssumption
<1>2. ASSUME NEW r PROVE r \in Linked(S \cup {e}) <=> r \in Linked(S) \cup {<<e, h, 0>> : h \in Contents[e]}
  BY <1>1 DEF Linked
<1> QED
  BY <1>2 DEF Linked

\* Where the innermost procedure is at nothing special, the invariant is simple.
LEMMA AtRest ==
    ASSUME TypeOK, ~At("activate", "move"), ~At("activate", "mark"),
           ~At("deactivate", "remove"), ~At("deactivate", "unmark")
    PROVE  RowsAgree <=> active = Linked(ActiveOnes)
<1>1. (ActiveOnes \cup {}) \ {} = ActiveOnes
  OBVIOUS
<1> QED
  BY <1>1 DEF RowsAgree, Linking, Unlinking

\* Link makes the rows and leaves the files to be moved in.
LEMMA AgreeLink ==
    ASSUME TypeOK, FramesOK, StoresInv, Agree, Link
    PROVE  RowsAgree' /\ DiskRows' /\ Archives'
<1> USE DEF TypeOK
<1>1. At("activate", "link") /\ ~Idle /\ fs' = fs /\ state' = state /\ archive' = archive
  BY DEF Link, At
<1>2. Top.ent \in Entries /\ Top \in Frames /\ state[Top.ent] = "imaged"
  <2>1. 1 \in 1..Len(stack) /\ Top = stack[1] /\ Top \in Frames
    BY <1>1, StackFacts
  <2> QED
    BY <1>1, <2>1 DEF Agree, Waits, At, Frames
<1>3. active = Linked(ActiveOnes) /\ active = committed
  BY <1>1, AtRest DEF Agree, At, StoresInv, Committing
<1>4. /\ \A r \in active : fs[<<r[2], r[3]>>] = r[1] /\ r[1] # Top.ent
      /\ \A p \in Paths : fs[p] \in Entries =>
            fs[p] # Top.ent /\ <<fs[p], p[1], p[2]>> \in active
  <2>1. \A r \in active : r[1] # Top.ent
    BY <1>2, <1>3 DEF Linked, ActiveOnes
  <2>2. \A p : <<Top.ent, p[1], p[2]>> \notin active
    BY <2>1
  <2> QED
    BY <1>1, <2>1, <2>2 DEF Agree, DiskRows, RowsOnDisk, DiskInRows, At
<1>5. ActiveOnes' = ActiveOnes
  BY <1>1 DEF ActiveOnes
<1>6. \A e \in Entries : state[e] # "absent" => e \in archive
  BY <1>1 DEF Agree, Archives, At
<1>7. CASE Taken(Image(Top.ent))
  <2>1. Becomes("unmove", Top.todo, Top.moved) /\ active' = active
    BY <1>3, <1>7, EffectsBecome DEF Link, Rollback
  <2>2. /\ At("activate", "unmove")' /\ ~At("activate", "move")' /\ ~At("activate", "mark")'
        /\ ~At("deactivate", "remove")' /\ ~At("deactivate", "unmark")' /\ ~At("install", "record")'
    BY <1>1, <2>1 DEF Becomes, At
  <2> QED
    BY <1>1, <1>3, <1>4, <1>5, <1>6, <2>1, <2>2
    DEF RowsAgree, Linking, Unlinking, Linked, DiskRows, RowsOnDisk, DiskInRows, TodoOnDisk, Archives
<1>8. CASE ~Taken(Image(Top.ent))
  <2> DEFINE new == {<<Top.ent, h, 0>> : h \in Contents[Top.ent]}
  <2>1. /\ Becomes("move", Image(Top.ent), Top.moved) /\ committed' = committed
        /\ active' = (active \ RowsOf(Top.ent)) \cup new
    BY <1>8, EffectsBecome DEF Link
  <2>2. /\ At("activate", "move")' /\ ~At("activate", "unmove")' /\ ~At("deactivate", "remove")'
        /\ ~At("deactivate", "unmark")' /\ ~At("install", "record")'
        /\ Top'.ent = Top.ent /\ Top'.todo = Image(Top.ent)
    BY <1>1, <2>1 DEF Becomes, At
  <2>3. \A r \in new : r[1] = Top.ent /\ <<r[2], r[3]>> \in Image(Top.ent)
    BY DEF Image
  <2>4. active' = active \cup new
    BY <1>4, <2>1 DEF RowsOf
  <2>5. ActiveOnes \in SUBSET Entries /\ (ActiveOnes \cup {Top.ent}) \ {} = ActiveOnes \cup {Top.ent}
    BY DEF ActiveOnes
  <2>6. active' = Linked((ActiveOnes \cup {Top.ent}) \ {})
    <3>1. Linked(ActiveOnes \cup {Top.ent}) = Linked(ActiveOnes) \cup new
      BY <1>2, <2>5, LinkedOne
    <3> HIDE DEF new
    <3> QED
      BY <1>3, <2>4, <2>5, <3>1
  <2>7. Linked(ActiveOnes)' = Linked(ActiveOnes)
    BY <1>5 DEF Linked
  <2> HIDE DEF new
  <2>8. Linking' = {Top.ent} /\ Unlinking' = {}
    BY <2>2 DEF Linking, Unlinking
  <2>9. RowsAgree'
    <3>1. Linked((ActiveOnes \cup Linking) \ Unlinking)' = Linked((ActiveOnes \cup {Top.ent}) \ {})
      BY <1>5, <2>8 DEF Linked
    <3> QED
      BY <1>3, <2>1, <2>2, <2>6, <2>7, <3>1 DEF RowsAgree
  <2>10. DiskRows'
    <3>1. RowsOnDisk'
      BY <1>1, <1>4, <2>2, <2>3, <2>4 DEF RowsOnDisk
    <3>2. DiskInRows'
      BY <1>1, <1>4, <2>4 DEF DiskInRows
    <3>3. TodoOnDisk'
      <4>1. \A p \in Paths : fs[p] # Top.ent
        BY <1>2, <1>4
      <4> QED
        BY <1>1, <2>2, <4>1 DEF TodoOnDisk
    <3> QED
      BY <3>1, <3>2, <3>3 DEF DiskRows
  <2> QED
    BY <1>1, <1>6, <2>2, <2>9, <2>10 DEF Archives
<1> QED
  BY <1>7, <1>8

\* What the invariant says while files are moved in.
LEMMA AtMove ==
    ASSUME TypeOK, FramesOK, StoresInv, Agree, At("activate", "move")
    PROVE  /\ Top.ent \in Entries /\ state[Top.ent] = "imaged"
           /\ Top.todo \subseteq Image(Top.ent)
           /\ active = Linked(ActiveOnes \cup {Top.ent}) /\ committed = Linked(ActiveOnes)
           /\ active = committed \cup {<<Top.ent, h, 0>> : h \in Contents[Top.ent]}
           /\ \A r \in committed : r[1] # Top.ent
           /\ \A r \in active : fs[<<r[2], r[3]>>] = r[1]
                                \/ (r[1] = Top.ent /\ <<r[2], r[3]>> \in Top.todo)
           /\ \A p \in Paths :
                /\ fs[p] \in Entries => <<fs[p], p[1], p[2]>> \in active
                /\ fs[p] = Top.ent => p[1] \in Top.moved
           /\ \A e \in Entries : state[e] # "absent" => e \in archive
<1> USE DEF TypeOK
<1>1. Top.ent \in Entries /\ state[Top.ent] = "imaged"
  <2>1. 1 \in 1..Len(stack) /\ Top = stack[1] /\ Top \in Frames
    BY StackFacts DEF At
  <2> QED
    BY <2>1 DEF Agree, Waits, At, Frames
<1>2. /\ ~At("activate", "unmove") /\ ~At("deactivate", "remove") /\ ~At("deactivate", "unmark")
      /\ ~At("uninstall", "entry")
  BY DEF At
<1>3. Top.todo \subseteq Image(Top.ent)
  BY DEF StoresInv, Committing
<1>4. (ActiveOnes \cup {Top.ent}) \ {} = ActiveOnes \cup {Top.ent} /\ ActiveOnes \in SUBSET Entries
  BY DEF ActiveOnes
<1>5. active = Linked(ActiveOnes \cup {Top.ent}) /\ committed = Linked(ActiveOnes)
  BY <1>2, <1>4 DEF Agree, RowsAgree, Linking, Unlinking
<1>6. active = committed \cup {<<Top.ent, h, 0>> : h \in Contents[Top.ent]}
  <2>1. PICK new : new = {<<Top.ent, h, 0>> : h \in Contents[Top.ent]}
    OBVIOUS
  <2>2. Linked(ActiveOnes \cup {Top.ent}) = Linked(ActiveOnes) \cup new
    BY <1>1, <1>4, <2>1, LinkedOne
  <2> QED
    BY <1>5, <2>1, <2>2
<1>7. \A r \in committed : r[1] # Top.ent
  BY <1>1, <1>5 DEF Linked, ActiveOnes
<1>8. /\ \A r \in active : fs[<<r[2], r[3]>>] = r[1]
                           \/ (r[1] = Top.ent /\ <<r[2], r[3]>> \in Top.todo)
      /\ \A p \in Paths :
           /\ fs[p] \in Entries => <<fs[p], p[1], p[2]>> \in active
           /\ fs[p] = Top.ent => p[1] \in Top.moved
  BY <1>2 DEF Agree, DiskRows, RowsOnDisk, DiskInRows, TodoOnDisk
<1>9. \A e \in Entries : state[e] # "absent" => e \in archive
  BY <1>2 DEF Agree, Archives
<1> QED
  BY <1>1, <1>3, <1>5, <1>6, <1>7, <1>8, <1>9

\* An activation that gives up moving leaves what it has moved in to be removed.
LEMMA AgreeGivesUp ==
    ASSUME TypeOK, FramesOK, StoresInv, Agree, At("activate", "move"),
           Becomes("unmove", Top.todo, Top.moved),
           active' = committed, UNCHANGED <<state, archive, fs>>
    PROVE  RowsAgree' /\ DiskRows' /\ Archives'
<1>1. /\ At("activate", "unmove")' /\ ~At("activate", "move")' /\ ~At("activate", "mark")'
      /\ ~At("deactivate", "remove")' /\ ~At("deactivate", "unmark")' /\ ~At("install", "record")'
      /\ Top'.ent = Top.ent /\ Top'.moved = Top.moved
  BY DEF Becomes, At
<1>2. RowsAgree'
  <2>1. Linked(ActiveOnes)' = Linked(ActiveOnes)
    BY DEF Linked, ActiveOnes
  <2>2. (ActiveOnes' \cup {}) \ {} = ActiveOnes'
    OBVIOUS
  <2>3. Linking' = {} /\ Unlinking' = {}
    BY <1>1 DEF Linking, Unlinking
  <2>4. Linked((ActiveOnes \cup Linking) \ Unlinking)' = Linked(ActiveOnes)'
    BY <2>2, <2>3 DEF Linked
  <2> QED
    BY <1>1, <2>1, <2>4, AtMove DEF RowsAgree
<1>3. RowsOnDisk'
  BY AtMove DEF RowsOnDisk
<1>4. DiskInRows'
  <2> SUFFICES ASSUME NEW p \in Paths, fs[p] \in Entries
               PROVE  \/ <<fs[p], p[1], p[2]>> \in committed
                      \/ fs[p] = Top.ent /\ p[2] = 0 /\ p[1] \in Top.moved
    BY <1>1 DEF DiskInRows
  <2>1. <<fs[p], p[1], p[2]>> \in active
    BY AtMove
  <2>2. CASE <<fs[p], p[1], p[2]>> \in committed
    BY <2>2
  <2>3. CASE <<fs[p], p[1], p[2]>> \in {<<Top.ent, h, 0>> : h \in Contents[Top.ent]}
    <3>1. fs[p] = Top.ent /\ p[2] = 0
      BY <2>3
    <3> QED
      BY <3>1, AtMove
  <2> QED
    BY <2>1, <2>2, <2>3, AtMove
<1> QED
  BY <1>1, <1>2, <1>3, <1>4, AtMove DEF DiskRows, TodoOnDisk, Archives

\* A file that is moved in gets on disk what it has as its row.
LEMMA AgreeMove ==
    ASSUME TypeOK, FramesOK, StoresInv, Agree, NEW p \in Paths, Move(p)
    PROVE  RowsAgree' /\ DiskRows' /\ Archives'
<1> USE DEF TypeOK
<1>1. At("activate", "move") /\ ~Idle /\ p \in Top.todo /\ state' = state /\ archive' = archive
  BY DEF Move, At
<1>2. CASE Exists(p)
  <2>1. Becomes("unmove", Top.todo, Top.moved) /\ active' = committed /\ fs' = fs
    BY <1>2, EffectsBecome DEF Move, Rollback
  <2> QED
    BY <1>1, <2>1, AgreeGivesUp
<1>3. CASE ~Exists(p)
  <2>1. /\ Becomes("move", Top.todo \ {p}, Top.moved \cup {p[1]})
        /\ active' = active /\ committed' = committed
        /\ fs' = [fs EXCEPT ![p] = Top.ent]
    BY <1>3, EffectsBecome DEF Move
  <2>2. /\ At("activate", "move")' /\ ~At("activate", "unmove")' /\ ~At("deactivate", "remove")'
        /\ ~At("deactivate", "unmark")' /\ ~At("install", "record")'
        /\ Top'.ent = Top.ent /\ Top'.todo = Top.todo \ {p} /\ Top'.moved = Top.moved \cup {p[1]}
    BY <1>1, <2>1 DEF Becomes, At
  <2>3. fs'[p] = Top.ent /\ fs[p] = "none" /\ \A q \in Paths : q # p => fs'[q] = fs[q]
    BY <1>3, <2>1 DEF Exists
  <2>4. /\ Top.ent \in Entries /\ p \in Image(Top.ent)
        /\ \A r \in active : fs[<<r[2], r[3]>>] = r[1]
                             \/ (r[1] = Top.ent /\ <<r[2], r[3]>> \in Top.todo)
        /\ \A q \in Paths :
             /\ fs[q] \in Entries => <<fs[q], q[1], q[2]>> \in active
             /\ fs[q] = Top.ent => q[1] \in Top.moved
    BY <1>1, AtMove
  <2>5. RowsAgree'
    <3>1. Linked((ActiveOnes \cup Linking) \ Unlinking)' = Linked((ActiveOnes \cup Linking) \ Unlinking)
      BY <1>1, <2>2 DEF Linked, ActiveOnes, Linking, Unlinking, At
    <3>2. Linked(ActiveOnes)' = Linked(ActiveOnes)
      BY <1>1 DEF Linked, ActiveOnes
    <3> QED
      BY <1>1, <2>1, <3>1, <3>2 DEF Agree, RowsAgree
  <2>6. RowsOnDisk'
    <3> SUFFICES ASSUME NEW r \in active
                 PROVE  fs'[<<r[2], r[3]>>] = r[1]
                        \/ (r[1] = Top.ent /\ <<r[2], r[3]>> \in Top.todo \ {p})
      BY <2>1, <2>2 DEF RowsOnDisk
    <3>1. <<r[2], r[3]>> \in Paths /\ r[1] \in Entries
      BY DEF Paths
    <3>2. CASE <<r[2], r[3]>> = p
      <4>1. r[1] = Top.ent
        BY <2>3, <2>4, <3>1, <3>2, PortImageAssumption
      <4> QED
        BY <2>3, <3>2, <4>1
    <3>3. CASE <<r[2], r[3]>> # p
      BY <2>3, <2>4, <3>1, <3>3
    <3> QED
      BY <3>2, <3>3
  <2>7. DiskInRows'
    <3> SUFFICES ASSUME NEW q \in Paths, fs'[q] \in Entries
                 PROVE  <<fs'[q], q[1], q[2]>> \in active
      BY <2>1 DEF DiskInRows
    <3>1. CASE q = p
      <4>1. <<Top.ent, p[1], p[2]>> \in {<<Top.ent, h, 0>> : h \in Contents[Top.ent]}
        BY <2>4 DEF Image
      <4> QED
        BY <1>1, <2>3, <3>1, <4>1, AtMove
    <3>2. CASE q # p
      BY <2>3, <2>4, <3>2
    <3> QED
      BY <3>1, <3>2
  <2>8. TodoOnDisk'
    <3>1. \A q \in Paths : fs'[q] = Top.ent => q[1] \in Top.moved \cup {p[1]}
      BY <2>3, <2>4
    <3> QED
      BY <2>2, <3>1 DEF TodoOnDisk
  <2>9. Archives'
    BY <1>1, <2>2, AtMove DEF Archives
  <2> QED
    BY <2>5, <2>6, <2>7, <2>8, <2>9 DEF DiskRows
<1> QED
  BY <1>2, <1>3

\* The end of the moving, and the state that is set then.
LEMMA AgreeMoved ==
    ASSUME TypeOK, FramesOK, StoresInv, Agree, MoveFails \/ MoveDone
    PROVE  RowsAgree' /\ DiskRows' /\ Archives'
<1> USE DEF TypeOK
<1>1. /\ At("activate", "move") /\ ~Idle
      /\ state' = state /\ archive' = archive /\ fs' = fs
  BY DEF MoveFails, MoveDone, At
<1>2. CASE MoveFails
  <2>1. Becomes("unmove", Top.todo, Top.moved) /\ active' = committed
    BY <1>2, EffectsBecome DEF MoveFails, Rollback
  <2> QED
    BY <1>1, <2>1, AgreeGivesUp
<1>3. CASE MoveDone
  <2>1. Becomes("mark", Top.todo, Top.moved) /\ active' = active /\ Top.todo = {}
    BY <1>3, EffectsBecome DEF MoveDone
  <2>2. /\ At("activate", "mark")' /\ ~At("activate", "move")' /\ ~At("activate", "unmove")'
        /\ ~At("deactivate", "remove")' /\ ~At("deactivate", "unmark")' /\ ~At("install", "record")'
        /\ Top'.ent = Top.ent
    BY <1>1, <2>1 DEF Becomes, At
  <2>3. RowsAgree'
    <3>1. Linking' = {Top.ent} /\ Unlinking' = {} /\ ActiveOnes' = ActiveOnes
      BY <1>1, <2>2 DEF Linking, Unlinking, ActiveOnes
    <3>2. (ActiveOnes \cup {Top.ent}) \ {} = ActiveOnes \cup {Top.ent}
      OBVIOUS
    <3>3. Linked((ActiveOnes \cup Linking) \ Unlinking)' = Linked(ActiveOnes \cup {Top.ent})
      BY <3>1, <3>2 DEF Linked
    <3> QED
      BY <1>1, <2>1, <2>2, <3>3, AtMove DEF RowsAgree
  <2>4. RowsOnDisk'
    BY <1>1, <2>1, AtMove DEF RowsOnDisk
  <2>5. DiskInRows'
    BY <1>1, <2>1, AtMove DEF DiskInRows
  <2>6. TodoOnDisk' /\ Archives'
    BY <1>1, <2>2, AtMove DEF TodoOnDisk, Archives
  <2> QED
    BY <2>3, <2>4, <2>5, <2>6 DEF DiskRows
<1> QED
  BY <1>2, <1>3

\* The state is set when the rows and the files are there.
LEMMA AgreeMark ==
    ASSUME TypeOK, Agree, Mark PROVE RowsAgree' /\ DiskRows' /\ Archives'
<1> USE DEF TypeOK
<1>1. /\ At("activate", "mark") /\ ~Idle /\ UNCHANGED <<active, archive, fs>>
      /\ state' = [state EXCEPT ![Top.ent] = "installed"]
  BY DEF Mark, At
<1>2. Top.ent \in Entries /\ state[Top.ent] = "imaged"
  <2>1. 1 \in 1..Len(stack) /\ Top = stack[1] /\ Top \in Frames
    BY <1>1, StackFacts
  <2> QED
    BY <1>1, <2>1 DEF Agree, Waits, At, Frames
<1>3. Becomes("ok", Top.todo, Top.moved)
  BY EffectsBecome
<1>4. /\ ~At("activate", "mark")' /\ ~At("activate", "move")' /\ ~At("activate", "unmove")'
      /\ ~At("deactivate", "remove")' /\ ~At("deactivate", "unmark")' /\ ~At("install", "record")'
  BY <1>1, <1>3 DEF Becomes, At
<1>5. /\ ~At("activate", "move") /\ ~At("activate", "unmove")
      /\ ~At("deactivate", "remove") /\ ~At("deactivate", "unmark") /\ ~At("uninstall", "entry")
  BY <1>1 DEF At
<1>6. RowsAgree'
  <2>1. Linking = {Top.ent} /\ Unlinking = {} /\ Linking' = {} /\ Unlinking' = {}
    BY <1>1, <1>4, <1>5 DEF Linking, Unlinking
  <2>2. ActiveOnes' = ActiveOnes \cup {Top.ent}
    BY <1>1, <1>2 DEF ActiveOnes
  <2>3. (ActiveOnes' \cup Linking') \ Unlinking' = (ActiveOnes \cup Linking) \ Unlinking
    BY <2>1, <2>2
  <2>4. Linked((ActiveOnes \cup Linking) \ Unlinking)' = Linked((ActiveOnes \cup Linking) \ Unlinking)
    BY <2>3 DEF Linked
  <2> QED
    BY <1>1, <1>4, <2>4 DEF Agree, RowsAgree
<1>7. DiskRows'
  BY <1>1, <1>4, <1>5 DEF Agree, DiskRows, RowsOnDisk, DiskInRows, TodoOnDisk
<1>8. Archives'
  BY <1>1, <1>2, <1>4, <1>5 DEF Agree, Archives
<1> QED
  BY <1>6, <1>7, <1>8

\* The error handler removes a file that no row is for.
LEMMA AgreeUnmove ==
    ASSUME TypeOK, StoresInv, Agree, NEW f \in Files, Unmove(f)
    PROVE  RowsAgree' /\ DiskRows' /\ Archives'
<1> USE DEF TypeOK
<1>1. /\ At("activate", "unmove") /\ ~Idle /\ f \in Top.moved
      /\ fs' = [fs EXCEPT ![<<f, 0>>] = "none"] /\ UNCHANGED <<state, active, committed, archive>>
  BY DEF Unmove, At, registry
<1>2. Top.ent \in Entries /\ state[Top.ent] = "imaged"
  <2>1. 1 \in 1..Len(stack) /\ Top = stack[1] /\ Top \in Frames
    BY <1>1, StackFacts
  <2> QED
    BY <1>1, <2>1 DEF Agree, Waits, At, Frames
<1>3. Becomes("unmove", Top.todo, Top.moved \ {f})
  BY EffectsBecome
<1>4. /\ At("activate", "unmove")' /\ ~At("activate", "mark")' /\ ~At("activate", "move")'
      /\ ~At("deactivate", "remove")' /\ ~At("deactivate", "unmark")' /\ ~At("install", "record")'
      /\ Top'.ent = Top.ent /\ Top'.moved = Top.moved \ {f}
  BY <1>1, <1>3 DEF Becomes, At
<1>5. /\ ~At("activate", "mark") /\ ~At("activate", "move")
      /\ ~At("deactivate", "remove") /\ ~At("deactivate", "unmark") /\ ~At("uninstall", "entry")
  BY <1>1 DEF At
<1>6. active = Linked(ActiveOnes) /\ Linked(ActiveOnes)' = Linked(ActiveOnes)
  BY <1>1, <1>5, AtRest DEF Agree, Linked, ActiveOnes
<1>7. <<f, 0>> \in Paths /\ fs[<<f, 0>>] = Top.ent
  <2>1. 0 \in 0..MaxStamp
    BY PortImageAssumption
  <2> QED
    BY <1>1, <2>1 DEF Paths, StoresInv, MovedThere
<1>8. \A q \in Paths : IF q = <<f, 0>> THEN fs'[q] = "none" ELSE fs'[q] = fs[q]
  BY <1>1
<1>9. RowsOnDisk'
  <2> SUFFICES ASSUME NEW r \in active PROVE fs'[<<r[2], r[3]>>] = r[1]
    BY <1>1 DEF RowsOnDisk
  <2>1. <<r[2], r[3]>> \in Paths /\ fs[<<r[2], r[3]>>] = r[1]
    BY <1>5 DEF Paths, Agree, DiskRows, RowsOnDisk
  <2>2. r[1] # Top.ent
    BY <1>2, <1>6 DEF Linked, ActiveOnes
  <2> QED
    BY <1>7, <1>8, <2>1, <2>2
<1>10. DiskInRows'
  <2> SUFFICES ASSUME NEW q \in Paths, fs'[q] \in Entries
               PROVE  \/ <<fs'[q], q[1], q[2]>> \in active
                      \/ fs'[q] = Top.ent /\ q[2] = 0 /\ q[1] \in Top.moved \ {f}
    BY <1>1, <1>4 DEF DiskInRows
  <2>1. q # <<f, 0>> /\ fs'[q] = fs[q] /\ q = <<q[1], q[2]>>
    BY <1>8, PortImageAssumption DEF Paths
  <2>2. \/ <<fs[q], q[1], q[2]>> \in active
        \/ fs[q] = Top.ent /\ q[2] = 0 /\ q[1] \in Top.moved
    BY <1>5, <2>1 DEF Agree, DiskRows, DiskInRows
  <2> QED
    BY <2>1, <2>2
<1>11. RowsAgree'
  <2>1. Linking' = {} /\ Unlinking' = {}
    BY <1>4 DEF Linking, Unlinking
  <2>2. (ActiveOnes' \cup {}) \ {} = ActiveOnes'
    OBVIOUS
  <2>3. Linked((ActiveOnes \cup Linking) \ Unlinking)' = Linked(ActiveOnes)'
    BY <2>1, <2>2 DEF Linked
  <2> QED
    BY <1>1, <1>4, <1>6, <2>3 DEF RowsAgree
<1> QED
  BY <1>1, <1>4, <1>5, <1>9, <1>10, <1>11 DEF DiskRows, TodoOnDisk, Archives, Agree

\* A deactivation takes the rows away first, then what is at their paths.
LEMMA AgreeUnlink ==
    ASSUME TypeOK, TopStates, StoresInv, Agree, Unlink
    PROVE  RowsAgree' /\ DiskRows' /\ Archives'
<1> USE DEF TypeOK
<1>1. /\ At("deactivate", "unlink") /\ ~Idle /\ active' = active \ RowsOf(Top.ent)
      /\ UNCHANGED <<state, committed, archive, fs>>
  BY DEF Unlink, At
<1>2. Top.ent \in Entries
  BY <1>1, TopFields
<1>3. PICK td : td = {<<r[2], r[3]>> : r \in RowsOf(Top.ent)}
  OBVIOUS
<1>4. Becomes("remove", td, Top.moved)
  BY <1>3, EffectsBecome
<1>5. /\ At("deactivate", "remove")' /\ ~At("activate", "mark")' /\ ~At("activate", "move")'
      /\ ~At("activate", "unmove")' /\ ~At("deactivate", "unmark")' /\ ~At("install", "record")'
      /\ Top'.ent = Top.ent /\ Top'.todo = td
  BY <1>1, <1>4 DEF Becomes, At
<1>6. /\ ~At("activate", "mark") /\ ~At("activate", "move") /\ ~At("activate", "unmove")
      /\ ~At("deactivate", "remove") /\ ~At("deactivate", "unmark") /\ ~At("uninstall", "entry")
  BY <1>1 DEF At
<1>7. active = Linked(ActiveOnes) /\ active = committed /\ Linked(ActiveOnes)' = Linked(ActiveOnes)
  BY <1>1, <1>6, AtRest DEF Agree, Linked, ActiveOnes, StoresInv, Committing
<1>8. RowsAgree'
  <2>1. ActiveOnes \in SUBSET Entries /\ (ActiveOnes \cup {}) \ {Top.ent} = ActiveOnes \ {Top.ent}
    BY DEF ActiveOnes
  <2>2. Linking' = {} /\ Unlinking' = {Top.ent} /\ ActiveOnes' = ActiveOnes
    BY <1>1, <1>5 DEF Linking, Unlinking, ActiveOnes
  <2>3. Linked((ActiveOnes \cup Linking) \ Unlinking)' = Linked(ActiveOnes \ {Top.ent})
    BY <2>1, <2>2 DEF Linked
  <2>4. Linked(ActiveOnes \ {Top.ent}) = {r \in active : r[1] # Top.ent}
    BY ZenonT(60), <1>2, <1>7, <2>1, LinkedOne
  <2> QED
    BY <1>1, <1>5, <1>7, <2>3, <2>4 DEF RowsAgree, RowsOf
<1>9. /\ \A r \in active : fs[<<r[2], r[3]>>] = r[1]
      /\ \A p \in Paths : fs[p] \in Entries => <<fs[p], p[1], p[2]>> \in active
      /\ \A e \in Entries : state[e] # "absent" => e \in archive
  BY <1>6 DEF Agree, DiskRows, RowsOnDisk, DiskInRows, Archives
<1>10. RowsOnDisk'
  BY <1>1, <1>9 DEF RowsOnDisk
<1>11. DiskInRows'
  <2> SUFFICES ASSUME NEW p \in Paths, fs[p] \in Entries
               PROVE  \/ <<fs[p], p[1], p[2]>> \in active \ RowsOf(Top.ent)
                      \/ fs[p] = Top.ent /\ p \in td
    BY <1>1, <1>5 DEF DiskInRows
  <2>1. <<fs[p], p[1], p[2]>> \in active /\ p = <<p[1], p[2]>>
    BY <1>9 DEF Paths
  <2> QED
    BY <1>3, <2>1 DEF RowsOf
<1>12. TodoOnDisk'
  <2>1. \A p \in td : fs[p] = Top.ent
    BY <1>3, <1>9 DEF RowsOf
  <2> QED
    BY <1>1, <1>5, <2>1 DEF TodoOnDisk
<1> QED
  BY <1>1, <1>5, <1>8, <1>9, <1>10, <1>11, <1>12 DEF DiskRows, Archives

\* What is removed has no row any more.
LEMMA AgreeRemove ==
    ASSUME TypeOK, Agree, NEW p \in Paths, Remove(p)
    PROVE  RowsAgree' /\ DiskRows' /\ Archives'
<1> USE DEF TypeOK
<1>1. /\ At("deactivate", "remove") /\ ~Idle /\ p \in Top.todo
      /\ fs' = [fs EXCEPT ![p] = "none"] /\ UNCHANGED <<state, active, committed, archive>>
  BY DEF Remove, At, registry
<1>2. Becomes("remove", Top.todo \ {p}, Top.moved)
  BY EffectsBecome
<1>3. /\ At("deactivate", "remove")' /\ ~At("activate", "mark")' /\ ~At("activate", "move")'
      /\ ~At("activate", "unmove")' /\ ~At("deactivate", "unmark")' /\ ~At("install", "record")'
      /\ Top'.ent = Top.ent /\ Top'.todo = Top.todo \ {p}
  BY <1>1, <1>2 DEF Becomes, At
<1>4. /\ ~At("activate", "mark") /\ ~At("activate", "move") /\ ~At("activate", "unmove")
      /\ ~At("deactivate", "unmark") /\ ~At("uninstall", "entry")
  BY <1>1 DEF At
<1>5. RowsAgree'
  <2>1. Linked((ActiveOnes \cup Linking) \ Unlinking)' = Linked((ActiveOnes \cup Linking) \ Unlinking)
    BY <1>1, <1>3, <1>4 DEF Linked, ActiveOnes, Linking, Unlinking
  <2>2. Linked(ActiveOnes)' = Linked(ActiveOnes)
    BY <1>1 DEF Linked, ActiveOnes
  <2> QED
    BY <1>1, <1>3, <2>1, <2>2 DEF Agree, RowsAgree
<1>6. \A q \in Paths : IF q = p THEN fs'[q] = "none" ELSE fs'[q] = fs[q]
  BY <1>1
<1>7. /\ \A r \in active : r[1] # Top.ent /\ fs[<<r[2], r[3]>>] = r[1]
      /\ \A q \in Paths : fs[q] \in Entries =>
            <<fs[q], q[1], q[2]>> \in active \/ (fs[q] = Top.ent /\ q \in Top.todo)
      /\ \A q \in Top.todo : fs[q] = Top.ent
  <2>1. \A r \in active : r[1] # Top.ent
    BY <1>1 DEF Agree, RowsAgree, Linked, Unlinking
  <2> QED
    BY <1>1, <1>4, <2>1 DEF Agree, DiskRows, RowsOnDisk, DiskInRows, TodoOnDisk
<1>8. RowsOnDisk'
  <2>1. \A r \in active : <<r[2], r[3]>> \in Paths /\ <<r[2], r[3]>> # p
    BY ZenonT(60), <1>1, <1>7 DEF Paths
  <2> QED
    BY <1>1, <1>6, <1>7, <2>1 DEF RowsOnDisk
<1>9. DiskInRows'
  BY <1>1, <1>3, <1>6, <1>7, PortImageAssumption DEF DiskInRows
<1>10. TodoOnDisk'
  <2>1. Top.todo \subseteq Paths
    BY <1>1, FramesNonempty DEF Frames
  <2> QED
    BY <1>3, <1>6, <1>7, <2>1 DEF TodoOnDisk
<1>11. Archives'
  BY <1>1, <1>3, <1>4 DEF Archives, Agree
<1> QED
  BY <1>5, <1>8, <1>9, <1>10, <1>11 DEF DiskRows

\* At the end the rows and the files are gone, and the state is still set.
LEMMA AgreeRemoved ==
    ASSUME TypeOK, Agree, RemoveDone PROVE RowsAgree' /\ DiskRows' /\ Archives'
<1> USE DEF TypeOK
<1>1. /\ At("deactivate", "remove") /\ ~Idle /\ Top.todo = {}
      /\ UNCHANGED <<state, active, archive, fs>>
  BY DEF RemoveDone, At
<1>2. Becomes("unmark", Top.todo, Top.moved)
  BY EffectsBecome
<1>3. /\ At("deactivate", "unmark")' /\ ~At("activate", "mark")' /\ ~At("activate", "move")'
      /\ ~At("activate", "unmove")' /\ ~At("deactivate", "remove")' /\ ~At("install", "record")'
      /\ Top'.ent = Top.ent
  BY <1>1, <1>2 DEF Becomes, At
<1>4. /\ ~At("activate", "mark") /\ ~At("activate", "move") /\ ~At("activate", "unmove")
      /\ ~At("deactivate", "unmark") /\ ~At("uninstall", "entry")
  BY <1>1 DEF At
<1>5. RowsAgree'
  <2>1. Linked((ActiveOnes \cup Linking) \ Unlinking)' = Linked((ActiveOnes \cup Linking) \ Unlinking)
    BY <1>1, <1>3, <1>4 DEF Linked, ActiveOnes, Linking, Unlinking
  <2> QED
    BY <1>1, <1>3, <2>1 DEF Agree, RowsAgree
<1> QED
  BY <1>1, <1>3, <1>4, <1>5 DEF Agree, DiskRows, RowsOnDisk, DiskInRows, TodoOnDisk, Archives

\* Then the state is set back.
LEMMA AgreeUnmark ==
    ASSUME TypeOK, TopStates, Agree, Unmark PROVE RowsAgree' /\ DiskRows' /\ Archives'
<1> USE DEF TypeOK
<1>1. /\ At("deactivate", "unmark") /\ ~Idle /\ UNCHANGED <<active, archive, fs>>
      /\ state' = [state EXCEPT ![Top.ent] = "imaged"]
  BY DEF Unmark, At
<1>2. Top.ent \in Entries /\ state[Top.ent] = "installed"
  BY <1>1, TopFields DEF TopStates, At
<1>3. Becomes("ok", Top.todo, Top.moved)
  BY EffectsBecome
<1>4. /\ ~At("activate", "mark")' /\ ~At("activate", "move")' /\ ~At("activate", "unmove")'
      /\ ~At("deactivate", "remove")' /\ ~At("deactivate", "unmark")' /\ ~At("install", "record")'
  BY <1>1, <1>3 DEF Becomes, At
<1>5. /\ ~At("activate", "mark") /\ ~At("activate", "move") /\ ~At("activate", "unmove")
      /\ ~At("deactivate", "remove") /\ ~At("uninstall", "entry")
  BY <1>1 DEF At
<1>6. RowsAgree'
  <2>1. Linking = {} /\ Unlinking = {Top.ent} /\ Linking' = {} /\ Unlinking' = {}
    BY <1>1, <1>4, <1>5 DEF Linking, Unlinking
  <2>2. ActiveOnes' = ActiveOnes \ {Top.ent}
    BY <1>1, <1>2 DEF ActiveOnes
  <2>3. (ActiveOnes' \cup Linking') \ Unlinking' = (ActiveOnes \cup Linking) \ Unlinking
    BY <2>1, <2>2
  <2>4. Linked((ActiveOnes \cup Linking) \ Unlinking)' = Linked((ActiveOnes \cup Linking) \ Unlinking)
    BY <2>3 DEF Linked
  <2> QED
    BY <1>1, <1>4, <2>4 DEF Agree, RowsAgree
<1>7. DiskRows'
  BY <1>1, <1>4, <1>5 DEF Agree, DiskRows, RowsOnDisk, DiskInRows, TodoOnDisk
<1>8. Archives'
  BY <1>1, <1>2, <1>4, <1>5 DEF Agree, Archives
<1> QED
  BY <1>6, <1>7, <1>8

\* Installing an image and removing one.
LEMMA AgreeImage ==
    ASSUME TypeOK, TopStates, Agree, DeleteImage \/ DeleteEntry \/ InstallStart \/ Record
    PROVE  RowsAgree' /\ DiskRows' /\ Archives'
<1> USE DEF TypeOK
<1>1. ~Idle /\ fs' = fs /\ (Top.op = "uninstall" \/ Top.op = "install")
  BY DEF DeleteImage, DeleteEntry, InstallStart, Record, At
<1>2. /\ ~At("activate", "mark") /\ ~At("activate", "move") /\ ~At("activate", "unmove")
      /\ ~At("deactivate", "remove") /\ ~At("deactivate", "unmark")
  BY <1>1 DEF At
<1>3. PICK pc \in {"entry", "ok", "record", "fail"} : Becomes(pc, Top.todo, Top.moved)
  BY EffectsBecome
<1>4. /\ ~At("activate", "mark")' /\ ~At("activate", "move")' /\ ~At("activate", "unmove")'
      /\ ~At("deactivate", "remove")' /\ ~At("deactivate", "unmark")'
      /\ Top'.ent = Top.ent /\ Top'.op = Top.op /\ ~Idle'
  BY <1>1, <1>3 DEF Becomes, At
<1>5. Top.ent \in Entries
  BY <1>1, TopFields
<1>6. active = Linked(ActiveOnes)
  BY <1>2, AtRest DEF Agree
<1>7. active' = active /\ ActiveOnes' = ActiveOnes
  <2>1. CASE DeleteImage \/ InstallStart
    BY <2>1 DEF DeleteImage, InstallStart, registry, ActiveOnes
  <2>2. CASE Record
    <3>1. state[Top.ent] = "absent" /\ state' = [state EXCEPT ![Top.ent] = "imaged"] /\ active' = active
      BY <2>2 DEF Record, TopStates, At
    <3> QED
      BY <1>5, <3>1 DEF ActiveOnes
  <2>3. CASE DeleteEntry
    <3>1. /\ state[Top.ent] = "imaged" /\ state' = [state EXCEPT ![Top.ent] = "absent"]
          /\ active' = active \ RowsOf(Top.ent)
      BY <2>3 DEF DeleteEntry, TopStates, At
    <3>2. RowsOf(Top.ent) = {}
      BY <1>6, <3>1 DEF RowsOf, Linked, ActiveOnes
    <3> QED
      BY <1>5, <3>1, <3>2 DEF ActiveOnes
  <2> QED
    BY <2>1, <2>2, <2>3
<1>8. RowsAgree'
  <2>1. Linking = {} /\ Unlinking = {} /\ Linking' = {} /\ Unlinking' = {}
    BY <1>2, <1>4 DEF Linking, Unlinking
  <2>2. (ActiveOnes' \cup Linking') \ Unlinking' = (ActiveOnes \cup Linking) \ Unlinking
    BY <1>7, <2>1
  <2>3. Linked((ActiveOnes \cup Linking) \ Unlinking)' = Linked((ActiveOnes \cup Linking) \ Unlinking)
    BY <2>2 DEF Linked
  <2> QED
    BY <1>4, <1>7, <2>3 DEF Agree, RowsAgree
<1>9. DiskRows'
  BY <1>1, <1>2, <1>4, <1>7 DEF Agree, DiskRows, RowsOnDisk, DiskInRows, TodoOnDisk
<1>10. Archives'
  <2>1. CASE DeleteImage
    <3>1. /\ At("uninstall", "image") /\ archive' = archive \ {Top.ent} /\ state' = state
          /\ Becomes("entry", Top.todo, Top.moved)
      BY <2>1, EffectsBecome DEF DeleteImage, registry
    <3>2. ~At("uninstall", "entry") /\ At("uninstall", "entry")' /\ ~At("install", "record")'
      BY <3>1 DEF Becomes, At
    <3> QED
      BY <1>4, <3>1, <3>2 DEF Agree, Archives
  <2>2. CASE DeleteEntry
    <3>1. /\ At("uninstall", "entry") /\ archive' = archive
          /\ state' = [state EXCEPT ![Top.ent] = "absent"]
          /\ Becomes("ok", Top.todo, Top.moved)
      BY <2>2, EffectsBecome DEF DeleteEntry
    <3>2. ~At("install", "record")'
      BY <3>1 DEF Becomes, At
    <3>3. \A e \in Entries : state'[e] # "absent" => e # Top.ent /\ state[e] # "absent"
      BY <1>5, <3>1
    <3> QED
      BY <3>1, <3>2, <3>3 DEF Agree, Archives
  <2>3. CASE InstallStart
    <3>1. /\ At("install", "start") /\ state' = state
          /\ \/ archive' = archive \cup {Top.ent}
             \/ archive' = archive /\ Becomes("fail", Top.todo, Top.moved)
      BY <2>3, EffectsBecome DEF InstallStart, registry
    <3>2. ~At("uninstall", "entry")
      BY <3>1 DEF At
    <3>3. archive' = archive \cup {Top.ent} \/ ~At("install", "record")'
      BY <3>1 DEF Becomes, At
    <3> QED
      BY <1>4, <3>1, <3>2, <3>3 DEF Agree, Archives
  <2>4. CASE Record
    <3>1. /\ At("install", "record") /\ archive' = archive
          /\ state' = [state EXCEPT ![Top.ent] = "imaged"]
          /\ Becomes("ok", Top.todo, Top.moved)
      BY <2>4, EffectsBecome DEF Record
    <3>2. ~At("uninstall", "entry") /\ ~At("install", "record")'
      BY <3>1 DEF Becomes, At
    <3>3. \A e \in Entries : e # Top.ent => state'[e] = state[e]
      BY <3>1
    <3> QED
      BY <3>1, <3>2, <3>3 DEF Agree, Archives
  <2> QED
    BY <2>1, <2>2, <2>3, <2>4
<1> QED
  BY <1>8, <1>9, <1>10

\* A file that the user makes is at no path of a row.
LEMMA AgreeUserMakes ==
    ASSUME TypeOK, Agree, NEW f \in Files, UserMakes(f)
    PROVE  RowsAgree' /\ DiskRows' /\ Archives'
<1> USE DEF TypeOK
<1>1. /\ UNCHANGED <<state, active, committed, archive, stack>> /\ ~Exists(<<f, 0>>)
      /\ fs' = [fs EXCEPT ![<<f, 0>>] = "user"]
  BY DEF UserMakes, registry
<1>2. <<f, 0>> \in Paths /\ fs[<<f, 0>>] = "none"
  <2>1. 0 \in 0..MaxStamp
    BY PortImageAssumption
  <2> QED
    BY <1>1, <2>1 DEF Paths, Exists
<1>3. \A q \in Paths : IF q = <<f, 0>> THEN fs'[q] = "user" ELSE fs'[q] = fs[q]
  BY <1>1, <1>2
<1>4. \A op, pc : At(op, pc)' <=> At(op, pc)
  BY <1>1 DEF At, Idle, Top
<1>5. Top' = Top
  BY <1>1 DEF Top
<1>6. RowsAgree' /\ Archives'
  BY <1>1, <1>4, <1>5 DEF Agree, RowsAgree, Archives, Linked, Linking, Unlinking, ActiveOnes
<1>7. RowsOnDisk'
  <2> SUFFICES ASSUME NEW r \in active
               PROVE  \/ fs'[<<r[2], r[3]>>] = r[1]
                      \/ At("activate", "move") /\ r[1] = Top.ent /\ <<r[2], r[3]>> \in Top.todo
    BY <1>1, <1>4, <1>5 DEF RowsOnDisk
  <2>1. <<r[2], r[3]>> \in Paths /\ r[1] # "none"
    BY PortImageAssumption DEF Paths
  <2> QED
    BY <1>2, <1>3, <2>1 DEF Agree, DiskRows, RowsOnDisk
<1>8. DiskInRows'
  BY <1>1, <1>3, <1>4, <1>5, PortImageAssumption DEF Agree, DiskRows, DiskInRows
<1>9. TodoOnDisk'
  <2>1. ~Idle => Top.ent # "none" /\ Top.ent # "user" /\ Top.todo \subseteq Paths
    BY TopFields, FramesNonempty, PortImageAssumption DEF Frames
  <2>2. At("activate", "move") \/ At("deactivate", "remove") => ~Idle
    BY DEF At
  <2> QED
    BY <1>2, <1>3, <1>4, <1>5, <2>1, <2>2 DEF Agree, DiskRows, TodoOnDisk
<1> QED
  BY <1>6, <1>7, <1>8, <1>9 DEF DiskRows

\* So do the steps that change no store: they leave only places where nothing
\* was on the way.
LEMMA AgreeQuiet ==
    ASSUME Forcing = {FALSE}, TypeOK, Callers, FramesOK, StoresInv, Agree, [Next]_vars,
           ~Effects, clean'
    PROVE  RowsAgree' /\ DiskRows' /\ Archives'
<1>1. UNCHANGED <<state, active, committed, archive, fs>>
  BY QuietStores DEF StoresInv
<1>2. CASE stack' = stack
  <2>1. (\A op, pc : At(op, pc)' <=> At(op, pc)) /\ Top' = Top
    BY <1>2 DEF At, Idle, Top
  <2> QED
    BY <1>1, <2>1 DEF Agree, RowsAgree, DiskRows, RowsOnDisk, DiskInRows, TodoOnDisk,
       Archives, Linked, Linking, Unlinking, ActiveOnes
<1>3. CASE stack' # stack
  <2>1. ~Busy'
    BY <1>3, QuietLeads
  <2>2. ~Busy \/ (At("activate", "unmove") /\ Top.moved = {}) \/ At("install", "record")
    BY <1>3, QuietLeaves
  <2>3. /\ ~At("activate", "mark")' /\ ~At("activate", "move")' /\ ~At("activate", "unmove")'
        /\ ~At("deactivate", "remove")' /\ ~At("deactivate", "unmark")'
        /\ ~At("uninstall", "entry")' /\ ~At("install", "record")'
    BY <2>1 DEF Busy
  <2>4. /\ ~At("activate", "mark") /\ ~At("activate", "move")
        /\ At("activate", "unmove") => Top.moved = {}
        /\ ~At("deactivate", "remove") /\ ~At("deactivate", "unmark") /\ ~At("uninstall", "entry")
    BY <2>2 DEF Busy, At
  <2>5. Linking = {} /\ Unlinking = {} /\ Linking' = {} /\ Unlinking' = {}
    BY <2>3, <2>4 DEF Linking, Unlinking
  <2>6. RowsAgree'
    BY <1>1, <2>3, <2>5 DEF Agree, RowsAgree, Linked, ActiveOnes
  <2>7. DiskRows'
    BY <1>1, <2>3, <2>4 DEF Agree, DiskRows, RowsOnDisk, DiskInRows, TodoOnDisk
  <2>8. Archives'
    BY <1>1, <2>3, <2>4 DEF Agree, Archives
  <2> QED
    BY <2>6, <2>7, <2>8
<1> QED
  BY <1>2, <1>3

\* What holds besides as long as every failure is one the code undoes.
CleanInv == clean => Apart /\ Agree

\* Every step keeps it.
LEMMA CleanStep ==
    ASSUME Forcing = {FALSE}, UnforcedInv, CleanInv, [Next]_vars PROVE CleanInv'
<1> SUFFICES ASSUME clean' PROVE Apart' /\ Agree'
  BY DEF CleanInv
<1>1. clean
  BY CleanSteps
<1>2. Apart /\ Agree
  BY <1>1 DEF CleanInv
<1>3. TypeOK /\ Callers /\ FramesOK /\ TopStates /\ StoresInv
  BY DEF UnforcedInv
<1>4. Apart' /\ Waits'
  BY <1>2, <1>3, ApartStep, WaitsStep DEF Agree
<1>5. ~RemoveFails /\ ~Crash
  BY DEF RemoveFails, Crash
<1>6. RowsAgree' /\ DiskRows' /\ Archives'
  <2>1. CASE Link \/ Mark \/ MoveFails \/ MoveDone \/ \E p \in Paths : Move(p)
    BY <1>2, <1>3, <2>1, AgreeLink, AgreeMark, AgreeMoved, AgreeMove
  <2>2. CASE Unlink \/ RemoveDone \/ Unmark \/ \E p \in Paths : Remove(p)
    BY <1>2, <1>3, <2>2, AgreeUnlink, AgreeRemoved, AgreeUnmark, AgreeRemove
  <2>3. CASE DeleteImage \/ DeleteEntry \/ InstallStart \/ Record
    BY <1>2, <1>3, <2>3, AgreeImage
  <2>4. CASE \E f \in Files : Unmove(f) \/ UserMakes(f)
    BY <1>2, <1>3, <2>4, AgreeUnmove, AgreeUserMakes
  <2>5. CASE ~Effects
    BY <1>2, <1>3, <2>5, AgreeQuiet
  <2> QED
    BY <1>5, <2>1, <2>2, <2>3, <2>4, <2>5 DEF Effects
<1> QED
  BY <1>4, <1>6 DEF Agree

\* Between commands the invariant is what StateAgrees and DiskAgrees say.
LEMMA CleanAgrees ==
    ASSUME UnforcedInv, CleanInv PROVE StateAgrees /\ DiskAgrees
<1> SUFFICES ASSUME Idle, clean
             PROVE  /\ active = committed
                    /\ \A e \in Entries :
                         /\ {r[2] : r \in RowsOf(e)} =
                               IF state[e] = "installed" THEN Contents[e] ELSE {}
                         /\ state[e] # "absent" => e \in archive
                    /\ \A r \in active : fs[<<r[2], r[3]>>] = r[1]
                    /\ \A p \in Paths : fs[p] \in Entries => Owner(p) = {fs[p]}
  BY DEF StateAgrees, DiskAgrees
<1>1. TypeOK /\ Agree /\ StoresInv
  BY DEF CleanInv, UnforcedInv
<1>2. \A op, pc : ~At(op, pc)
  BY DEF At
<1>3. active = Linked(ActiveOnes) /\ active = committed
  BY <1>1, <1>2, AtRest DEF Agree, StoresInv, Committing
<1>4. ASSUME NEW e \in Entries
      PROVE  {r[2] : r \in RowsOf(e)} = IF state[e] = "installed" THEN Contents[e] ELSE {}
  <2>1. CASE state[e] # "installed"
    <3>1. RowsOf(e) = {}
      BY <1>3, <2>1 DEF RowsOf, Linked, ActiveOnes
    <3> QED
      BY <2>1, <3>1
  <2>2. CASE state[e] = "installed"
    <3>1. \A h \in Contents[e] : <<e, h, 0>> \in RowsOf(e)
      BY <1>3, <2>2, PortImageAssumption DEF RowsOf, Linked, ActiveOnes
    <3>2. \A r \in RowsOf(e) : r[2] \in Contents[e]
      BY <1>3 DEF RowsOf, Linked
    <3>3. ASSUME NEW h \in Contents[e] PROVE \E r \in RowsOf(e) : r[2] = h
      <4>1. <<e, h, 0>>[2] = h
        OBVIOUS
      <4> QED
        BY <3>1, <4>1
    <3>4. {r[2] : r \in RowsOf(e)} = Contents[e]
      BY <3>2, <3>3
    <3> QED
      BY <2>2, <3>4
  <2> QED
    BY <2>1, <2>2
<1>5. \A e \in Entries : state[e] # "absent" => e \in archive
  BY <1>1, <1>2 DEF Agree, Archives
<1>6. /\ \A r \in active : fs[<<r[2], r[3]>>] = r[1]
      /\ \A p \in Paths : fs[p] \in Entries => <<fs[p], p[1], p[2]>> \in active
  BY <1>1, <1>2 DEF Agree, DiskRows, RowsOnDisk, DiskInRows
<1>7. ASSUME NEW p \in Paths, fs[p] \in Entries PROVE Owner(p) = {fs[p]}
  <2>1. fs[p] \in Owner(p)
    BY <1>6, <1>7 DEF Owner
  <2>2. \A e \in Owner(p) : e = fs[p]
    <3>1. \A e \in Owner(p) : <<e, p[1], p[2]>> \in active /\ p = <<p[1], p[2]>>
      BY DEF Owner, Paths
    <3> QED
      BY <1>6, <3>1
  <2> QED
    BY <2>1, <2>2
<1> QED
  BY <1>3, <1>4, <1>5, <1>6, <1>7

\* Where no command is given -f, the registry, the archives and the disk agree
\* between commands, if every failure so far was one the code undoes, in the
\* error handlers of _activate_contents, _deactivate_contents and install_main.
THEOREM StoresAgreeCorrect ==
    ASSUME Forcing = {FALSE} PROVE Spec => []StoresAgree
<1>1. Init => CleanInv
  <2> SUFFICES ASSUME Init PROVE Apart /\ Agree
    BY DEF CleanInv
  <2>1. /\ state = [e \in Entries |-> "imaged"] /\ active = {} /\ archive = Entries
        /\ \A p \in Paths : fs[p] \in {"user", "none"}
        /\ Len(stack) = 0 /\ \A op, pc : ~At(op, pc)
    BY DEF Init, At, Idle
  <2>2. Linked({}) = {} /\ ActiveOnes = {} /\ (ActiveOnes \cup {}) \ {} = {}
    BY <2>1 DEF Linked, ActiveOnes
  <2>3. RowsAgree
    BY <2>1, <2>2 DEF RowsAgree, Linking, Unlinking
  <2> QED
    BY <2>1, <2>3, PortImageAssumption
    DEF Agree, Apart, Waits, DiskRows, RowsOnDisk, DiskInRows, TodoOnDisk, Archives
<1>2. UnforcedInv /\ CleanInv /\ [Next]_vars => CleanInv'
  BY CleanStep
<1>3. UnforcedInv /\ CleanInv => StoresAgree
  BY CleanAgrees DEF UnforcedInv, StoresAgree
<1>4. Spec => []UnforcedInv
  BY UnforcedInvCorrect
<1> QED
  BY <1>1, <1>2, <1>3, <1>4, PTL DEF Spec
=============================================================================
