------------------------------ MODULE SharedVars ----------------------------
(***************************************************************************)
(* Variables shared by threads (thread2.6/generic/threadSvCmd.c). Arrays   *)
(* are spread over buckets, each with a recursive lock and a list of free  *)
(* containers; an element is a container, which a script may also reach    *)
(* through an object command named after its address. An array may be      *)
(* bound to a persistent store.                                            *)
(*                                                                         *)
(* What is done while a bucket is locked is one step. A command that has   *)
(* changed an element unlocks before it saves it: reading the element and  *)
(* writing the store are steps of their own.                               *)
(***************************************************************************)
EXTENDS Integers, Sequences, FiniteSets, SequencesExt

CONSTANTS
    Threads,
    Nobody,
    Arrays,
    NumBuckets,
    BucketOf,    \* array -> bucket: LockArray's hash
    Keys,
    NumCells,    \* containers in a bucket: as many as it may ever need
    MaxVal,      \* bound: values are 0..MaxVal, "null" is no object at all
    Plans        \* use: thread -> the arrays it uses, locked: only inside
                 \* tsv::lock; the commands, how many; which keys may be stored
                 \* already, whether the store may fail to delete

Buckets == 0..NumBuckets - 1
SvAssumption ==
    /\ NumBuckets \in Nat \ {0} /\ NumCells \in Nat /\ MaxVal \in Nat
    /\ BucketOf \in [Arrays -> Buckets] /\ Nobody \notin Threads \cup Arrays
    /\ \A p \in Plans : p.use \in [Threads -> SUBSET Arrays] /\ p.calls \in Nat

VARIABLES
    mem,     \* made, bound: arrays; vars: array -> key -> container or NoCell;
             \* cell: the containers; free: bucket -> the unused ones
    store,   \* key -> value or NoVal
    lock,    \* bucket -> owner and count
    thread,  \* thread -> where it is, in what array it is locked, its objects
    plan, calls

vars == <<mem, store, lock, thread, plan, calls>>

Cells == Buckets \X (1..NumCells)
NoCell == <<-1, 0>>
Hole == <<-1, 1>>    \* an entry that no container was put in
NoVal == -1
Null == -2
Values == 0..MaxVal
Blank == [arr |-> Nobody, key |-> "", val |-> Null, handle |-> FALSE]

Init ==
    /\ plan \in Plans /\ calls = plan.calls
    /\ mem = [made |-> {}, bound |-> {},
              vars |-> [a \in Arrays |-> [k \in Keys |-> NoCell]],
              cell |-> [c \in Cells |-> Blank],
              free |-> [b \in Buckets |-> [i \in 1..NumCells |-> <<b, i>>]]]
    /\ store \in {[k \in Keys |-> IF k \in s THEN MaxVal ELSE NoVal] : s \in plan.stored}
    /\ lock = [b \in Buckets |-> [owner |-> Nobody, count |-> 0]]
    /\ thread = [t \in Threads |-> [pc |-> "script", in |-> Nobody, arr |-> Nobody, key |-> "",
                                    cell |-> NoCell, val |-> NoVal, scan |-> 0, objs |-> {}]]

-----------------------------------------------------------------------------
(* Containers and arrays *)

\* CreateContainer takes the first free one.
CreateContainer(m, a, k, v) ==
    LET b == BucketOf[a]
        c == Head(m.free[b])
    IN  [m EXCEPT !.made = @ \cup {a}, !.free[b] = Tail(@), !.vars[a][k] = c,
                  !.cell[c] = [arr |-> a, key |-> k, val |-> v, handle |-> FALSE]]

\* AcquireContainer: an element of a bound array is looked for in the store too.
AcquireContainer(m, a, k) ==
    IF m.vars[a][k] # NoCell THEN m
    ELSE CreateContainer(m, a, k,
            IF a \in m.bound /\ store[k] # NoVal THEN store[k] ELSE 0)
Present(m, a) ==
    {k \in Keys : a \in m.made /\ (m.vars[a][k] # NoCell \/ (a \in m.bound /\ store[k] # NoVal))}

\* Slip: the container keeps its handle.
DeleteKeepsHandle(m, c) ==
    LET d == m.cell[c]
    IN  [m EXCEPT !.vars[d.arr][d.key] = NoCell, !.cell[c] = [Blank EXCEPT !.handle = d.handle],
                  !.free[c[1]] = <<c>> \o @]
\* DeleteContainer makes it the first free one.
DeleteContainer(m, c) ==
    LET d == m.cell[c]
    IN  [m EXCEPT !.vars[d.arr][d.key] = NoCell, !.cell[c] = Blank,
                  !.free[c[1]] = <<c>> \o @]
\* It fails when the store does, with the handle and the object gone.
DeleteHalf(m, c) == [m EXCEPT !.cell[c].handle = FALSE, !.cell[c].val = Null]

CellsOf(m, a) == {m.vars[a][k] : k \in Keys} \ {NoCell, Hole}

\* FlushArray
Flushed(m, a) == FoldSet(LAMBDA c, n : DeleteContainer(n, c), m, CellsOf(m, a))

Stored(k, v) == IF k \in Keys THEN [store EXCEPT ![k] = v] ELSE store
InStore(m, a, k, v) == IF a \in m.bound THEN Stored(k, v) ELSE store

-----------------------------------------------------------------------------
(* Locks *)

Free(t, b) == lock[b].owner \in {t, Nobody}
LockBucket(t, b) == [lock EXCEPT ![b].owner = t, ![b].count = @ + 1]
\* Slip: it is given up as a whole.
UnlockAll(b) == [lock EXCEPT ![b] = [owner |-> Nobody, count |-> 0]]
UnlockBucket(b) ==
    [lock EXCEPT ![b].count = @ - 1, ![b].owner = IF lock[b].count = 1 THEN Nobody ELSE @]

\* The scripts of a behaviour keep to its plan.
Uses(t, command, a) ==
    /\ command \in plan.commands /\ thread[t].pc = "script"
    /\ calls > 0 /\ calls' = calls - 1
    /\ a \in plan.use[t] /\ (plan.locked => thread[t].in = a)
    /\ UNCHANGED plan

\* Sv_GetContainer: by the name of the element, or by the object, unless it
\* was deleted. What follows the use of an element without an object, or of an
\* array with a hole, is not modelled.
Locks(t, command, a) ==
    /\ Uses(t, command, a) /\ Free(t, BucketOf[a])
    /\ \A k \in Keys : mem.vars[a][k] # Hole
Named(m, a, k) ==
    LET n == AcquireContainer(m, a, k) IN [mem |-> n, cell |-> n.vars[a][k]]
Found(t, a) ==
    {f \in {Named(mem, a, k) : k \in Present(mem, a)}
           \cup {[mem |-> mem, cell |-> c] :
                   c \in {d \in thread[t].objs : mem.cell[d].arr = a /\ mem.cell[d].handle}} :
        f.mem.cell[f.cell].val # Null}
Made(a, new) == {Named(mem, a, k) : k \in new \ Present(mem, a)}

\* Where a thread is between the steps of a command.
Goes(t, pc, a, k, c) ==
    thread' = [thread EXCEPT ![t].pc = pc, ![t].arr = a, ![t].key = k, ![t].cell = c]
Done(t) ==
    thread' = [thread EXCEPT ![t].pc = "script", ![t].arr = Nobody, ![t].key = "",
                             ![t].cell = NoCell, ![t].val = NoVal, ![t].scan = 0]

-----------------------------------------------------------------------------
(* Commands on elements *)

\* tsv::set creates what is not there.
Set(t) == \E a \in Arrays, v \in Values :
    /\ Locks(t, "set", a)
    /\ \E f \in Found(t, a) \cup Made(a, Keys) :
        /\ mem' = [f.mem EXCEPT !.cell[f.cell].val = v]
        /\ Goes(t, "put", a, "", f.cell)
    /\ UNCHANGED <<store, lock>>

\* tsv::incr, and tsv::append, which creates the element.
Extend(t, command, new) == \E a \in Arrays :
    /\ Locks(t, command, a)
    /\ \E f \in Found(t, a) \cup Made(a, new) :
        /\ f.mem.cell[f.cell].val \in 0..MaxVal - 1
        /\ mem' = [f.mem EXCEPT !.cell[f.cell].val = @ + 1]
        /\ Goes(t, "put", a, "", f.cell)
    /\ UNCHANGED <<store, lock>>
Incr(t) == Extend(t, "incr", {})
AppendTo(t) == Extend(t, "append", Keys)

\* tsv::object gives out a handle on an element; one that is not there is
\* created under a second lock, and gets a value even if it is there by then.
Handle(t, m, a, c) ==
    /\ mem' = [m EXCEPT !.cell[c].handle = TRUE]
    /\ thread' = [thread EXCEPT ![t].objs = @ \cup {c}, ![t].pc = "script", ![t].arr = Nobody, ![t].key = ""]
Object(t) == \E a \in Arrays, k \in Keys :
    /\ Locks(t, "object", a)
    /\ IF k \in Present(mem, a)
       THEN LET f == Named(mem, a, k) IN Handle(t, f.mem, a, f.cell)
       ELSE Goes(t, "object", a, k, NoCell) /\ UNCHANGED mem
    /\ UNCHANGED <<store, lock>>
ObjectCreates(t) ==
    LET a == thread[t].arr
        f == Named(mem, a, thread[t].key)
    IN  /\ thread[t].pc = "object" /\ Free(t, BucketOf[a])
        /\ Handle(t, [f.mem EXCEPT !.cell[f.cell].val = 0], a, f.cell)
        /\ UNCHANGED <<store, lock, plan, calls>>

\* tsv::pop
Pop(t) == \E a \in Arrays :
    /\ Locks(t, "pop", a)
    /\ \E f \in Found(t, a) :
        \/ /\ mem' = DeleteContainer(f.mem, f.cell)
           /\ store' = InStore(mem, a, f.mem.cell[f.cell].key, NoVal)
        \/ /\ plan.fails /\ a \in mem.bound
           /\ mem' = DeleteHalf(f.mem, f.cell) /\ UNCHANGED store
    /\ Done(t) /\ UNCHANGED lock

\* tsv::unset of an element
Unset(t) == \E a \in Arrays :
    /\ Locks(t, "unset", a)
    /\ \E c \in CellsOf(mem, a) :
        \/ /\ mem' = DeleteContainer(mem, c)
           /\ store' = InStore(mem, a, mem.cell[c].key, NoVal)
        \/ /\ plan.fails /\ a \in mem.bound
           /\ mem' = DeleteHalf(mem, c) /\ UNCHANGED store
    /\ Done(t) /\ UNCHANGED lock

Moved(m, c, k) ==
    [m EXCEPT !.vars[m.cell[c].arr] = [@ EXCEPT ![m.cell[c].key] = NoCell, ![k] = c],
              !.cell[c].key = k]
\* Slip: the old name stays in the store.
MoveCopies(t) == \E a \in Arrays, to \in Keys :
    /\ Locks(t, "move", a)
    /\ \E f \in Found(t, a) :
        /\ f.mem.vars[a][to] = NoCell
        /\ mem' = Moved(f.mem, f.cell, to) /\ Goes(t, "put", a, "", f.cell)
        /\ UNCHANGED <<store, lock>>
\* tsv::move: when the store fails, the bucket stays locked and the new name
\* has no element.
Move(t) == \E a \in Arrays, to \in Keys :
    /\ Locks(t, "move", a)
    /\ \E f \in Found(t, a) :
        /\ f.mem.vars[a][to] = NoCell
        /\ \/ /\ mem' = Moved(f.mem, f.cell, to) /\ Goes(t, "put", a, "", f.cell)
              /\ store' = InStore(mem, a, f.mem.cell[f.cell].key, NoVal)
              /\ UNCHANGED lock
           \/ /\ plan.fails /\ a \in mem.bound
              /\ mem' = [f.mem EXCEPT !.vars[a][to] = Hole]
              /\ lock' = LockBucket(t, BucketOf[a])
              /\ Done(t) /\ UNCHANGED store

\* Sv_PutContainer has unlocked: ReleaseContainer reads the element and writes
\* it to the store.
PutReads(t) ==
    LET d == mem.cell[thread[t].cell]
    IN  /\ thread[t].pc = "put" /\ d.arr # Nobody
        /\ IF d.arr \in mem.bound
           THEN thread' = [thread EXCEPT ![t].pc = "putting", ![t].key = d.key, ![t].val = d.val]
           ELSE Done(t)
        /\ UNCHANGED <<mem, store, lock, plan, calls>>
PutWrites(t) ==
    /\ thread[t].pc = "putting"
    /\ store' = Stored(thread[t].key, thread[t].val)
    /\ Done(t)
    /\ UNCHANGED <<mem, lock, plan, calls>>

-----------------------------------------------------------------------------
(* Commands on arrays *)

\* tsv::array set and reset, with a list of one element or none.
ArraySet(t) == \E a \in Arrays, reset \in BOOLEAN, k \in Keys \cup {""}, v \in Values :
    LET m == IF reset THEN Flushed(mem, a) ELSE mem
        kept == IF reset /\ a \in mem.bound
                THEN [i \in Keys |-> IF mem.vars[a][i] = NoCell THEN store[i] ELSE NoVal]
                ELSE store
        n == CreateContainer(m, a, k, v)
    IN  /\ Locks(t, IF reset THEN "reset" ELSE "arrayset", a)
        /\ IF k = ""
           THEN mem' = [m EXCEPT !.made = @ \cup {a}] /\ store' = kept
           ELSE /\ mem' = IF m.vars[a][k] = NoCell THEN n
                          ELSE [m EXCEPT !.cell[m.vars[a][k]].val = v]
                /\ store' = IF a \in mem.bound THEN [kept EXCEPT ![k] = v] ELSE kept
        /\ Done(t) /\ UNCHANGED lock

\* tsv::unset of an array unlocks, and then deletes what is in it, in the
\* store too.
UnsetArray(t) == \E a \in Arrays :
    /\ Locks(t, "unsetarray", a) /\ a \in mem.made
    /\ Goes(t, "delete", a, "", NoCell)
    /\ UNCHANGED <<mem, store, lock>>
DeleteArray(t) ==
    LET a == thread[t].arr
    IN  /\ thread[t].pc = "delete" /\ a \in mem.made
        /\ mem' = [Flushed(mem, a) EXCEPT !.made = @ \ {a}, !.bound = @ \ {a}]
        /\ store' = IF a \in mem.bound
                    THEN [k \in Keys |-> IF mem.vars[a][k] = NoCell THEN store[k] ELSE NoVal]
                    ELSE store
        /\ Done(t)
        /\ UNCHANGED <<lock, plan, calls>>

\* tsv::array bind locks an array that is there and then, as tsv::names does,
\* every bucket in turn.
Bind(t) == \E a \in Arrays :
    /\ Locks(t, "bind", a) /\ a \notin mem.bound
    /\ thread' = [thread EXCEPT ![t].pc = IF a \in mem.made THEN "bind" ELSE "bindnew",
                                ![t].arr = a, ![t].scan = 0]
    /\ lock' = IF a \in mem.made THEN LockBucket(t, BucketOf[a]) ELSE lock
    /\ UNCHANGED <<mem, store>>
Names(t) == \E a \in Arrays :
    /\ Uses(t, "names", a)
    /\ thread' = [thread EXCEPT ![t].pc = "names", ![t].arr = a, ![t].scan = 0]
    /\ UNCHANGED <<mem, store, lock>>
Scans(t) ==
    LET b == thread[t].scan
        found == thread[t].pc # "names" /\ \E a \in mem.bound : BucketOf[a] = b
    IN  /\ thread[t].pc \in {"bind", "bindnew", "names"} /\ b < NumBuckets /\ Free(t, b)
        /\ IF found
           THEN /\ Done(t)
                /\ lock' = IF thread[t].pc = "bind" THEN UnlockBucket(BucketOf[thread[t].arr])
                           ELSE lock
           ELSE thread' = [thread EXCEPT ![t].scan = @ + 1] /\ UNCHANGED lock
        /\ UNCHANGED <<mem, store, plan, calls>>
NamesEnds(t) ==
    /\ thread[t].pc = "names" /\ thread[t].scan = NumBuckets
    /\ Done(t)
    /\ UNCHANGED <<mem, store, lock, plan, calls>>

\* GetPsStore opens the store: an array that was there is saved in it, then
\* what is only in the store is loaded.
Saved(a) ==
    [k \in Keys |-> IF mem.vars[a][k] = NoCell THEN store[k] ELSE mem.cell[mem.vars[a][k]].val]
Loaded(m, a) == FoldSet(LAMBDA k, n : AcquireContainer(n, a, k), m, Present(m, a))
BindOpens(t) ==
    LET a == thread[t].arr
        m == [mem EXCEPT !.made = @ \cup {a}, !.bound = @ \cup {a}]
    IN  /\ thread[t].pc \in {"bind", "bindnew"} /\ thread[t].scan = NumBuckets
        /\ Free(t, BucketOf[a])
        /\ mem' = Loaded(m, a)
        /\ store' = IF thread[t].pc = "bind" THEN Saved(a) ELSE store
        /\ lock' = IF thread[t].pc = "bind" THEN UnlockBucket(BucketOf[a]) ELSE lock
        /\ Done(t)
        /\ UNCHANGED <<plan, calls>>
Unbind(t) == \E a \in mem.bound :
    /\ Locks(t, "unbind", a)
    /\ mem' = [mem EXCEPT !.bound = @ \ {a}]
    /\ Done(t) /\ UNCHANGED <<store, lock>>

\* tsv::lock creates the array and keeps its bucket locked while its script
\* runs, which locks no other array.
Lock(t) == \E a \in Arrays :
    /\ plan.locked /\ a \in plan.use[t] /\ thread[t].pc = "script" /\ thread[t].in = Nobody
    /\ calls > 0 /\ calls' = calls - 1
    /\ Free(t, BucketOf[a])
    /\ lock' = LockBucket(t, BucketOf[a])
    /\ mem' = [mem EXCEPT !.made = @ \cup {a}]
    /\ thread' = [thread EXCEPT ![t].in = a]
    /\ UNCHANGED <<store, plan>>
LockEnds(t) ==
    /\ thread[t].pc = "script" /\ thread[t].in # Nobody
    /\ lock' = UnlockBucket(BucketOf[thread[t].in])
    /\ thread' = [thread EXCEPT ![t].in = Nobody]
    /\ UNCHANGED <<mem, store, plan, calls>>

Command(t) ==
    \/ Set(t) \/ Incr(t) \/ AppendTo(t) \/ Object(t) \/ Pop(t) \/ Unset(t) \/ Move(t)
    \/ ArraySet(t) \/ UnsetArray(t) \/ Bind(t) \/ Names(t) \/ Unbind(t) \/ Lock(t)
Proceed(t) ==
    \/ ObjectCreates(t) \/ PutReads(t) \/ PutWrites(t) \/ DeleteArray(t) \/ Scans(t)
    \/ NamesEnds(t) \/ BindOpens(t)

Next == \E t \in Threads : Command(t) \/ Proceed(t) \/ LockEnds(t)

\* Threads that can go on do, get a lock they are often offered, and scripts
\* come to an end.
Fairness == \A t \in Threads : SF_vars(Proceed(t)) /\ WF_vars(LockEnds(t))
Spec == Init /\ [][Next]_vars /\ Fairness

-----------------------------------------------------------------------------
(* Properties *)

\* A container is free, and then once in its bucket's list and without a
\* handle, or it is in one array, under its own name; only a store that fails
\* to delete leaves one without an object, or a name without one.
CellsKept ==
    /\ \A b \in Buckets : IsInjective(mem.free[b])
    /\ \A c \in Cells : LET d == mem.cell[c] IN
        IF c \in ToSet(mem.free[c[1]])
        THEN d = Blank
        ELSE (d.val = Null => plan.fails) /\ mem.vars[d.arr][d.key] = c
    /\ \A a \in Arrays, k \in Keys : LET c == mem.vars[a][k] IN
        c # NoCell =>
            \/ c = Hole /\ plan.fails
            \/ mem.cell[c].arr = a /\ mem.cell[c].key = k

\* What a command uses after it has unlocked is still there.
InUseKept == \A t \in Threads :
    /\ thread[t].pc = "put" => mem.cell[thread[t].cell].arr # Nobody
    /\ thread[t].pc = "delete" => thread[t].arr \in mem.made

\* The store has what a bound array has, when no command is under way and none
\* has failed.
StoreAgrees == (~plan.fails /\ \A t \in Threads : thread[t].pc = "script") =>
    \A a \in mem.bound, k \in Keys :
        store[k] = IF mem.vars[a][k] = NoCell THEN NoVal ELSE mem.cell[mem.vars[a][k]].val

\* The object of an element that was deleted works on no other one.
ObjectsEnd == [][\A t \in Threads : \A c \in thread[t].objs :
    ~mem.cell[c].handle => ~mem'.cell[c].handle]_vars

\* Every command comes to its end.
CommandsEnd == \A t \in Threads : thread[t].pc # "script" ~> thread[t].pc = "script"
=============================================================================
