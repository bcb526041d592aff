------------------------------- MODULE Uninstall ------------------------------
(***************************************************************************)
(* Uninstalling a port with the ports that depend on it, or with those it  *)
(* depends on: uninstall of src/registry2.0/portuninstall.tcl,             *)
(* check_dependents and run_target of registry_util.tcl, called by         *)
(* action_uninstall of src/port/port.tcl.  The Tcl call stack is explicit: *)
(* uninstall calls itself for each port, first through the uninstall       *)
(* target of the port's saved Portfile, then, when that fails, directly.   *)
(* What is done to the disk is PortImage's.                                *)
(***************************************************************************)
EXTENDS Naturals, Sequences, FiniteSets

CONSTANTS
    Entries,       \* versions of ports, as numbers: the registry's order
    Name,          \* the port of each, as a number
    Plans,         \* what the registry and the Portfiles may say
    MaxCommands,   \* commands of a session
    MaxFaults      \* steps that fail

Names == {Name[e] : e \in Entries}

\* .needs are the names in the registry's dependencies of an entry, .builds
\* those that only its Portfile has, .opens the entries whose saved Portfile
\* can be opened.
IsPlan(p) ==
    /\ p.installed \in SUBSET Entries /\ p.active \in SUBSET p.installed
    /\ \A d, e \in p.active : Name[d] = Name[e] => d = e
    /\ p.needs \in [Entries -> SUBSET Names] /\ p.builds \in [Entries -> SUBSET Names]
    /\ p.requested \in SUBSET Entries /\ p.opens \in SUBSET Entries
UninstallAssumption ==
    /\ Entries \in SUBSET Nat /\ Name \in [Entries -> Nat]
    /\ MaxCommands \in Nat /\ MaxFaults \in Nat
    /\ \A p \in Plans : IsPlan(p)

VARIABLES
    plan,        \* the plan: the properties and dependencies of entries
    installed,   \* the entries in the registry
    active,      \* those that are active
    forced,      \* uninstall.force
    command,     \* the command: entry, options
    stack,       \* the calls of uninstall, the innermost last
    thrown,      \* an error is on its way out of the innermost call
    result,      \* of the last command
    before,      \* history: what was installed when it was given
    commands, faults   \* counters

vars == <<plan, installed, active, forced, command, stack, thrown, result, before, commands,
          faults>>
history == <<command, result, before, commands>>

Least(S) == CHOOSE x \in S : \A y \in S : x <= y
Versions(n) == {v \in installed : Name[v] = n}

\* registry::entry dependents: dependencies are by name, whatever the version.
Dependents(e) == {d \in installed : Name[e] \in plan.needs[d]}

Call(e, up, down, via) ==
    [entry |-> e, up |-> up, down |-> down, via |-> via, pc |-> "start", todo |-> {},
     all |-> {}, remaining |-> {}, dep |-> 0, versions |-> {}, kept |-> FALSE]

Running == stack # <<>> /\ ~thrown
top == stack[Len(stack)]
Top(f) == [stack EXCEPT ![Len(stack)] = f]
At(pc) == Running /\ top.pc = pc

\* run_target, or if the Portfile does not open, or its target fails before it
\* has come to uninstall, uninstall itself.
CallFrom(frames, e, up, down) ==
    \/ /\ e \in plan.opens
       /\ stack' = Append(frames, Call(e, up, down, "target"))
       /\ UNCHANGED faults
    \/ /\ IF e \in plan.opens THEN faults < MaxFaults /\ faults' = faults + 1
                              ELSE UNCHANGED faults
       /\ stack' = Append(frames, Call(e, up, down, "direct"))

Init ==
    /\ plan \in Plans
    /\ installed = plan.installed /\ active = plan.active
    /\ forced = FALSE /\ stack = <<>> /\ thrown = FALSE /\ result = "none"
    /\ command = [entry |-> 0, up |-> FALSE, down |-> FALSE, force |-> FALSE]
    /\ before = installed /\ commands = 0 /\ faults = 0

\* port uninstall --follow-dependents --follow-dependencies, with -f.
Command(e, up, down, force) ==
    /\ stack = <<>> /\ commands < MaxCommands /\ e \in installed
    /\ command' = [entry |-> e, up |-> up, down |-> down, force |-> force]
    /\ CallFrom(<<>>, e, up, down)
    /\ commands' = commands + 1 /\ before' = installed /\ result' = "none"
    /\ UNCHANGED <<plan, installed, active, forced, thrown>>

Throw ==
    /\ thrown' = TRUE
    /\ UNCHANGED <<plan, installed, active, stack>> /\ UNCHANGED history

Steps(f) == /\ stack' = Top(f)
            /\ UNCHANGED <<plan, installed, active, thrown, faults>> /\ UNCHANGED history

\* The last version of a port, or the active one, is not uninstalled while
\* something depends on it.
Refused(e) ==
    /\ ~forced'
    /\ e \in active \/ Cardinality(Versions(Name[e])) = 1
    /\ Dependents(e) # {}

Start ==
    /\ At("start")
    /\ forced' = (forced \/ command.force)
    /\ LET e == top.entry IN
       IF e \notin installed \/ (~top.up /\ Refused(e))
       THEN Throw /\ UNCHANGED faults
       ELSE Steps(IF top.up THEN [top EXCEPT !.pc = "dependents", !.todo = Dependents(e)]
                            ELSE [top EXCEPT !.pc = "deactivate"])

\* Slip: what a dependent depends on goes with it.
NextDependentDown ==
    /\ At("dependents") /\ top.todo # {} /\ UNCHANGED forced
    /\ LET d == Least(top.todo)
           f == [top EXCEPT !.todo = @ \ {d}] IN
       IF d \in installed
       THEN /\ CallFrom(Top(f), d, TRUE, TRUE)
            /\ UNCHANGED <<plan, installed, active, thrown>> /\ UNCHANGED history
       ELSE Steps(f)

\* A dependent may be gone, with one before it. Its own dependencies stay.
NextDependent ==
    /\ At("dependents") /\ top.todo # {} /\ UNCHANGED forced
    /\ LET d == Least(top.todo)
           f == [top EXCEPT !.todo = @ \ {d}] IN
       IF d \in installed
       THEN /\ CallFrom(Top(f), d, TRUE, FALSE)
            /\ UNCHANGED <<plan, installed, active, thrown>> /\ UNCHANGED history
       ELSE Steps(f)

DependentsDone ==
    /\ At("dependents") /\ top.todo = {} /\ UNCHANGED forced
    /\ Steps([top EXCEPT !.pc = "deactivate"])

\* deactivate has a check of its own, for active dependents and by ports_force.
Deactivate ==
    /\ At("deactivate") /\ UNCHANGED forced
    /\ \/ /\ top.entry \in active => command.force \/ Dependents(top.entry) \cap active = {}
          /\ active' = active \ {top.entry}
          /\ stack' = Top([top EXCEPT !.pc = "note"])
          /\ UNCHANGED <<plan, installed, thrown, faults>> /\ UNCHANGED history
       \/ /\ top.entry \in active /\ ~command.force /\ Dependents(top.entry) \cap active # {}
          /\ Throw /\ UNCHANGED faults
       \/ /\ top.entry \in active /\ faults < MaxFaults /\ faults' = faults + 1
          /\ Throw

\* The dependencies are noted while the entry is still there.
Recorded(e) == {n \in plan.needs[e] : Versions(n) # {}}
NoteDependencies ==
    /\ At("note") /\ UNCHANGED forced
    /\ \E known \in IF top.entry \in plan.opens THEN {plan.builds[top.entry]}
                    ELSE {plan.builds[top.entry], {}} :
         LET noted == IF top.down THEN Recorded(top.entry) \cup known ELSE {} IN
         Steps([top EXCEPT !.pc = "delete", !.all = noted, !.todo = noted])

Delete ==
    /\ At("delete") /\ UNCHANGED forced
    /\ \/ /\ installed' = installed \ {top.entry}
          /\ stack' = Top([top EXCEPT !.pc = "dependencies"])
          /\ UNCHANGED <<plan, active, thrown, faults>> /\ UNCHANGED history
       \/ faults < MaxFaults /\ faults' = faults + 1 /\ Throw

\* A dependency that is not installed is passed over.
NextDependency ==
    /\ At("dependencies") /\ top.todo # {} /\ UNCHANGED forced
    /\ LET n == Least(top.todo) IN
       Steps([top EXCEPT !.todo = @ \ {n}, !.dep = n, !.versions = Versions(n), !.kept = FALSE,
                         !.pc = IF Versions(n) = {} THEN "dependencies" ELSE "versions"])

\* Slip: the dependencies of what is uninstalled stay.
NextVersionAlone ==
    /\ At("versions") /\ top.versions # {} /\ UNCHANGED forced
    /\ LET v == Least(top.versions)
           f == [top EXCEPT !.versions = @ \ {v}] IN
       CASE v \notin installed -> Throw /\ UNCHANGED faults
         [] v \in installed /\ Dependents(v) # {} -> Steps([f EXCEPT !.kept = TRUE])
         [] v \in installed /\ Dependents(v) = {} /\ v \in plan.requested -> Steps(f)
         [] OTHER -> /\ CallFrom(Top(f), v, FALSE, FALSE)
                     /\ UNCHANGED <<plan, installed, active, thrown>> /\ UNCHANGED history

\* Each version that was there, unless something depends on it or it was
\* requested, goes with its own dependencies; not with its dependents.
NextVersion ==
    /\ At("versions") /\ top.versions # {} /\ UNCHANGED forced
    /\ LET v == Least(top.versions)
           f == [top EXCEPT !.versions = @ \ {v}] IN
       CASE v \notin installed -> Throw /\ UNCHANGED faults
         [] v \in installed /\ Dependents(v) # {} -> Steps([f EXCEPT !.kept = TRUE])
         [] v \in installed /\ Dependents(v) = {} /\ v \in plan.requested -> Steps(f)
         [] OTHER -> /\ CallFrom(Top(f), v, FALSE, TRUE)
                     /\ UNCHANGED <<plan, installed, active, thrown>> /\ UNCHANGED history

VersionsDone ==
    /\ At("versions") /\ top.versions = {} /\ UNCHANGED forced
    /\ Steps([top EXCEPT !.pc = "dependencies",
                         !.remaining = IF top.kept THEN @ \cup {top.dep} ELSE @])

\* Another pass over those that remain, as long as they become fewer.
Again ==
    /\ At("dependencies") /\ top.todo = {} /\ UNCHANGED forced
    /\ Cardinality(top.remaining) \notin {0, Cardinality(top.all)}
    /\ Steps([top EXCEPT !.all = top.remaining, !.todo = top.remaining, !.remaining = {}])

\* The innermost call is over; what called it goes on.
Leave(outcome) ==
    LET rest == SubSeq(stack, 1, Len(stack) - 1) IN
    /\ stack' = rest
    /\ result' = IF rest = <<>> THEN outcome ELSE result
    /\ UNCHANGED <<plan, installed, active, forced, command, before, commands, faults>>

Return ==
    /\ At("dependencies") /\ top.todo = {}
    /\ Cardinality(top.remaining) \in {0, Cardinality(top.all)}
    /\ Leave("ok") /\ UNCHANGED thrown

\* run_target catches the error: what matters is whether the entry is gone.
Unwind ==
    /\ thrown
    /\ \/ top.via = "target" /\ top.entry \notin installed
          /\ Leave("ok") /\ thrown' = FALSE
       \/ /\ top.via = "target" /\ top.entry \in installed
          /\ stack' = Top(Call(top.entry, top.up, top.down, "direct"))
          /\ thrown' = FALSE
          /\ UNCHANGED <<plan, installed, active, forced, faults>> /\ UNCHANGED history
       \/ top.via = "direct" /\ Leave("error") /\ thrown' = (Len(stack) > 1)

Run == \/ Start \/ NextDependent \/ DependentsDone \/ Deactivate \/ NoteDependencies \/ Delete
       \/ NextDependency \/ NextVersion \/ VersionsDone \/ Again \/ Return \/ Unwind

Next == \/ \E e \in Entries, up, down, force \in BOOLEAN : Command(e, up, down, force)
        \/ Run

Spec == Init /\ [][Next]_vars /\ WF_vars(Run)

-------------------------------------------------------------------------------
\* As long as nothing was forced, what an installed port depends on keeps an
\* active version, if it had one, at every moment (check_dependents, uninstall).
NeededKept ==
    ~forced => \A d \in installed : \A n \in plan.needs[d] :
                   (\E v \in plan.active : Name[v] = n) => Versions(n) \cap active # {}

\* S and what is reached from it, from each entry to those that to[entry] names.
Reached(S, to) ==
    {d \in before : \A T \in SUBSET before :
        S \cap before \subseteq T /\ (\A e \in T : to[e] \subseteq T) => d \in T}
Above(S) == Reached(S, [e \in before |-> {d \in before : Name[e] \in plan.needs[d]}])
Below(S) == Reached(S, [e \in before |-> {d \in before \ plan.requested :
                            Name[d] \in plan.needs[e] \cup plan.builds[e]}])
Needed(S) == Reached(S, [e \in before |-> {d \in before : Name[d] \in plan.needs[e]}])

\* What is uninstalled is the port, with the one option what depends on it,
\* directly or not, and with the other what it depended on and nobody requested.
OnlyAsked ==
    before \ installed \subseteq
        (IF command.up THEN Above({command.entry}) ELSE {command.entry})
        \cup (IF command.down THEN Below({command.entry}) ELSE {})

\* A command that succeeds has uninstalled the port; and of what that depended on,
\* directly or not, what is left was requested or something depends on it.
Complete ==
    result = "ok" /\ stack = <<>> =>
        /\ command.entry \notin installed
        /\ command.down => \A v \in Needed({command.entry}) \cap installed :
                               v \in plan.requested \/ Dependents(v) # {}

\* One that fails though no step did has not uninstalled it.
RefusedWhole == result = "error" /\ stack = <<>> /\ faults = 0 => command.entry \in installed

CommandsEnd == []<>(stack = <<>>)
===============================================================================
