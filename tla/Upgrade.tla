-------------------------------- MODULE Upgrade --------------------------------
(***************************************************************************)
(* Upgrading ports with what they depend on and what depends on them:      *)
(* upgrade, _upgrade and _upgrade_dependencies of                          *)
(* src/macports1.0/macports.tcl, called by action_upgrade of               *)
(* src/port/port.tcl. The Tcl call stack is explicit. What an upgrade does *)
(* with mportexec, uninstall and deactivate is one step each, which may    *)
(* fail where their models say. Versions are numbers, by order; a port has *)
(* one set of variants. An entry is <<port, version>>.                     *)
(***************************************************************************)
EXTENDS Naturals, Sequences, FiniteSets

CONSTANTS
    Ports,       \* as numbers: the order of dependencies
    Plans,       \* Portfiles, registry and options
    Failing,     \* what may fail
    MaxFaults    \* how often

\* .tree are the versions of the Portfiles, .deps what they depend on,
\* .replaced what they name as replacement, .override those that are to be built
\* over an installed version: a higher epoch, another platform; .indexed are in
\* the index, .present satisfied by something that is not a port. Options: --force,
\* -n, follow dependents, -u, -p.
IsPlan(p) ==
    /\ p.tree \in [Ports -> Nat \ {0}] /\ p.deps \in [Ports -> SUBSET Ports]
    /\ p.replaced \in [Ports -> Ports]
    /\ {p.override, p.indexed, p.present} \subseteq SUBSET Ports
    /\ {p.force, p.nodeps, p.follow, p.old, p.all} \subseteq BOOLEAN
    /\ p.installed \subseteq Ports \X (Nat \ {0}) /\ p.active \subseteq p.installed
    /\ \A d, e \in p.active : d[1] = e[1] => d = e
UpgradeAssumption ==
    Ports \subseteq Nat /\ MaxFaults \in Nat /\ \A p \in Plans : IsPlan(p)

VARIABLES
    plan,
    installed,   \* the entries in the registry
    active,      \* those that are active
    queue,       \* ports of the command still to do
    depscache,   \* ports done, or begun
    stack,       \* the calls of _upgrade, the innermost last
    status,      \* what the last one returned
    broken,      \* history: ports that could not be activated
    faults

vars == <<plan, installed, active, queue, depscache, stack, status, broken, faults>>

Least(S) == CHOOSE x \in S : \A y \in S : x <= y
Greatest(S) == CHOOSE x \in S : \A y \in S : x >= y
VersionsIn(entries, p) == {e[2] : e \in {d \in entries : d[1] = p}}
Versions(p) == VersionsIn(installed, p)
IsActive(p) == VersionsIn(active, p) # {}
Of(p) == <<p, plan.tree[p]>>

\* registry::entry dependents: by name.
Dependents(p) == {d \in Ports : Versions(d) # {} /\ p \in plan.deps[d]}

Call(p, nodeps, follow) ==
    [port |-> p, new |-> p, pc |-> "look", nodeps |-> nodeps, follow |-> follow, fresh |-> FALSE,
     ilist |-> {}, was |-> 0, install |-> FALSE, build |-> FALSE, clear |-> FALSE, todo |-> {}]

top == stack[Len(stack)]
Top(f) == [stack EXCEPT ![Len(stack)] = f]
At(pc) == stack # <<>> /\ top.pc = pc

Init ==
    /\ plan \in Plans
    /\ installed = plan.installed /\ active = plan.active /\ queue = plan.asked
    /\ depscache = {} /\ stack = <<>> /\ status = 0 /\ broken = {} /\ faults = 0

Bad(code) == code \notin {0, 2} /\ ~plan.all

\* The innermost call returns; port(1) gives up unless the port was not there.
Return(code) ==
    /\ stack' = SubSeq(stack, 1, Len(stack) - 1) /\ status' = code
    /\ queue' = IF Len(stack) = 1 /\ Bad(code) THEN <<>> ELSE queue

Fails(what) == what \in Failing /\ faults < MaxFaults /\ faults' = faults + 1

\* The call goes on.
Go(f) == stack' = Top(f) /\ UNCHANGED <<status, queue>>
Same == UNCHANGED <<plan, installed, active>>

\* action_upgrade, upgrade: a port that is not installed is passed over.
Ask ==
    /\ stack = <<>> /\ queue # <<>>
    /\ LET p == Head(queue) IN
       /\ stack' = IF p \in depscache \/ Versions(p) = {} THEN stack
                   ELSE <<Call(p, plan.nodeps, plan.follow)>>
       /\ status' = IF p \notin depscache /\ Versions(p) = {} THEN 3 ELSE status
    /\ queue' = Tail(queue)
    /\ UNCHANGED <<depscache, broken, faults>> /\ Same

LookFails ==
    /\ At("look")
    /\ \/ /\ top.port \notin plan.indexed
          /\ Return(2) /\ UNCHANGED <<depscache, faults>>
       \/ /\ top.port \in plan.indexed /\ Fails("open") /\ Return(1)
          /\ \/ UNCHANGED depscache
             \/ /\ Versions(top.port) # {}
                /\ depscache' = depscache \cup {top.port, plan.replaced[top.port]}
    /\ UNCHANGED broken /\ Same

\* A dependency that no port provides, or that is to be installed.
LookFresh ==
    /\ At("look") /\ top.port \in plan.indexed /\ Versions(top.port) = {}
    /\ IF top.port \in plan.present
       THEN Return(0) /\ depscache' = depscache \cup {top.port}
       ELSE /\ stack' = Top([top EXCEPT !.fresh = TRUE, !.pc = "deps",
                                        !.todo = plan.deps[top.port]])
            /\ status' = 0 /\ UNCHANGED <<queue, depscache>>
    /\ UNCHANGED <<broken, faults>> /\ Same

\* A port that is installed is done from here on. What will be installed and
\* built is decided before the dependencies are upgraded.
LookInstalled ==
    /\ At("look") /\ top.port \in plan.indexed /\ Versions(top.port) # {}
    /\ LET p == top.port
           new == plan.replaced[p]
           current == Greatest(Versions(p)) >= plan.tree[new] /\ ~plan.force
           override == current /\ new = p /\ p \in plan.override
           install == ~current \/ new # p \/ override
           already == Of(new) \in installed IN
       IF new \notin plan.indexed
       THEN Return(1) /\ depscache' = depscache \cup {p}
       ELSE /\ depscache' = depscache \cup {p, new}
            /\ stack' = Top([top EXCEPT
                   !.new = new, !.ilist = Versions(p), !.install = install,
                   !.was = IF IsActive(p) THEN Greatest(VersionsIn(active, p)) ELSE 0,
                   !.build = install /\ (plan.force \/ override \/ ~already),
                   !.clear = already /\ (plan.force \/ override),
                   !.pc = "deps", !.todo = IF top.nodeps THEN {} ELSE plan.deps[new]])
            /\ status' = 0 /\ UNCHANGED queue
    /\ UNCHANGED <<broken, faults>> /\ Same

\* One dependency that is not done, without its dependents; or one dependent,
\* without its dependencies.
Follow ==
    /\ stack # <<>> /\ top.pc \in {"deps", "dependents"} /\ top.todo # {} /\ ~Bad(status)
    /\ LET d == Least(top.todo)
           rest == Top([top EXCEPT !.todo = @ \ {d}])
           up == top.pc = "dependents" IN
       stack' = IF d \in depscache THEN rest ELSE Append(rest, Call(d, up, up))
    /\ UNCHANGED <<status, queue, depscache, broken, faults>> /\ Same

GiveUp ==
    /\ stack # <<>> /\ top.pc \in {"deps", "dependents"} /\ Bad(status)
    /\ Return(status)
    /\ UNCHANGED <<depscache, broken, faults>> /\ Same

\* The dependents are those of before the old versions go.
ThenDependents(f) ==
    /\ stack' = Top([f EXCEPT !.pc = "dependents",
           !.todo = IF f.follow THEN Dependents(f.port) \cup Dependents(f.new) ELSE {}])
    /\ status' = 0 /\ UNCHANGED queue

DependenciesDone ==
    /\ At("deps") /\ top.todo = {} /\ ~Bad(status)
    /\ CASE top.fresh -> Go([top EXCEPT !.pc = "activate"])
         [] ~top.fresh /\ ~top.install -> ThenDependents(top)
         [] ~top.fresh /\ top.install ->
                Go([top EXCEPT !.pc = IF top.build THEN "install" ELSE "clear"])
    /\ UNCHANGED <<depscache, broken, faults>> /\ Same

-------------------------------------------------------------------------------
(* mportexec: dependencies that are still missing are installed first.         *)

\* Those of a port that are not active, and those of them in turn.
Lacking(p) == {q \in plan.deps[p] : ~IsActive(q) /\ q \notin plan.present}
Missing(p) ==
    {q \in Ports : \A T \in SUBSET Ports :
        Lacking(p) \subseteq T /\ (\A d \in T : Lacking(d) \subseteq T) => q \in T} \ {p}

\* What is activated takes the place of another version.
Activated(S) == {e \in active : e[1] \notin S} \cup {Of(q) : q \in S}
Installed(S) == installed \cup {Of(q) : q \in S}

\* Some of the missing dependencies are there, and what they depend on.
Partly(p) == {D \in SUBSET Missing(p) : \A q \in D : Missing(q) \subseteq D}

\* A dependency that is not in the index is an error (mportdepends).
Buildable(p) == Missing(p) \subseteq plan.indexed

\* install is passed over for what is installed, also when it is to be built
\* anew (eval_targets).
Install ==
    /\ At("install")
    /\ \/ /\ Buildable(top.new)
          /\ installed' = Installed(Missing(top.new) \cup {top.new})
          /\ active' = Activated(Missing(top.new))
          /\ Go([top EXCEPT !.pc = "clear"]) /\ UNCHANGED faults
       \/ /\ Buildable(top.new) /\ Fails("install") /\ Return(1)
          /\ \E D \in Partly(top.new) : installed' = Installed(D) /\ active' = Activated(D)
       \/ ~Buildable(top.new) /\ Return(1) /\ UNCHANGED <<installed, active, faults>>
    /\ UNCHANGED <<plan, depscache, broken>>

\* The version that is there already is uninstalled, whatever depends on it.
Clear ==
    /\ At("clear")
    /\ \/ /\ IF top.clear
             THEN installed' = installed \ {Of(top.new)} /\ active' = active \ {Of(top.new)}
             ELSE UNCHANGED <<installed, active>>
          /\ Go([top EXCEPT !.pc = "deactivate",
                     !.was = IF top.clear /\ <<top.port, @>> = Of(top.new) THEN 0 ELSE @])
          /\ UNCHANGED faults
       \/ top.clear /\ Fails("uninstall") /\ Return(1) /\ UNCHANGED <<installed, active>>
    /\ UNCHANGED <<plan, depscache, broken>>

\* A port that is replaced is deactivated.
Deactivate ==
    /\ At("deactivate")
    /\ LET goes == top.was # 0 /\ top.new # top.port IN
       \/ /\ active' = IF goes THEN {e \in active : e # <<top.port, top.was>>} ELSE active
          /\ Go([top EXCEPT !.pc = "activate"]) /\ UNCHANGED faults
       \/ goes /\ Fails("deactivate") /\ Return(1) /\ UNCHANGED active
    /\ UNCHANGED <<plan, installed, depscache, broken>>

Activate ==
    /\ At("activate") /\ Buildable(top.new)
    /\ installed' = Installed(Missing(top.new) \cup {top.new})
    /\ active' = Activated(Missing(top.new) \cup {top.new})
    /\ IF top.fresh THEN Return(0) /\ depscache' = depscache \cup {top.new}
       ELSE ThenDependents(top) /\ UNCHANGED depscache
    /\ UNCHANGED <<plan, broken, faults>>

\* Building a port fails, or activating it, before or after another version has
\* been deactivated.
Breaks(p) ==
    \/ ~Buildable(p) /\ UNCHANGED <<installed, active, faults>>
    \/ /\ Buildable(p) /\ Fails("activate")
       /\ \/ \E D \in Partly(p) : installed' = Installed(D) /\ active' = Activated(D)
          \/ /\ Of(p) \notin active
             /\ installed' = Installed(Missing(p) \cup {p})
             /\ \E gone \in {{}, {p}} :
                  active' = {e \in Activated(Missing(p)) : e[1] \notin gone}

\* A result is passed over, an error that is thrown, before anything is done, not.
ActivateFails ==
    /\ At("activate") /\ broken' = broken \cup {top.new}
    /\ \/ Breaks(top.new) /\ IF top.fresh THEN Return(1) ELSE ThenDependents(top)
       \/ Fails("conflict") /\ Return(1) /\ UNCHANGED <<installed, active>>
    /\ UNCHANGED <<plan, depscache>>

\* Slip: the version of the tree is one of the old ones.
OldVersionsAll(f) == f.ilist
OldVersions(f) == f.ilist \ {plan.tree[f.new]}

DependentsDone ==
    /\ At("dependents") /\ top.todo = {} /\ ~Bad(status)
    /\ IF top.install /\ plan.old /\ top.new = top.port
       THEN Go([top EXCEPT !.pc = "old", !.todo = OldVersions(top)])
       ELSE Return(0)
    /\ UNCHANGED <<depscache, broken, faults>> /\ Same

\* The last version, or the active one, stays while something depends on it.
Refused(p, v) == (<<p, v>> \in active \/ Versions(p) = {v}) /\ Dependents(p) # {}

UninstallOld ==
    /\ At("old")
    /\ IF top.todo = {}
       THEN Return(0) /\ UNCHANGED <<installed, active, faults>>
       ELSE LET v == Least(top.todo)
                f == [top EXCEPT !.todo = @ \ {v}] IN
            \/ /\ IF Refused(top.port, v) THEN UNCHANGED <<installed, active>>
                  ELSE /\ installed' = installed \ {<<top.port, v>>}
                       /\ active' = active \ {<<top.port, v>>}
               /\ Go(f) /\ UNCHANGED faults
            \/ /\ Fails("uninstall") /\ UNCHANGED <<installed, active>>
               /\ IF plan.all THEN Go(f) ELSE Return(1)
    /\ UNCHANGED <<plan, depscache, broken>>

Next == \/ Ask \/ LookFails \/ LookFresh \/ LookInstalled \/ Follow \/ GiveUp
        \/ DependenciesDone \/ Install \/ Clear \/ Deactivate \/ Activate \/ ActivateFails
        \/ DependentsDone \/ UninstallOld

Spec == Init /\ [][Next]_vars /\ WF_vars(Next)

-------------------------------------------------------------------------------
Ended == stack = <<>> /\ queue = <<>>

\* A port that was active still is, in some version, or what replaces it is,
\* unless that could not be activated (_upgrade).
ActiveKept ==
    Ended => \A e \in plan.active :
        LET names == {e[1], plan.replaced[e[1]]} IN
        names \cap broken # {} \/ \E n \in names : IsActive(n)

\* Only what was done has gone: old versions, with -u, and versions that could
\* not be built again.
OnlyOldGone ==
    \A e \in plan.installed \ installed :
        /\ e[1] \in depscache
        /\ \/ plan.old /\ e # Of(e[1])
           \/ plan.force \/ e[1] \in plan.override

\* Where an upgrade was due the version of the tree has become the active one.
IsDone(p) ==
    LET before == VersionsIn(plan.installed, p) IN
    before # {} /\ (plan.replaced[p] # p \/ Greatest(before) < plan.tree[p] \/ plan.force)
        => Of(plan.replaced[p]) \in active
Clean ==
    faults = 0 /\ \A p \in plan.indexed : {plan.replaced[p]} \cup plan.deps[p] \subseteq plan.indexed
Complete ==
    Ended /\ status = 0 /\ Clean => \A p \in depscache \cap plan.indexed : IsDone(p)

\* What a port depends on is done before the port is built or activated, unless
\* it is what the port is upgraded for.
DependenciesFirst ==
    stack # <<>> /\ top.pc \in {"install", "activate"} /\ ~top.nodeps /\ Clean =>
        \A d \in plan.deps[top.new] \cap plan.indexed :
            /\ d \in depscache
            /\ (\A i \in DOMAIN stack : d \notin {stack[i].port, stack[i].new}) => IsDone(d)

\* With -u only versions that are not active are uninstalled.
InactiveUninstalled ==
    At("old") => \A v \in top.todo : <<top.port, v>> \in active => Refused(top.port, v)
===============================================================================
