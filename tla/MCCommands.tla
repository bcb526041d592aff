------------------------------ MODULE MCCommands -----------------------------
(***************************************************************************)
(* Commands of port(1), one subject to a behaviour. "lock": the registry's *)
(* lock. Three are two processes that build one port: "turns", from no     *)
(* work directory, while the user edits and cleans; "shared", together in  *)
(* a directory whose state file is current; "alone", one after another,    *)
(* with edits and port clean between them, in directories of every age,    *)
(* with and without flock, and variants that are never the empty selection.*)
(* "uninstall": port uninstall with any of its options, in registries with *)
(* chains and diamonds of dependencies. "upgrade": port upgrade of ports   *)
(* that are behind, ahead, inactive or not there. Both with one failing    *)
(* step. What is not the subject does not change: the registry's lock is   *)
(* never asked for, the variables of the others stay 0.                    *)
(***************************************************************************)
EXTENDS MCRegistryLock

CONSTANTS
    Builders,                     \* the processes that build one port
    SharedBuilds, AloneBuilds,    \* what there is to build, and how often what may happen
    PortVersions, PortOf, Registries, PortCommands,   \* what there is to uninstall
    PortNumbers, Upgrades, UpgradeFailing,            \* and to upgrade
    PortFaults                                        \* how often that fails

VARIABLES subject, portfile, dir, tree, path, file, flocked, proc, flocks, bounds,
          plan, installed, active, forced, command, stack, thrown, result, before, commands,
          faults, queue, depscache, status, broken
stateVars == <<portfile, dir, tree, path, file, flocked, proc, flocks, bounds>>
ports == <<plan, installed, active, stack, faults>>
uninstallVars == <<forced, command, thrown, result, before, commands>>
upgradeVars == <<queue, depscache, status, broken>>
allVars == <<subject, vars, stateVars, ports, uninstallVars, upgradeVars>>

Builds(last, selections, starts, edits, cleans, deaths, files) ==
    [last |-> last, selections |-> selections, starts |-> starts, edits |-> edits,
     cleans |-> cleans, deaths |-> deaths, files |-> files]
MCSharedBuilds == Builds(3, {{}, {"universal"}}, 3, 0, 0, 1, 2)
MCAloneBuilds == Builds(2, {{"universal"}, {"universal", "debug"}}, 2, 1, 1, 1, 3)

Turns == INSTANCE TargetState WITH
    holder <- flocked, Procs <- Builders, Last <- 1, Selections <- {{"universal"}},
    Existing <- {"none"}, Supports <- {TRUE}, Concurrent <- TRUE, MidCommand <- TRUE, AutoClean <- TRUE,
    MaxStarts <- 2, MaxEdits <- 1, MaxCleans <- 1, MaxDeaths <- 1, MaxFiles <- 5
Shared == INSTANCE TargetState WITH
    holder <- flocked, Procs <- Builders, Last <- SharedBuilds.last,
    Selections <- SharedBuilds.selections, Existing <- {"current"}, Supports <- {TRUE},
    Concurrent <- TRUE, MidCommand <- FALSE, AutoClean <- FALSE,
    MaxStarts <- SharedBuilds.starts, MaxEdits <- 0, MaxCleans <- 0,
    MaxDeaths <- SharedBuilds.deaths, MaxFiles <- SharedBuilds.files
Alone == INSTANCE TargetState WITH
    holder <- flocked, Procs <- Builders, Last <- AloneBuilds.last,
    Selections <- AloneBuilds.selections,
    Existing <- {"none", "current", "outdated", "unversioned"}, Supports <- BOOLEAN,
    Concurrent <- FALSE, MidCommand <- FALSE, AutoClean <- TRUE,
    MaxStarts <- AloneBuilds.starts, MaxEdits <- AloneBuilds.edits,
    MaxCleans <- AloneBuilds.cleans, MaxDeaths <- AloneBuilds.deaths,
    MaxFiles <- AloneBuilds.files
ASSUME BuildsAssumption ==
    /\ Turns!TargetStateAssumption /\ Shared!TargetStateAssumption /\ Alone!TargetStateAssumption
    /\ {} \notin AloneBuilds.selections

\* Versions 1, 2, 3 and 4, of three ports, all but the last active. 1 depends on
\* 2 and that on 3, or on both, in either order; or it depends on them and only
\* the Portfile of 2 names 3.
NoNames == [e \in 1 .. 4 |-> {}]
MCPortOf == <<1, 2, 3, 3>>
Chain == (2 :> {3}) @@ NoNames
Diamonds ==
    {<<(1 :> a) @@ Chain, b>> : a \in {{2}, {2, 3}}, b \in {NoNames, (1 :> {3}) @@ NoNames}}
    \cup {<<(1 :> {2, 3}) @@ NoNames, Chain>>,
          <<(1 :> {2, 3}) @@ (3 :> {2}) @@ NoNames, NoNames>>}
MCRegistries ==
    {[installed |-> 1 .. 4, active |-> 1 .. 3, needs |-> g[1], builds |-> g[2],
      requested |-> r, opens |-> o] :
        g \in Diamonds, r \in {{}, {2}, {1, 3}}, o \in {{}, 1 .. 4}}
Un == INSTANCE Uninstall WITH
    Entries <- PortVersions, Name <- PortOf, Plans <- Registries,
    MaxCommands <- PortCommands, MaxFaults <- PortFaults
ASSUME RegistriesAssumption == Un!UninstallAssumption

\* Three ports, each depending on the next, with a port that is needed twice, or
\* two on each other. The second may be behind, ahead, up to date, inactive or
\* not installed; it may be replaced by the third, which may not be in the index.
\* .force, .nodeps, .replaced, .override and .indexed; .follow and .asked; .old
\* and .all.
Ways == {<<FALSE, FALSE, <<1, 2, 3>>, {}, 1 .. 3>>, <<TRUE, FALSE, <<1, 2, 3>>, {}, 1 .. 3>>,
         <<FALSE, TRUE, <<1, 2, 3>>, {}, 1 .. 3>>, <<FALSE, FALSE, <<1, 2, 3>>, {2}, 1 .. 3>>,
         <<FALSE, FALSE, <<1, 2, 3>>, {}, {1, 2}>>, <<FALSE, FALSE, <<1, 3, 3>>, {}, 1 .. 3>>}
Asked == {<<FALSE, <<1>>>>, <<TRUE, <<2, 1>>>>}
Olds == {<<FALSE, FALSE>>, <<TRUE, FALSE>>, <<TRUE, TRUE>>}
Seconds == {<<{1, 2}, {1}>>, <<{1}, {1}>>, <<{2}, {2}>>, <<{}, {}>>, <<{1, 2}, {}>>}
Thirds == {<<{1, 2}, {1}>>, <<{}, {}>>, <<{2}, {}>>}
MCUpgrades ==
    {[tree |-> <<2, 2, 2>>, deps |-> g, force |-> w[1], nodeps |-> w[2], replaced |-> w[3],
      override |-> w[4], indexed |-> w[5], present |-> {}, follow |-> q[1], asked |-> q[2],
      old |-> o[1], all |-> o[2],
      installed |-> {<<1, 1>>} \cup ({2} \X j[1]) \cup ({3} \X k[1]),
      active |-> {<<1, 1>>} \cup ({2} \X j[2]) \cup ({3} \X k[2])] :
        g \in {<<{2}, {3}, {}>>, <<{2, 3}, {3}, {}>>, <<{2}, {1}, {}>>},
        w \in Ways, q \in Asked, o \in Olds, j \in Seconds, k \in Thirds}
Up == INSTANCE Upgrade WITH
    Ports <- PortNumbers, Plans <- Upgrades, Failing <- UpgradeFailing, MaxFaults <- PortFaults
ASSUME UpgradesAssumption == Up!UpgradeAssumption

\* The limits of what an upgrade promises (README): what replaces a port is not
\* replaced itself, and with --force nothing is.
ASSUME ReplacementsAssumption ==
    \A p \in Upgrades : \A q \in PortNumbers :
        p.replaced[p.replaced[q]] = p.replaced[q] /\ (p.force => p.replaced[q] = q)

NoState == portfile = 0 /\ dir = 0 /\ tree = 0 /\ path = 0 /\ file = 0 /\ flocked = 0
           /\ proc = 0 /\ flocks = 0 /\ bounds = 0
NoPorts == plan = 0 /\ installed = 0 /\ active = 0 /\ stack = 0 /\ faults = 0
NoUninstall == forced = 0 /\ command = 0 /\ thrown = 0 /\ result = 0 /\ before = 0
               /\ commands = 0
NoUpgrade == queue = 0 /\ depscache = 0 /\ status = 0 /\ broken = 0

CommandsInit ==
    /\ Init
    /\ \/ subject = "lock" /\ NoState /\ NoPorts /\ NoUninstall /\ NoUpgrade
       \/ subject = "turns" /\ Turns!Init /\ NoPorts /\ NoUninstall /\ NoUpgrade
       \/ subject = "shared" /\ Shared!Init /\ NoPorts /\ NoUninstall /\ NoUpgrade
       \/ subject = "alone" /\ Alone!Init /\ NoPorts /\ NoUninstall /\ NoUpgrade
       \/ subject = "uninstall" /\ Un!Init /\ NoState /\ NoUpgrade
       \/ subject = "upgrade" /\ Up!Init /\ NoState /\ NoUninstall

LockSteps(A) ==
    subject = "lock" /\ A
    /\ UNCHANGED <<subject, stateVars, ports, uninstallVars, upgradeVars>>
BuildSteps(kind, A) ==
    subject = kind /\ A /\ UNCHANGED <<subject, vars, ports, uninstallVars, upgradeVars>>
UninstallSteps(A) ==
    subject = "uninstall" /\ A /\ UNCHANGED <<subject, vars, stateVars, upgradeVars>>
UpgradeSteps(A) ==
    subject = "upgrade" /\ A /\ UNCHANGED <<subject, vars, stateVars, uninstallVars>>
CommandsNext ==
    \/ LockSteps(Next)
    \/ BuildSteps("turns", Turns!Next) \/ BuildSteps("shared", Shared!Next)
    \/ BuildSteps("alone", Alone!Next)
    \/ UninstallSteps(Un!Next) \/ UpgradeSteps(Up!Next)

\* The fairness of TargetState, of Uninstall and of Upgrade.
CommandsSpec ==
    /\ CommandsInit /\ [][CommandsNext]_allVars
    /\ \A p \in Builders :
        /\ WF_allVars(BuildSteps("turns", Turns!OpenStatefile(p)))
        /\ WF_allVars(BuildSteps("turns", Turns!RunTarget(p)))
        /\ SF_allVars(BuildSteps("turns", Turns!Lock(p)))
    /\ WF_allVars(UninstallSteps(Un!Run))
    /\ WF_allVars(UpgradeSteps(Up!Next))

-----------------------------------------------------------------------------
\* Processes that build at the same time run one target at a time, on what was
\* completed; builds one after another never mix Portfiles or selections of
\* variants; and what is recorded as done was built (open_statefile,
\* check_variants, target_run).
BuildsAreSafe ==
    /\ subject = "shared" =>
        Shared!TypeOK /\ Shared!Exclusive /\ Shared!RunsOnCompleted /\ Shared!DoneMeansBuilt
    /\ subject = "alone" => Alone!NoMixing /\ Alone!DoneMeansBuilt

\* While nothing is forced, what an installed port depends on keeps an active
\* version, and only what was asked for goes (uninstall, check_dependents). A port
\* that was active stays active after an upgrade, in some version, unless it could
\* not be activated; and only old versions go, and what could not be built again
\* (_upgrade).
PortsAreSafe ==
    /\ subject = "uninstall" => Un!NeededKept /\ Un!OnlyAsked
    /\ subject = "upgrade" => Up!ActiveKept /\ Up!OnlyOldGone

\* An uninstall that succeeds leaves nothing behind that only its port needed, and
\* one that is refused has not uninstalled it; an upgrade that succeeds has brought
\* what it did up to date, and what a port depends on is done first (uninstall,
\* _upgrade_dependencies).
CommandsComplete ==
    /\ subject = "uninstall" => Un!Complete /\ Un!RefusedWhole
    /\ subject = "upgrade" => Up!Complete /\ Up!DependenciesFirst

\* "uninstall non-active ports when upgrading" (port.1, -u).
InactiveUninstalled == subject = "upgrade" => Up!InactiveUninstalled

\* A build that has started ends, though it waits for others (open_statefile),
\* and uninstall and upgrade end, whatever graph they follow.
CommandsEnd ==
    /\ \A p \in Builders : []<>(subject = "turns" => Turns!At(p, "idle"))
    /\ []<>(subject = "uninstall" => stack = <<>>)
    /\ []<>(subject = "upgrade" => Up!Ended)
=============================================================================
