----------------------------- MODULE MCPortImage -----------------------------
(***************************************************************************)
(* Instances of PortImage: two versions a1 and a2 of a port A, and a port  *)
(* B whose only version b1 has a file of each of them.  A behaviour is of  *)
(* one scenario.  "recover": commands with and without -f, one death and   *)
(* no other failure, backups in different seconds, the user making files   *)
(* between commands.  "given": as the constants say.                       *)
(***************************************************************************)
EXTENDS PortImage, TLC

CONSTANTS a1, a2, b1, A, B, f, g, Scenarios

VARIABLE scenario

MCEntries == {a1, a2, b1}
MCNames == {A, B}
MCFiles == {f, g}
MCPort == (a1 :> A) @@ (a2 :> A) @@ (b1 :> B)
MCContents == (a1 :> {f, g}) @@ (a2 :> {g}) @@ (b1 :> {f})

\* replaced_by in the index: B by A, no port, or each of the two by the other.
BReplacedByA == {<<B, A>>}
NoneReplaced == {}
BothReplaced == {<<B, A>>, <<A, B>>}

Recover == INSTANCE PortImage WITH
    ReplacedBy <- NoneReplaced, Forcing <- BOOLEAN, UserMidCommand <- FALSE,
    MaxStamp <- 2, MaxUser <- 1, MaxFails <- 0

CasesInit == /\ scenario \in Scenarios
             /\ \/ scenario = "given" /\ Init
                \/ scenario = "recover" /\ Recover!Init
CasesNext == /\ UNCHANGED scenario
             /\ \/ scenario = "given" /\ Next
                \/ scenario = "recover" /\ Recover!Next
CasesVars == <<vars, scenario>>
CasesSpec ==
    /\ CasesInit /\ [][CasesNext]_CasesVars
    /\ WF_CasesVars(UNCHANGED scenario /\ IF scenario = "given" THEN Step ELSE Recover!Step)

-----------------------------------------------------------------------------
\* After a death, what is on disk is what the registry has, or the user's, kept
\* or backed up, and a forced activation succeeds (_activate_contents).
DeathIsRecovered ==
    scenario = "recover" =>
        Recover!DiskAgrees /\ Recover!UserFilesKept /\ Recover!ForcedActivationRecovers
=============================================================================
