--------------------------- MODULE MCRegistryLock ---------------------------
(***************************************************************************)
(* Small instances of RegistryLock: two or three processes, and the words  *)
(* that reach lock_reg_if_needed in the ways that differ.                  *)
(***************************************************************************)
EXTENDS RegistryLock, TLC

MCActions == Changing \cup Executing

\* A full name stands for itself, "inst" for install alone, "bogus" for none.
MCGuess == [w \in Words |->
    CASE w = "inst" -> {"install"}
      [] w = "bogus" -> {}
      [] OTHER -> {w}]
=============================================================================
