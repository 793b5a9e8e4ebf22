---------------------------- MODULE MCMiSession ----------------------------
(***************************************************************************)
(* Small instances of MiSession.                                           *)
(***************************************************************************)
EXTENDS MiSessionProperties, TLC

TaskSymmetry == Permutations(Tasks)
=============================================================================
