------------------------------ MODULE MCMiAuth ------------------------------
(***************************************************************************)
(* Small instances of MiAuth.                                              *)
(***************************************************************************)
EXTENDS MiAuthProperties

CONSTANTS right, other, broken
=============================================================================
