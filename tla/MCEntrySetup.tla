---------------------------- MODULE MCEntrySetup ----------------------------
(***************************************************************************)
(* Small instances of EntrySetup.                                          *)
(***************************************************************************)
EXTENDS EntrySetupProperties

CONSTANTS right, other, nothex, short, c1, c2, k1
=============================================================================
