---------------------------- MODULE MCConfigFlow ----------------------------
(***************************************************************************)
(* Small instances of ConfigFlow.                                          *)
(***************************************************************************)
EXTENDS ConfigFlowProperties

CONSTANTS mac1, mac2, id1, id2, cn, de
=============================================================================
