---------------------------- MODULE MCHoldButton ----------------------------
(***************************************************************************)
(* The menu's button that shuts everything down, in ticks of 300 ms.       *)
(***************************************************************************)
EXTENDS HoldButton

CONSTANTS shutDown
=============================================================================
