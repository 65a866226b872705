--------------------------- MODULE MCWorkingCopy ---------------------------
(***************************************************************************)
(* Two requests about one working copy, for TLC.                           *)
(***************************************************************************)
EXTENDS WorkingCopy

CONSTANTS r1, r2
=============================================================================
