---------------------------- MODULE MCLifecycle ----------------------------
(***************************************************************************)
(* Instances of the emulator's lifecycle for TLC.                          *)
(***************************************************************************)
EXTENDS Lifecycle, TLC

CONSTANTS h1, h2

Interchangeable == Permutations(Handler)
=============================================================================
