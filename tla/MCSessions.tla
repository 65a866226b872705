----------------------------- MODULE MCSessions -----------------------------
(***************************************************************************)
(* Instances of the session registry for TLC.                              *)
(***************************************************************************)
EXTENDS Sessions, TLC

CONSTANTS c1, c2, c3, c4, p1, p2, s1

Interchangeable == Permutations(Conn) \cup Permutations(Profile)
=============================================================================
