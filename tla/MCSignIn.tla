------------------------------ MODULE MCSignIn ------------------------------
(***************************************************************************)
(* One page that asks one thing at a time, two players, and a game that is *)
(* played now and then.                                                    *)
(***************************************************************************)
EXTENDS SignIn, TLC

CONSTANTS p1, p2, k1

Interchangeable == Permutations({p1, p2})
=============================================================================
