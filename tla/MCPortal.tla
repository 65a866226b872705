------------------------------ MODULE MCPortal ------------------------------
(***************************************************************************)
(* Instances of the portal core for TLC.                                   *)
(***************************************************************************)
EXTENDS Portal, TLC

CONSTANTS f1, f2, p1, p2, r1, r2, j1

Interchangeable == Permutations({r1, r2})

\* A Kaos swap is under way, or has left the second figure behind.
Swapping ==
  \/ swap # NoSwap \/ todo["kaos"] # <<>>
  \/ \E s \in Slot : portal[s].fig = f2 \/ emu[s].fig = f2
  \/ \E i \in DOMAIN queue : queue[i].fig = f2

\* A bound: swaps are followed only while the emulator runs, no game is being
\* quit, and no handler or clean-up has a job to send. The part "swaps" of
\* MCParts lets a swap race a request.
SwapsInPeace ==
  Swapping =>
    /\ up /\ quit = "no" /\ rescue = Watching /\ stuck = {}
    /\ \A t \in Request \cup Janitor : todo[t] = <<>>
=============================================================================
