------------------------------- MODULE Seats -------------------------------
(***************************************************************************)
(* What the session registry promises: at most MaxSessions players sit at  *)
(* the portal; a player who loses the connection may come back to the same *)
(* seat until it is given up; a seat is taken away from somebody only when *)
(* none is free; and a session that has ended never comes back. Sessions   *)
(* shows how the server does it, with locks taken and released in between. *)
(***************************************************************************)
EXTENDS Naturals, FiniteSets

CONSTANTS Session, MaxSessions

VARIABLE player  \* Session -> where its player is

Sitting == {"live", "away"}
Seated  == {s \in Session : player[s] \in Sitting}
Becomes(S, where) == player' = [s \in Session |-> IF s \in S THEN where ELSE player[s]]

Init == player = [s \in Session |-> "unborn"]

Join(s) ==
  /\ player[s] = "unborn"
  /\ Cardinality(Seated) < MaxSessions
  /\ Becomes({s}, "live")

\* Only when every seat is taken: t's seat goes to s.
TakeSeatOf(s, t) ==
  /\ player[s] = "unborn"
  /\ t \in Seated
  /\ Cardinality(Seated) = MaxSessions
  /\ player' = [player EXCEPT ![s] = "live", ![t] = "gone"]

StepAway(s) == player[s] = "live" /\ Becomes({s}, "away")
ComeBack(s) == player[s] = "away" /\ Becomes({s}, "live")
Leave(s)    == player[s] = "live" /\ Becomes({s}, "gone")

GiveUp(S) ==
  /\ \A s \in S : player[s] = "away"
  /\ Becomes(S, "gone")

Next ==
  \/ \E S \in SUBSET Session : GiveUp(S)
  \/ \E s \in Session : Join(s) \/ StepAway(s) \/ ComeBack(s) \/ Leave(s)
  \/ \E s, t \in Session : TakeSeatOf(s, t)

Spec == Init /\ [][Next]_player
=============================================================================
