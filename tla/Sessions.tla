------------------------------ MODULE Sessions ------------------------------
(***************************************************************************)
(* The session registry and the WebSocket tasks that use it: two seats,    *)
(* forced eviction of the oldest with a cooldown, ghosts that keep a       *)
(* departed player's seat and figures, their reclaim and their expiry.     *)
(*                                                                         *)
(* A WebSocket task (handle_ws) takes the registry's lock several times:   *)
(* it claims a ghost or registers, stamps the cooldown, announces the      *)
(* eviction, shakes hands, serves, and on the way out first reads the      *)
(* session's profile and then ghosts or removes the session. Anything can  *)
(* happen in between. A connection is used once; its name also names the   *)
(* session it mints. The portal is reduced to who owns what is on it (the  *)
(* Portal module has the rest).                                            *)
(***************************************************************************)
EXTENDS Naturals, Sequences, FiniteSets

CONSTANTS
  Conn,        \* WebSocket connections, each served once
  Profile,     \* player profiles
  Slot,        \* portal slots
  MaxSessions, \* MAX_SESSIONS
  NoProfile, NoSession

ASSUME SessionsAssumption ==
  /\ MaxSessions \in Nat \ {0}
  /\ NoProfile \notin Profile
  /\ NoSession \notin Conn

Owner == Profile \cup {NoProfile}

\* A registry entry. "stale" is a ghost older than GHOST_TIMEOUT.
Seat == [sid : Conn, profile : Owner, mode : {"live", "ghost", "stale"}]
NewSeat(c) == [sid |-> c, profile |-> NoProfile, mode |-> "live"]

(***************************************************************************)
(* A WebSocket task: where handle_ws stands, the session it serves and,    *)
(* when it has evicted a ghost, the profile to clean up.                   *)
(***************************************************************************)
Stages == {"new", "register", "stamp", "announce", "handshake", "serving",
           "closing", "ghosting", "removing", "done"}
Ws == [pc : Stages, sid : Conn \cup {NoSession}, ghost : Owner]

NewWs == [pc |-> "new", sid |-> NoSession, ghost |-> NoProfile]

\* A portal slot: who owns what is on it or on its way there.
Place == [kind : {"Empty", "Loading", "Loaded", "Clearing"}, by : Owner]
Vacant == [kind |-> "Empty", by |-> NoProfile]
Leaving == [kind |-> "Clearing", by |-> NoProfile]

VARIABLES
  seats,     \* the registry, in order of created_at
  cooling,   \* last_forced_evict_at is less than the cooldown ago
  ws,        \* the WebSocket tasks
  sweep,     \* profiles of expired ghosts the sweep has yet to clean up
  portal,    \* Slot -> Place
  walkedOff  \* history: profiles that left figures behind without a ghost

vars == <<seats, cooling, ws, sweep, portal, walkedOff>>

TypeOK ==
  /\ seats \in Seq(Seat) /\ Len(seats) <= MaxSessions
  /\ cooling \in BOOLEAN
  /\ ws \in [Conn -> Ws]
  /\ sweep \subseteq Profile
  /\ portal \in [Slot -> Place]
  /\ walkedOff \subseteq Profile

Init ==
  /\ seats = <<>>
  /\ cooling = FALSE
  /\ ws = [c \in Conn |-> NewWs]
  /\ sweep = {}
  /\ portal = [s \in Slot |-> Vacant]
  /\ walkedOff = {}

Ids(S)       == {S[i].sid : i \in DOMAIN S}
Seated(p)    == \E i \in DOMAIN seats : seats[i].profile = p
At(sid)      == CHOOSE i \in DOMAIN seats : seats[i].sid = sid
ProfileOf(sid) == IF sid \in Ids(seats) THEN seats[At(sid)].profile ELSE NoProfile

\* What is left of the registry when only the entries at K stay, in their order.
InOrder(K) ==
  {q \in [1 .. Cardinality(K) -> K] :
     /\ \A i, k \in DOMAIN q : i < k => q[i] < q[k]
     /\ \A k \in K : \E i \in DOMAIN q : q[i] = k}
Kept(K) == {[i \in DOMAIN q |-> seats[q[i]]] : q \in InOrder(K)}

Goto(c, pc)  == ws' = [ws EXCEPT ![c].pc = pc]
Tasks(S)     == {c \in Conn : ws[c].pc \in S}

\* A cleanup of p's slots is still to come.
CleanupDue(p) ==
  \/ p \in sweep
  \/ \E c \in Tasks({"stamp", "announce"}) : ws[c].ghost = p
-----------------------------------------------------------------------------
(***************************************************************************)
(* A connection arrives.                                                   *)
(***************************************************************************)
\* Mutant of Claimable: a live session can be claimed as well.
SeatsOf(p) == {i \in DOMAIN seats : seats[i].profile = p}

Claimable(p) ==
  {i \in DOMAIN seats : seats[i].mode # "live" /\ seats[i].profile = p}

\* claim_ghost: the profile's oldest ghost is live again under its old id.
ClaimGhost(c, p) ==
  /\ ws[c].pc = "new"
  /\ \E i \in Claimable(p) :
       /\ seats[i].mode = "stale" \/ \A k \in Claimable(p) : seats[k].mode # "stale"
       /\ seats' = [seats EXCEPT ![i].mode = "live"]
       /\ ws' = [ws EXCEPT ![c].pc = "handshake", ![c].sid = seats[i].sid]
  /\ UNCHANGED <<cooling, sweep, portal, walkedOff>>

\* No hint, or no ghost of the hinted profile: on to register().
NothingToClaim(c, hint) ==
  /\ ws[c].pc = "new"
  /\ hint # NoProfile => Claimable(hint) = {}
  /\ Goto(c, "register")
  /\ UNCHANGED <<seats, cooling, sweep, portal, walkedOff>>

\* Mutant of Admit: one seat too many.
AdmitOneMore(c) ==
  /\ ws[c].pc = "register"
  /\ Len(seats) <= MaxSessions
  /\ seats' = Append(seats, NewSeat(c))
  /\ ws' = [ws EXCEPT ![c].pc = "handshake", ![c].sid = c]
  /\ UNCHANGED <<cooling, sweep, portal, walkedOff>>

Admit(c) ==
  /\ ws[c].pc = "register"
  /\ Len(seats) < MaxSessions
  /\ seats' = Append(seats, NewSeat(c))
  /\ ws' = [ws EXCEPT ![c].pc = "handshake", ![c].sid = c]
  /\ UNCHANGED <<cooling, sweep, portal, walkedOff>>

\* Both seats are taken and the last eviction was long enough ago. The lock on
\* the sessions is released before the cooldown is stamped.
AdmitByEvicting(c) ==
  /\ ws[c].pc = "register"
  /\ Len(seats) >= MaxSessions
  /\ ~cooling
  /\ LET out == Head(seats)
     IN  /\ seats' = Append(Tail(seats), NewSeat(c))
         /\ ws' = [ws EXCEPT ![c] =
                     [pc |-> "stamp", sid |-> c,
                      ghost |-> IF out.mode = "live" THEN NoProfile ELSE out.profile]]
         /\ walkedOff' = IF out.mode = "live" THEN walkedOff \cup ({out.profile} \ {NoProfile})
                         ELSE walkedOff
  /\ UNCHANGED <<cooling, sweep, portal>>

RejectByCooldown(c) ==
  /\ ws[c].pc = "register"
  /\ Len(seats) >= MaxSessions
  /\ cooling
  /\ Goto(c, "done")
  /\ UNCHANGED <<seats, cooling, sweep, portal, walkedOff>>

StampCooldown(c) ==
  /\ ws[c].pc = "stamp"
  /\ cooling' = TRUE
  /\ Goto(c, "announce")
  /\ UNCHANGED <<seats, sweep, portal, walkedOff>>

\* clear_slots_for_profile: the Loaded slots of p are on their way out.
Cleared(p) ==
  [s \in Slot |-> IF portal[s] = [kind |-> "Loaded", by |-> p] THEN Leaving ELSE portal[s]]

\* Mutant of AnnounceEviction: an evicted ghost's figures are forgotten.
AnnounceOnly(c) ==
  /\ ws[c].pc = "announce"
  /\ ws' = [ws EXCEPT ![c].pc = "handshake", ![c].ghost = NoProfile]
  /\ UNCHANGED <<seats, cooling, sweep, portal, walkedOff>>

\* An evicted ghost's figures are cleared; an evicted phone is sent TakenOver.
AnnounceEviction(c) ==
  /\ ws[c].pc = "announce"
  /\ portal' = IF ws[c].ghost = NoProfile THEN portal ELSE Cleared(ws[c].ghost)
  /\ ws' = [ws EXCEPT ![c].pc = "handshake", ![c].ghost = NoProfile]
  /\ UNCHANGED <<seats, cooling, sweep, walkedOff>>

\* Welcome, snapshot, profile and replay are sent; then the task subscribes.
Subscribe(c) ==
  /\ ws[c].pc = "handshake"
  /\ Goto(c, "serving")
  /\ UNCHANGED <<seats, cooling, sweep, portal, walkedOff>>
-----------------------------------------------------------------------------
(***************************************************************************)
(* A connection ends: the socket closes, the profile is read, and only     *)
(* then is the session ghosted or removed.                                 *)
(***************************************************************************)
Disconnect(c) ==
  /\ ws[c].pc = "serving"
  /\ Goto(c, "closing")
  /\ UNCHANGED <<seats, cooling, sweep, portal, walkedOff>>

ReadDeparting(c) ==
  /\ ws[c].pc = "closing"
  /\ Goto(c, IF ProfileOf(ws[c].sid) = NoProfile THEN "removing" ELSE "ghosting")
  /\ UNCHANGED <<seats, cooling, sweep, portal, walkedOff>>

\* Mutant of GhostSession: the session is put back when it is gone already.
GhostAnyway(c) ==
  /\ ws[c].pc = "ghosting"
  /\ seats' = IF ws[c].sid \in Ids(seats)
              THEN [seats EXCEPT ![At(ws[c].sid)].mode = "ghost"]
              ELSE Append(seats, [NewSeat(ws[c].sid) EXCEPT !.mode = "ghost"])
  /\ Goto(c, "done")
  /\ UNCHANGED <<cooling, sweep, portal, walkedOff>>

GhostSession(c) ==
  /\ ws[c].pc = "ghosting"
  /\ seats' = IF ws[c].sid \in Ids(seats)
              THEN [seats EXCEPT ![At(ws[c].sid)].mode = "ghost"] ELSE seats
  /\ Goto(c, "done")
  /\ UNCHANGED <<cooling, sweep, portal, walkedOff>>

RemoveSession(c) ==
  /\ ws[c].pc = "removing"
  /\ seats' \in Kept({i \in DOMAIN seats : seats[i].sid # ws[c].sid})
  /\ walkedOff' = walkedOff \cup ({ProfileOf(ws[c].sid)} \ {NoProfile})
  /\ Goto(c, "done")
  /\ UNCHANGED <<cooling, sweep, portal>>
-----------------------------------------------------------------------------
(***************************************************************************)
(* The phone's requests name the session of the Welcome it was sent; a     *)
(* request may be served after its socket, or its session, is gone.        *)
(***************************************************************************)
Welcomed == Tasks({"serving", "closing", "ghosting", "removing", "done"})

\* unlock_profile (p a profile) and lock_profile (NoProfile).
SetProfile(c, p) ==
  /\ c \in Welcomed
  /\ ws[c].sid \in Ids(seats)
  /\ seats' = [seats EXCEPT ![At(ws[c].sid)].profile = p]
  /\ walkedOff' = (walkedOff \cup ({ProfileOf(ws[c].sid)} \ {NoProfile})) \ {p}
  /\ UNCHANGED <<cooling, ws, sweep, portal>>

LoadFigure(c, s) ==
  /\ c \in Welcomed
  /\ portal[s].kind \in {"Empty", "Loaded"}
  /\ portal' = [portal EXCEPT ![s] = [kind |-> "Loading", by |-> ProfileOf(ws[c].sid)]]
  /\ UNCHANGED <<seats, cooling, ws, sweep, walkedOff>>

ClearFigure(c, s) ==
  /\ c \in Welcomed
  /\ portal[s].kind \in {"Empty", "Loaded"}
  /\ portal' = [portal EXCEPT ![s] = Leaving]
  /\ UNCHANGED <<seats, cooling, ws, sweep, walkedOff>>

\* The driver job ends. A figure that lands after its owner has been cleaned up
\* stays ("doesn't retro-clear").
Settle(s) ==
  /\ portal[s].kind \in {"Loading", "Clearing"}
  /\ LET p == portal[s].by
     IN  \/ /\ portal[s].kind = "Loading"
            /\ portal' = [portal EXCEPT ![s].kind = "Loaded"]
            /\ walkedOff' = IF Seated(p) \/ CleanupDue(p) THEN walkedOff
                            ELSE walkedOff \cup ({p} \ {NoProfile})
         \/ /\ portal' = [portal EXCEPT ![s] = Vacant]
            /\ UNCHANGED walkedOff
  /\ UNCHANGED <<seats, cooling, ws, sweep>>
-----------------------------------------------------------------------------
(***************************************************************************)
(* Time and the sweep.                                                     *)
(***************************************************************************)
CooldownElapses ==
  /\ cooling
  /\ cooling' = FALSE
  /\ UNCHANGED <<seats, ws, sweep, portal, walkedOff>>

GhostAges(i) ==
  /\ seats[i].mode = "ghost"
  /\ seats' = [seats EXCEPT ![i].mode = "stale"]
  /\ UNCHANGED <<cooling, ws, sweep, portal, walkedOff>>

\* Mutant of ExpireGhosts: the figures are cleared, the seats stay taken.
ExpireFiguresOnly ==
  /\ sweep = {}
  /\ \E i \in DOMAIN seats : seats[i].mode = "stale"
  /\ sweep' = {seats[i].profile : i \in {k \in DOMAIN seats : seats[k].mode = "stale"}}
                \ {NoProfile}
  /\ UNCHANGED <<seats, cooling, ws, portal, walkedOff>>

\* expire_ghosts_older_than: all stale ghosts leave the registry at once, then
\* their profiles are cleaned up one after the other.
ExpireGhosts ==
  /\ sweep = {}
  /\ \E i \in DOMAIN seats : seats[i].mode = "stale"
  /\ seats' \in Kept({i \in DOMAIN seats : seats[i].mode # "stale"})
  /\ sweep' = {seats[i].profile : i \in {k \in DOMAIN seats : seats[k].mode = "stale"}}
                \ {NoProfile}
  /\ UNCHANGED <<cooling, ws, portal, walkedOff>>

CleanUpExpired(p) ==
  /\ p \in sweep
  /\ portal' = Cleared(p)
  /\ sweep' = sweep \ {p}
  /\ UNCHANGED <<seats, cooling, ws, walkedOff>>
-----------------------------------------------------------------------------
Arrive(c) ==
  \/ \E p \in Profile : ClaimGhost(c, p)
  \/ \E hint \in Owner : NothingToClaim(c, hint)

Progress(c) ==
  \/ Admit(c) \/ AdmitByEvicting(c) \/ RejectByCooldown(c)
  \/ StampCooldown(c) \/ AnnounceEviction(c) \/ Subscribe(c)
  \/ ReadDeparting(c) \/ GhostSession(c) \/ RemoveSession(c)

Play(c) ==
  \/ \E p \in Owner : SetProfile(c, p)
  \/ \E s \in Slot : LoadFigure(c, s) \/ ClearFigure(c, s)

Time == CooldownElapses \/ \E i \in DOMAIN seats : GhostAges(i)

Sweep == ExpireGhosts \/ \E p \in Profile : CleanUpExpired(p)

Next ==
  \/ \E c \in Conn : Arrive(c) \/ Progress(c) \/ Play(c) \/ Disconnect(c)
  \/ \E s \in Slot : Settle(s)
  \/ Time
  \/ Sweep

Spec == Init /\ [][Next]_vars

\* A task that is not waiting for its phone goes on, the sweep ticks every
\* minute, and time passes. Phones owe nothing.
FairSpec ==
  /\ Spec
  /\ \A c \in Conn : WF_vars(Progress(c))
  /\ WF_vars(Sweep)
  /\ WF_vars(Time)
-----------------------------------------------------------------------------
(***************************************************************************)
(* Properties.                                                             *)
(***************************************************************************)
Holding == Tasks({"stamp", "announce", "handshake", "serving", "closing", "ghosting", "removing"})

\* A seat never leaks and is never shared: a live session has exactly one task
\* that will ghost or remove it, a ghost has none, and no two tasks serve the
\* same session, however reclaims, evictions and disconnects interleave.
SeatsAreHeld ==
  /\ \A i \in DOMAIN seats :
       (seats[i].mode = "live") <=> \E c \in Holding : ws[c].sid = seats[i].sid
  /\ \A c, d \in Holding : ws[c].sid = ws[d].sid => c = d
  /\ \A i, k \in DOMAIN seats : seats[i].sid = seats[k].sid => i = k

\* Why it holds after every step: a connection mints its own name once, so that a
\* new one meets nobody who already has the name it will mint.
Minted ==
  /\ \A c \in Conn : ws[c].pc \in {"new", "register"} => ws[c].sid = NoSession
  /\ \A c \in Holding : ws[c].sid # NoSession
  /\ \A c \in Conn : ws[c].sid # NoSession => ws[ws[c].sid].sid = ws[c].sid
  /\ \A i \in DOMAIN seats : ws[seats[i].sid].sid = seats[i].sid
SeatsInv == TypeOK /\ SeatsAreHeld /\ Minted

\* Nobody's figures stay by accident: whoever owns a Loaded figure holds a seat
\* or is about to be cleaned up, unless the owner left in one of the ways that
\* leave no ghost (evicted while live, locked or switched profile, a load that
\* landed late).
LoadedIsAnsweredFor ==
  \A s \in Slot : LET p == portal[s].by IN
    portal[s].kind = "Loaded" /\ p # NoProfile /\ p \notin walkedOff =>
      Seated(p) \/ CleanupDue(p)

\* The registry is an implementation of Seats: seen without its tasks and locks,
\* it hands out at most MaxSessions seats, evicts only when none is free, ends
\* absences and never brings back a session that has ended.
SeatOf(c) ==
  IF c \in Ids(seats)
  THEN IF seats[At(c)].mode = "live" THEN "live" ELSE "away"
  ELSE IF ws[c].sid = c THEN "gone" ELSE "unborn"
Seating == INSTANCE Seats WITH Session <- Conn, player <- [c \in Conn |-> SeatOf(c)]
ImplementsSeats == Seating!Spec

\* Every ghost ends: it is reclaimed, evicted or expires.
IsGhost(c) == \E i \in DOMAIN seats : seats[i].sid = c /\ seats[i].mode # "live"
GhostsEnd == \A c \in Conn : IsGhost(c) ~> ~IsGhost(c)

\* A cleanup takes off the figures of a player who is gone: never those of one
\* who sits at the portal with a live session.
LivePlayerKeepsFiguresStep ==
  \A p \in Profile :
    (\E s \in Slot : portal[s] = [kind |-> "Loaded", by |-> p] /\ portal'[s] = Leaving)
      /\ sweep' # sweep
    => ~\E i \in DOMAIN seats : seats[i].profile = p /\ seats[i].mode = "live"
LivePlayerKeepsFigures == [][LivePlayerKeepsFiguresStep]_vars
=============================================================================
