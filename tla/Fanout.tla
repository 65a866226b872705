------------------------------- MODULE Fanout -------------------------------
(***************************************************************************)
(* How one phone learns what happens: writers change the server's state    *)
(* under a lock and send the event after releasing it; the broadcast       *)
(* channel keeps the last Cap events for a receiver; a new socket gets     *)
(* snapshots first and subscribes last; Kaos taunts also go to the replay  *)
(* buffers of the player's ghosts; the phone reconnects, asks for its      *)
(* ghost, and reloads its page when the server has restarted.              *)
(*                                                                         *)
(* One slot and the running game stand for the state. Each is a number     *)
(* that counts its changes; a game is running iff its number is odd. The   *)
(* other phones are writers. The phone has one socket at a time, and the   *)
(* server has noticed the last one close before the next one opens (the    *)
(* Sessions module has the other case).                                    *)
(***************************************************************************)
EXTENDS Naturals, Sequences, FiniteSets

CONSTANTS
  Writer,       \* tasks that change the slot, the game or the profile
  Cap,          \* capacity of the broadcast channel
  ReplayLimit,  \* REPLAY_BUFFER_LIMIT
  MaxSessions,  \* MAX_SESSIONS
  MaxChanges, MaxTaunts, MaxSwitches, MaxDrops, MaxRestarts,  \* bounds
  NoEvent

Topic == {"slot", "game", "profile"}
Taunts == 1 .. MaxTaunts

\* An event; "sid" is the session a ProfileChanged is meant for.
Event(kind, value, sid) == [kind |-> kind, value |-> value, sid |-> sid]

VARIABLES
  truth,    \* the number of the slot's state and of the game
  writer,   \* Writer -> the event of a write that has yet to be sent
  seat,     \* the session of the phone's socket, 0 for none, and its profile
  ghosts,   \* the profile's ghosts, oldest first, with their replay buffers
  minted,   \* session ids handed out since the boot
  boot,     \* boot_id
  taunt,    \* taunts so far, and whether the last is yet to be broadcast
  link,     \* the socket and the task serving it
  phone,    \* what the page holds
  off,      \* history: topics the phone may have wrong
  seen,     \* history: how often each taunt was shown
  excused,  \* history: taunts that met one of the known mishaps
  spent     \* changes, switches, drops and restarts so far

vars == <<truth, writer, seat, ghosts, minted, boot, taunt, link, phone,
          off, seen, excused, spent>>

\* handle_ws, seen from the socket: the session is chosen, then Welcome, the
\* portal and the profile are sent, then the task subscribes and serves.
Stages == {"down", "opening", "chosen", "welcomed", "shown", "told",
           "serving", "deaf", "closing"}
Down == [pc |-> "down", rx |-> <<>>, lag |-> FALSE, replay |-> <<>>]
At(pc) == [link EXCEPT !.pc = pc]

NoSeat == [sid |-> 0, bound |-> FALSE]

\* A freshly loaded page, which asks for the running game (fetch_status).
Page(hint) ==
  [slot |-> 0, game |-> 0, profile |-> FALSE, hint |-> hint, sid |-> 0, boot |-> 0,
   status |-> "asked", answer |-> 0]

Init ==
  /\ truth = [slot |-> 0, game |-> 0]
  /\ writer = [w \in Writer |-> NoEvent]
  /\ seat = NoSeat /\ ghosts = <<>> /\ minted = 0 /\ boot = 1
  /\ taunt = [n |-> 0, pushed |-> FALSE]
  /\ link = Down
  /\ phone = Page(FALSE)
  /\ off = {} /\ seen = [n \in Taunts |-> 0] /\ excused = {}
  /\ spent = [changes |-> 0, switches |-> 0, drops |-> 0, restarts |-> 0]

Running(n) == n % 2 = 1
InSeq(n, q) == \E i \in DOMAIN q : q[i] = n
TauntsIn(q) == {n \in Taunts : InSeq(Event("taunt", n, 0), q)}
-----------------------------------------------------------------------------
(***************************************************************************)
(* The broadcast channel.                                                  *)
(***************************************************************************)
Subscribed == link.pc = "serving"
Overflows == Subscribed /\ Len(link.rx) >= Cap

\* In a full ring the oldest event makes room: the receiver has lagged.
Receive(e) ==
  IF ~Subscribed THEN link
  ELSE IF Overflows THEN [link EXCEPT !.rx = Append(Tail(@), e), !.lag = TRUE]
  ELSE [link EXCEPT !.rx = Append(@, e)]

(***************************************************************************)
(* What the phone may have wrong. An event goes amiss when nobody listens  *)
(* although the phone has been told the topic's state before, when it is   *)
(* sent after a newer one, and when the receiver has lagged.               *)
(***************************************************************************)
Now(t) == IF t = "profile" THEN seat.bound ELSE truth[t]

Exposed(t) ==
  CASE t = "slot"    -> link.pc \in {"shown", "told", "deaf"}
    [] t = "profile" -> link.pc \in {"told", "deaf"}
    [] t = "game"    -> ~Subscribed

NewerPending(w, e) ==
  \E v \in Writer \ {w} : /\ writer[v] # NoEvent
                          /\ writer[v].kind = e.kind /\ writer[v].sid = e.sid
                          /\ writer[v].value = Now(e.kind)

OffAfter(w, e) ==
  IF Overflows THEN Topic
  ELSE IF Subscribed
       THEN IF e.value = Now(e.kind) THEN (IF link.lag THEN off ELSE off \ {e.kind})
            ELSE IF NewerPending(w, e) THEN off ELSE off \cup {e.kind}
  ELSE IF Exposed(e.kind) THEN off \cup {e.kind} ELSE off
-----------------------------------------------------------------------------
(***************************************************************************)
(* Writers: the state changes under its lock, the event follows.           *)
(***************************************************************************)
ChangeState(w, t) ==
  /\ writer[w] = NoEvent
  /\ spent.changes < MaxChanges
  /\ truth' = [truth EXCEPT ![t] = @ + 1]
  /\ writer' = [writer EXCEPT ![w] = Event(t, truth[t] + 1, 0)]
  /\ spent' = [spent EXCEPT !.changes = @ + 1]
  /\ UNCHANGED <<seat, ghosts, minted, boot, taunt, link, phone, off, seen, excused>>

\* unlock_profile and lock_profile, asked for by the phone under the session id
\* it was last welcomed with.
SwitchProfile(w, b) ==
  /\ writer[w] = NoEvent
  /\ spent.switches < MaxSwitches
  /\ seat.sid # 0 /\ phone.sid = seat.sid /\ phone.boot = boot
  /\ seat' = [seat EXCEPT !.bound = b]
  /\ writer' = [writer EXCEPT ![w] = Event("profile", b, seat.sid)]
  /\ spent' = [spent EXCEPT !.switches = @ + 1]
  /\ UNCHANGED <<truth, ghosts, minted, boot, taunt, link, phone, off, seen, excused>>

SendEvent(w) ==
  /\ writer[w] # NoEvent
  /\ link' = Receive(writer[w])
  /\ off' = IF writer[w].sid \in {0, seat.sid} THEN OffAfter(w, writer[w])
            ELSE IF Overflows THEN Topic ELSE off
  /\ excused' = excused \cup (IF Overflows THEN TauntsIn(link.rx) ELSE {})
  /\ writer' = [writer EXCEPT ![w] = NoEvent]
  /\ UNCHANGED <<truth, seat, ghosts, minted, boot, taunt, phone, seen, spent>>
-----------------------------------------------------------------------------
(***************************************************************************)
(* Kaos taunts (execute_kaos_swap): buffered for the profile's ghosts,     *)
(* then broadcast to everyone.                                             *)
(***************************************************************************)
\* push_replay_for_profile: a full buffer drops its oldest entry.
Buffered(g, n) ==
  [g EXCEPT !.buf = Append(IF Len(@) >= ReplayLimit THEN Tail(@) ELSE @, n)]

\* Mutant of PushTaunt: an entry too many is never made room for.
PushTauntUnbounded ==
  /\ ~taunt.pushed /\ taunt.n < MaxTaunts
  /\ seat.bound \/ ghosts # <<>>
  /\ taunt' = [n |-> taunt.n + 1, pushed |-> TRUE]
  /\ ghosts' = [i \in DOMAIN ghosts |->
                  [ghosts[i] EXCEPT !.buf = Append(@, taunt.n + 1)]]
  /\ UNCHANGED <<truth, writer, seat, minted, boot, link, phone, off, seen, excused, spent>>

PushTaunt ==
  /\ ~taunt.pushed /\ taunt.n < MaxTaunts
  /\ seat.bound \/ ghosts # <<>>
  /\ taunt' = [n |-> taunt.n + 1, pushed |-> TRUE]
  /\ ghosts' = [i \in DOMAIN ghosts |-> Buffered(ghosts[i], taunt.n + 1)]
  /\ excused' = excused
       \cup (IF Len(ghosts) > 1 THEN {taunt.n + 1} ELSE {})
       \cup {Head(ghosts[i].buf) : i \in {k \in DOMAIN ghosts : Len(ghosts[k].buf) >= ReplayLimit}}
  /\ UNCHANGED <<truth, writer, seat, minted, boot, link, phone, off, seen, spent>>

\* In a buffer, or on its way from one to the phone.
Kept(n) ==
  \/ \E i \in DOMAIN ghosts : InSeq(n, ghosts[i].buf)
  \/ InSeq(n, link.replay)
  \/ seen[n] > 0

\* The buffers and the broadcast should not both reach the phone, and not both
\* miss it: they do when it reclaims its ghost in between.
SendTaunt ==
  /\ taunt.pushed
  /\ taunt' = [taunt EXCEPT !.pushed = FALSE]
  /\ link' = Receive(Event("taunt", taunt.n, 0))
  /\ excused' = excused \cup (IF Kept(taunt.n) <=> Subscribed THEN {taunt.n} ELSE {})
                        \cup (IF Overflows THEN TauntsIn(link.rx) \cup {taunt.n} ELSE {})
  /\ off' = IF Overflows THEN Topic ELSE off
  /\ UNCHANGED <<truth, writer, seat, ghosts, minted, boot, phone, seen, spent>>
-----------------------------------------------------------------------------
(***************************************************************************)
(* The server's task for the socket.                                       *)
(***************************************************************************)
\* claim_ghost: the oldest ghost of the hinted profile, its buffer drained.
Reclaim ==
  /\ link.pc = "opening" /\ phone.hint /\ ghosts # <<>>
  /\ seat' = [sid |-> Head(ghosts).sid, bound |-> TRUE]
  /\ link' = [link EXCEPT !.pc = "chosen", !.replay = Head(ghosts).buf]
  /\ ghosts' = Tail(ghosts)
  /\ UNCHANGED <<truth, writer, minted, boot, taunt, phone, off, seen, excused, spent>>

\* register: with every seat taken by ghosts the oldest is evicted.
Register ==
  /\ link.pc = "opening" /\ ~(phone.hint /\ ghosts # <<>>)
  /\ seat' = [sid |-> minted + 1, bound |-> FALSE]
  /\ minted' = minted + 1
  /\ link' = At("chosen")
  /\ LET full == Len(ghosts) >= MaxSessions
     IN  /\ ghosts' = IF full THEN Tail(ghosts) ELSE ghosts
         /\ excused' = excused \cup (IF full THEN {n \in Taunts : InSeq(n, Head(ghosts).buf)}
                                     ELSE {})
  /\ UNCHANGED <<truth, writer, boot, taunt, phone, off, seen, spent>>

\* Mutant of Welcome: any boot id will do.
WelcomeAnyBoot ==
  /\ link.pc = "chosen"
  /\ phone' = [phone EXCEPT !.sid = seat.sid, !.boot = boot]
  /\ link' = At("welcomed")
  /\ UNCHANGED <<truth, writer, seat, ghosts, minted, boot, taunt, off, seen, excused, spent>>

\* The phone takes its session id from the Welcome (observe_boot_id).
Welcome ==
  /\ link.pc = "chosen" /\ phone.boot \in {0, boot}
  /\ phone' = [phone EXCEPT !.sid = seat.sid, !.boot = boot]
  /\ link' = At("welcomed")
  /\ UNCHANGED <<truth, writer, seat, ghosts, minted, boot, taunt, off, seen, excused, spent>>

\* Another boot id: the hint is forgotten and the page is loaded anew. A game that
\* runs it has yet to be told of.
Reload ==
  /\ link.pc = "chosen" /\ phone.boot \notin {0, boot}
  /\ phone' = Page(FALSE)
  /\ link' = At("closing")
  /\ off' = IF Running(truth.game) THEN off \cup {"game"} ELSE off
  /\ excused' = excused \cup {n \in Taunts : InSeq(n, link.replay)}
  /\ UNCHANGED <<truth, writer, seat, ghosts, minted, boot, taunt, seen, spent>>

ShowPortal ==
  /\ link.pc = "welcomed"
  /\ phone' = [phone EXCEPT !.slot = truth.slot]
  /\ off' = off \ {"slot"}
  /\ link' = At("shown")
  /\ UNCHANGED <<truth, writer, seat, ghosts, minted, boot, taunt, seen, excused, spent>>

\* The phone keeps the hint while a profile is unlocked, and only then.
TellProfile ==
  /\ link.pc = "shown"
  /\ phone' = [phone EXCEPT !.profile = seat.bound, !.hint = seat.bound]
  /\ off' = off \ {"profile"}
  /\ link' = At("told")
  /\ UNCHANGED <<truth, writer, seat, ghosts, minted, boot, taunt, seen, excused, spent>>

\* Mutant of Subscribe: the drained replay buffer is never sent.
SubscribeOnly ==
  /\ link.pc = "told"
  /\ link' = [link EXCEPT !.pc = "serving", !.replay = <<>>]
  /\ UNCHANGED <<truth, writer, seat, ghosts, minted, boot, taunt, phone, off, seen, excused, spent>>

\* The replay is flushed, then the task subscribes to the channel.
Subscribe ==
  /\ link.pc = "told"
  /\ seen' = [n \in Taunts |-> IF InSeq(n, link.replay) THEN seen[n] + 1 ELSE seen[n]]
  /\ link' = [link EXCEPT !.pc = "serving", !.replay = <<>>]
  /\ UNCHANGED <<truth, writer, seat, ghosts, minted, boot, taunt, phone, off, excused, spent>>

\* The writer task ends at RecvError::Lagged; the socket stays open.
GoDeaf ==
  /\ link.pc = "serving" /\ link.lag
  /\ link' = [Down EXCEPT !.pc = "deaf"]
  /\ UNCHANGED <<truth, writer, seat, ghosts, minted, boot, taunt, phone, off, seen, excused, spent>>

\* The departing session becomes a ghost if it holds the profile.
Depart ==
  /\ link.pc = "closing"
  /\ ghosts' = IF seat.bound THEN Append(ghosts, [sid |-> seat.sid, buf |-> <<>>]) ELSE ghosts
  /\ seat' = NoSeat
  /\ link' = Down
  /\ UNCHANGED <<truth, writer, minted, boot, taunt, phone, off, seen, excused, spent>>

GhostExpires ==
  /\ ghosts # <<>>
  /\ excused' = excused \cup {n \in Taunts : InSeq(n, Head(ghosts).buf)}
  /\ ghosts' = Tail(ghosts)
  /\ UNCHANGED <<truth, writer, seat, minted, boot, taunt, link, phone, off, seen, spent>>

AnswerStatus ==
  /\ phone.status = "asked"
  /\ phone' = [phone EXCEPT !.status = "answered", !.answer = truth.game]
  /\ UNCHANGED <<truth, writer, seat, ghosts, minted, boot, taunt, link, off, seen, excused, spent>>
-----------------------------------------------------------------------------
(***************************************************************************)
(* The phone.                                                              *)
(***************************************************************************)
\* The backoff timer fires, or the page is loaded.
OpenSocket ==
  /\ link.pc = "down"
  /\ link' = At("opening")
  /\ UNCHANGED <<truth, writer, seat, ghosts, minted, boot, taunt, phone, off, seen, excused, spent>>

\* What an event does to the page: a ProfileChanged is filtered by session id.
Applied(e) ==
  CASE e.kind = "slot" -> [phone EXCEPT !.slot = e.value]
    [] e.kind = "game" -> [phone EXCEPT !.game = e.value]
    [] e.kind = "profile" -> IF e.sid = phone.sid
                             THEN [phone EXCEPT !.profile = e.value, !.hint = e.value]
                             ELSE phone
    [] e.kind = "taunt" -> phone

OnMessage ==
  /\ link.pc = "serving" /\ ~link.lag /\ link.rx # <<>>
  /\ LET e == Head(link.rx)
     IN  /\ phone' = Applied(e)
         /\ seen' = IF e.kind = "taunt" THEN [seen EXCEPT ![e.value] = @ + 1] ELSE seen
  /\ link' = [link EXCEPT !.rx = Tail(@)]
  /\ UNCHANGED <<truth, writer, seat, ghosts, minted, boot, taunt, off, excused, spent>>

\* The answer is used only if it names a game; it may be older than an event.
ApplyStatus ==
  /\ phone.status = "answered"
  /\ phone' = [phone EXCEPT !.status = "done",
                            !.game = IF Running(phone.answer) THEN phone.answer ELSE @]
  /\ LET right == \/ Running(phone.answer) /\ phone.answer = truth.game
                  \/ ~Running(phone.answer) /\ ~Running(phone.game) /\ ~Running(truth.game)
         behind == \E i \in DOMAIN link.rx : link.rx[i].kind = "game"
     IN  off' = IF right /\ ~behind THEN off \ {"game"}
                ELSE IF Running(phone.answer) /\ ~right THEN off \cup {"game"} ELSE off
  /\ UNCHANGED <<truth, writer, seat, ghosts, minted, boot, taunt, link, seen, excused, spent>>

\* The socket breaks: what was under way on it is gone.
Break(where) ==
  /\ link.pc \in where
  /\ link' = [Down EXCEPT !.pc = "closing"]
  /\ excused' = excused \cup TauntsIn(link.rx) \cup {n \in Taunts : InSeq(n, link.replay)}
  /\ off' = off \cup {link.rx[i].kind : i \in {k \in DOMAIN link.rx : link.rx[k].kind = "game"}}

Drop ==
  /\ Break({"chosen", "welcomed", "shown", "told", "serving", "deaf"})
  /\ spent.drops < MaxDrops
  /\ spent' = [spent EXCEPT !.drops = @ + 1]
  /\ UNCHANGED <<truth, writer, seat, ghosts, minted, boot, taunt, phone, seen>>

\* The server is restarted: nothing of the registry, the portal or the game
\* survives, and session ids start again from one. A page that has been
\* welcomed will notice and reload.
Restart ==
  /\ spent.restarts < MaxRestarts
  /\ spent' = [spent EXCEPT !.restarts = @ + 1]
  /\ truth' = [slot |-> 0, game |-> 0]
  /\ writer' = [w \in Writer |-> NoEvent]
  /\ seat' = NoSeat /\ ghosts' = <<>> /\ minted' = 0 /\ boot' = boot + 1
  /\ taunt' = [taunt EXCEPT !.pushed = FALSE]
  /\ excused' = 1 .. taunt.n
  /\ link' = Down
  /\ off' = IF phone.boot = 0 THEN {"game"} ELSE {}
  /\ UNCHANGED <<phone, seen>>
-----------------------------------------------------------------------------
Serve == \/ Reclaim \/ Register \/ Welcome \/ Reload \/ ShowPortal \/ TellProfile
         \/ Subscribe \/ GoDeaf \/ Depart

Next ==
  \/ \E w \in Writer, t \in {"slot", "game"} : ChangeState(w, t)
  \/ \E w \in Writer, b \in BOOLEAN : SwitchProfile(w, b)
  \/ \E w \in Writer : SendEvent(w)
  \/ PushTaunt \/ SendTaunt
  \/ Serve \/ GhostExpires \/ AnswerStatus
  \/ OpenSocket \/ OnMessage \/ ApplyStatus
  \/ Drop \/ Restart

Spec == Init /\ [][Next]_vars
-----------------------------------------------------------------------------
(***************************************************************************)
(* Properties.                                                             *)
(***************************************************************************)
TypeOK ==
  /\ truth \in [{"slot", "game"} -> 0 .. MaxChanges]
  /\ seat.sid \in Nat /\ seat.bound \in BOOLEAN
  /\ Len(ghosts) <= MaxSessions
  /\ \A i \in DOMAIN ghosts : Len(ghosts[i].buf) <= ReplayLimit
  /\ link.pc \in Stages /\ Len(link.rx) <= Cap
  /\ off \subseteq Topic /\ excused \subseteq Taunts

CaughtUp ==
  /\ link.pc = "serving" /\ link.rx = <<>> /\ phone.status = "done"
  /\ \A w \in Writer : writer[w] = NoEvent

\* A phone that has read all it was sent shows the slot, the game and its own
\* profile as the server has them, unless an event went amiss: nobody listened
\* for it, a newer one overtook it, the receiver lagged, the socket broke with
\* it under way; or the game was asked for before it changed.
ViewIsTrue ==
  CaughtUp =>
    /\ "slot" \notin off => phone.slot = truth.slot
    /\ "game" \notin off => \/ phone.game = truth.game
                            \/ ~Running(phone.game) /\ ~Running(truth.game)
    /\ "profile" \notin off => phone.profile = seat.bound

\* A taunt is shown once, by replay or by broadcast, unless it met a mishap:
\* the phone reclaimed or left in between, a buffer was full, a socket broke
\* with it under way, a ghost ended, the profile had two, the server restarted.
TauntIsShownOnce ==
  \A n \in 1 .. taunt.n :
    \/ n \in excused
    \/ n = taunt.n /\ taunt.pushed
    \/ \E i \in DOMAIN ghosts : InSeq(n, ghosts[i].buf)
    \/ InSeq(n, link.replay)
    \/ InSeq(Event("taunt", n, 0), link.rx)
    \/ seen[n] = 1

\* What is under way to a socket, where, and at which stage.
LinkIsKnown ==
  /\ link.rx # <<>> => link.pc = "serving"
  /\ link.replay # <<>> => link.pc \in {"chosen", "welcomed", "shown", "told", "closing"}
  /\ link.lag => link.pc = "serving" /\ Len(link.rx) >= Cap /\ {"slot", "profile"} \subseteq off
  /\ link.pc \in {"welcomed", "shown", "told", "serving", "deaf"} =>
       phone.sid = seat.sid /\ phone.boot = boot
  /\ phone.boot <= boot

\* What the phone shows of a topic, and whether that is how the topic is.
Shows(t) == CASE t = "slot" -> phone.slot [] t = "game" -> phone.game [] t = "profile" -> phone.profile
Agree(t, shown, now) == shown = now \/ (t = "game" /\ ~Running(shown) /\ ~Running(now))

\* The last event of a queue that tells the phone of the topic says how it is, or there
\* is none and the phone shows it.
Tells(e, t, sid) == e.kind = t /\ (t = "profile" => e.sid = sid)
Told(q, t, sid) == \E i \in DOMAIN q : Tells(q[i], t, sid)
WillAgree(q, t, sid, shown, now) ==
  IF Told(q, t, sid)
  THEN \E i \in DOMAIN q : /\ Tells(q[i], t, sid) /\ q[i].value = now
                           /\ \A j \in DOMAIN q : Tells(q[j], t, sid) => j <= i
  ELSE Agree(t, shown, now)

\* A writer is about to send how the topic is now.
Pends(t) == \E w \in Writer : /\ writer[w] # NoEvent /\ Tells(writer[w], t, seat.sid)
                             /\ writer[w].value = Now(t)

\* The phone is told of a topic, or has been.
Follows(t) ==
  CASE t = "slot"    -> link.pc \in {"shown", "told", "serving"}
    [] t = "profile" -> link.pc \in {"told", "serving"}
    [] t = "game"    -> phone.boot \in {0, boot}

ViewOf(t) == Follows(t) => Pends(t) \/ WillAgree(link.rx, t, phone.sid, Shows(t), Now(t))

ViewInv ==
  /\ LinkIsKnown
  /\ link.lag /\ "game" \notin off => ~Told(link.rx, "game", phone.sid)
  /\ \A t \in Topic \ off : ViewOf(t)

\* Where a taunt is: with the ghosts whose buffers hold it, as an event on its way, in
\* the replay, or shown.
Ghost == [sid : Nat, buf : Seq(Taunts)]
Holders(n) == {g \in Ghost : InSeq(n, g.buf)}
Brings(n) == {Event("taunt", n, 0)}
Somewhere(q, S) == \E i \in DOMAIN q : q[i] \in S
Once(q, S) == \A i, j \in DOMAIN q : q[i] \in S /\ q[j] \in S => i = j

Nowhere(g, q, replay, shown, n) ==
  ~Somewhere(g, Holders(n)) /\ ~InSeq(n, replay) /\ ~Somewhere(q, Brings(n)) /\ shown = 0

AtOnePlace(g, q, replay, shown, n) ==
  /\ Once(g, Holders(n)) /\ Once(q, Brings(n)) /\ shown \in {0, 1}
  /\ Somewhere(g, Holders(n)) => ~InSeq(n, replay) /\ ~Somewhere(q, Brings(n)) /\ shown = 0
  /\ InSeq(n, replay) => ~Somewhere(q, Brings(n)) /\ shown = 0
  /\ Somewhere(q, Brings(n)) => shown = 0

\* A taunt that has yet to come is nowhere; one that met no mishap is at one place at
\* most, and at one once it was broadcast.
Tracked(g, l, shown, t, mishaps, n) ==
  /\ n > t.n => Nowhere(g, l.rx, l.replay, shown, n)
  /\ n \notin mishaps =>
       /\ AtOnePlace(g, l.rx, l.replay, shown, n)
       /\ l.lag => ~Somewhere(l.rx, Brings(n))
       /\ l.pc = "closing" => ~InSeq(n, l.replay)
       /\ n = t.n /\ t.pushed => ~Somewhere(l.rx, Brings(n))
       /\ n <= t.n /\ ~(n = t.n /\ t.pushed) => ~Nowhere(g, l.rx, l.replay, shown, n)

TauntInv == \A n \in Taunts : Tracked(ghosts, link, seen[n], taunt, excused, n)
=============================================================================
