------------------------------- MODULE SignIn -------------------------------
(***************************************************************************)
(* Who is signed in, as one page and the server see it: the profile picker *)
(* and its PIN entry, SWITCH and MANAGE, the Kaos switch of the admin hub  *)
(* and the offer to resume the last layout on the page; unlock_profile,    *)
(* set_kaos_enabled, clear_resume and handle_ws on the server, step by     *)
(* step; and between them requests that are lost or answered late and the  *)
(* ordered events of a socket that may drop. What is broadcast before a    *)
(* handshake has subscribed is not heard. Seats and eviction are Sessions',*)
(* the other events Fanout's, PINs in time Lockouts'.                      *)
(***************************************************************************)
EXTENDS Naturals, Sequences, FiniteSets

CONSTANTS
  Profile,
  Call,       \* bound: requests under way at a time
  LastSession,\* bound: sessions that the page is given, one after the other
  WireCap,    \* bound: events on their way to the page
  Playing,    \* bound: whether games are played, and so layouts saved and offered
  NoProfile, NoCall

Player  == Profile \cup {NoProfile}
Session == 1 .. LastSession

VARIABLES
  session, \* Session -> its seat and profile_id
  saved,   \* profiles with figures in last_portal_layout_json
  game,    \* whether a game runs
  socket,  \* the session that serves the page's socket, how far handle_ws is with
           \* it, and the profile it has told the page
  wire,    \* events on their way to the page
  call,    \* Call -> a request of the page
  page,    \* unlocked_profile, the reclaim hint, SESSION_ID, resume_offer with
           \* (history) whose layout it is, current_game, manage_gate
  picker,  \* ProfilePicker and its PinEntry, while nobody is signed in; tried
           \* (history): the wrong PIN it shows has been submitted
  amiss    \* history: what the page was told last is not, or not any more, what the
           \* session has, as an event came too late, or was not sent, or not heard

signInVars == <<session, saved, game, socket, wire, call, page, picker, amiss>>

Idle    == [kind |-> "none", profile |-> NoProfile, sid |-> 0, right |-> FALSE,
            left |-> {}, pc |-> "idle"]
Grid    == [at |-> "grid", picked |-> NoProfile, pin |-> "none", tried |-> FALSE,
            busy |-> NoCall]
PinFor(p) == [Grid EXCEPT !.at = "pin", !.picked = p]
NoSocket  == [sid |-> 0, at |-> "down", profile |-> NoProfile]

Event == [kind : {"welcome", "profile", "offer"}, sid : Session, profile : Player]
         \cup [kind : {"game"}, on : BOOLEAN]

TypeOK ==
  /\ session \in [Session -> [seat : {"unborn", "live", "ghost", "gone"}, bound : Player]]
  /\ saved \subseteq Profile
  /\ game \in BOOLEAN
  /\ socket \in [sid : Session \cup {0}, profile : Player,
                 at : {"down", "reclaimed", "admitted", "prompting", "told", "serving"}]
  /\ wire \in Seq(Event) /\ Len(wire) <= WireCap
  /\ call \in [Call -> [kind : {"none", "unlock", "kaos", "fresh"}, profile : Player,
                        sid : Session \cup {0}, right : BOOLEAN, left : SUBSET Session,
                        pc : {"idle", "sent", "bound", "told", "ok", "refused"}]]
  /\ page \in [signed : Player, hint : Player, sid : Session \cup {0}, offer : Player,
               game : BOOLEAN, gate : BOOLEAN]
  /\ picker \in [at : {"grid", "pin", "hub"}, picked : Player,
                 pin : {"none", "right", "wrong"}, tried : BOOLEAN,
                 busy : Call \cup {NoCall}]
  /\ amiss \in BOOLEAN

Init ==
  /\ session = [s \in Session |-> [seat |-> "unborn", bound |-> NoProfile]]
  /\ saved \in IF Playing THEN SUBSET Profile ELSE {{}}
  /\ game = FALSE
  /\ socket = NoSocket
  /\ wire = <<>>
  /\ call = [c \in Call |-> Idle]
  /\ page = [signed |-> NoProfile, hint |-> NoProfile, sid |-> 0, offer |-> NoProfile,
             game |-> FALSE, gate |-> FALSE]
  /\ picker = Grid
  /\ amiss = FALSE
-----------------------------------------------------------------------------
(***************************************************************************)
(* The page.                                                               *)
(***************************************************************************)
server == <<session, saved, game, socket>>
Locked == page.signed = NoProfile

Pick(p) ==
  /\ Locked /\ picker.at = "grid" /\ ~page.gate
  /\ picker' = PinFor(p)
  /\ UNCHANGED <<server, wire, call, page, amiss>>

\* BACK, LOCK: what the PIN entry waited for is not waited for any more.
Back ==
  /\ Locked /\ (picker.at # "grid" \/ page.gate)
  /\ picker' = Grid
  /\ page' = [page EXCEPT !.gate = @ /\ picker.at # "grid"]
  /\ UNCHANGED <<server, wire, call, amiss>>

\* The code of the gate is entered.
EnterHub ==
  /\ Locked /\ picker.at = "grid" /\ page.gate
  /\ picker' = [Grid EXCEPT !.at = "hub"]
  /\ page' = [page EXCEPT !.gate = FALSE]
  /\ UNCHANGED <<server, wire, call, amiss>>

\* The fourth digit is typed, or one taken back, while a request is under way, too.
\* (The keypad is disabled for a while after a lockout, which only delays.)
Type(pin) ==
  /\ Locked /\ picker.at = "pin" /\ (pin = "none") # (picker.pin = "none")
  /\ picker' = [picker EXCEPT !.pin = pin, !.tried = FALSE]
  /\ UNCHANGED <<server, wire, call, page, amiss>>

At(c, kind, pc) == call[c].kind = kind /\ call[c].pc = pc

Ask(c, kind, p) ==
  /\ call[c] = Idle
  /\ call' = [call EXCEPT ![c] = [Idle EXCEPT !.kind = kind, !.profile = p, !.pc = "sent",
                !.sid = page.sid, !.right = picker.pin = "right", !.left = Session]]

\* The effect that submits a full PIN as soon as nothing is under way.
Submit(c) ==
  /\ Locked /\ picker.pin # "none" /\ picker.busy = NoCall
  /\ Ask(c, "unlock", picker.picked)
  /\ picker' = [picker EXCEPT !.busy = c, !.tried = picker.pin = "wrong"]
  /\ UNCHANGED <<server, wire, page, amiss>>

\* Mutant of Refused: the digits stay.
RefusedKeeping(c) == IF picker.busy = c THEN [picker EXCEPT !.busy = NoCall] ELSE picker

\* An error clears the digits, if its PIN entry is still on the screen.
Refused(c) ==
  IF picker.busy = c
  THEN [picker EXCEPT !.pin = "none", !.tried = FALSE, !.busy = NoCall] ELSE picker

\* The answer arrives. After an Ok the digits stay until ProfileChanged takes the
\* screen away, and are submitted again. The screen may be another by now.
Answered(c) ==
  /\ call[c].pc \in {"ok", "refused"}
  /\ picker' = IF call[c].pc = "refused" THEN Refused(c)
               ELSE IF picker.busy = c THEN [picker EXCEPT !.busy = NoCall] ELSE picker
  /\ call' = [call EXCEPT ![c] = Idle]
  /\ UNCHANGED <<server, wire, page, amiss>>

\* The network fails before the request arrives, or while the server is at it; the
\* handler goes on, or ends at an await with what it has done.
Fails(c) ==
  /\ call[c].pc # "idle"
  /\ picker' = Refused(c)
  /\ \/ UNCHANGED call
     \/ call[c].pc \in {"sent", "bound", "told"} /\ call' = [call EXCEPT ![c] = Idle]
  /\ amiss' = \/ amiss
              \/ call' # call /\ At(c, "unlock", "bound") /\ call[c].sid = socket.sid
  /\ UNCHANGED <<server, wire, page>>

\* SWITCH PROFILE and MANAGE PROFILES: neither tells the server, nor forgets the hint.
\* MANAGE is there while nobody is signed in, too.
GiveUp(manage) ==
  /\ manage \/ ~Locked
  /\ page' = [page EXCEPT !.signed = NoProfile, !.gate = @ \/ manage]
  /\ picker' = IF Locked THEN picker ELSE Grid
  /\ UNCHANGED <<server, wire, call, amiss>>

\* The Kaos switch of a profile in the hub.
ToggleKaos(c, p) ==
  /\ Locked /\ picker.at = "hub"
  /\ Ask(c, "kaos", p)
  /\ UNCHANGED <<server, wire, page, picker, amiss>>

\* The resume dialog: RESUME loads figures (Portal's concern), START FRESH has the
\* layout dropped of whoever is signed in at the tap.
OfferShown == page.offer # NoProfile /\ page.game

Resume ==
  /\ OfferShown
  /\ page' = [page EXCEPT !.offer = NoProfile]
  /\ UNCHANGED <<server, wire, call, picker, amiss>>

StartFresh(c) ==
  /\ OfferShown
  /\ page' = [page EXCEPT !.offer = NoProfile]
  /\ IF Locked THEN UNCHANGED call ELSE Ask(c, "fresh", page.signed)
  /\ UNCHANGED <<server, wire, picker, amiss>>
-----------------------------------------------------------------------------
(***************************************************************************)
(* The server's handlers.                                                  *)
(***************************************************************************)
\* handle_ws sends on the socket itself, while there is room.
Put(event) == Len(wire) < WireCap /\ wire' = Append(wire, event)

\* A broadcast reaches the page once handle_ws has subscribed, and nobody before.
Serving     == socket.at = "serving"
Send(event) == IF Serving THEN Put(event) ELSE UNCHANGED wire

Goto(c, pc) == call' = [call EXCEPT ![c].pc = pc]

\* unlock_profile without a session, with a wrong PIN, or during a lockout.
Refuse(c) ==
  /\ At(c, "unlock", "sent")
  /\ Goto(c, "refused")
  /\ UNCHANGED <<server, wire, page, picker, amiss>>

\* set_profile: without effect on a session that is no more.
Bind(c) ==
  /\ At(c, "unlock", "sent") /\ call[c].right /\ call[c].sid # 0
  /\ session' = [session EXCEPT ![call[c].sid].bound =
                   IF session[call[c].sid].seat = "gone" THEN @ ELSE call[c].profile]
  /\ Goto(c, "bound")
  /\ UNCHANGED <<saved, game, socket, wire, page, picker, amiss>>

\* set_kaos_enabled looks at one session after the other.
Look(c, s) ==
  /\ At(c, "kaos", "sent") /\ s \in call[c].left
  /\ call' = [call EXCEPT ![c].left = @ \ {s}, ![c].sid = s,
                ![c].pc = IF session[s].bound = call[c].profile THEN "bound" ELSE "sent"]
  /\ UNCHANGED <<server, wire, page, picker, amiss>>

LookedAtAll(c) ==
  /\ At(c, "kaos", "sent") /\ call[c].left = {}
  /\ Goto(c, "ok")
  /\ UNCHANGED <<server, wire, page, picker, amiss>>

\* ProfileChanged, of a profile that was bound, or found bound, a moment ago. What the
\* page hears now is what it was told last; what it does not hear has no effect on it.
Announce(c) ==
  /\ call[c].pc = "bound"
  /\ Send([kind |-> "profile", sid |-> call[c].sid, profile |-> call[c].profile])
  /\ Goto(c, IF call[c].kind = "kaos" THEN "sent" ELSE "told")
  /\ amiss' = IF call[c].sid # socket.sid THEN amiss
              ELSE IF Serving THEN session[socket.sid].bound # call[c].profile
              ELSE amiss \/ session[socket.sid].bound # socket.profile
  /\ UNCHANGED <<server, page, picker>>

\* maybe_send_resume_prompt
Offer(c) ==
  /\ At(c, "unlock", "told")
  /\ IF call[c].profile \in saved
     THEN Send([kind |-> "offer", sid |-> call[c].sid, profile |-> call[c].profile])
     ELSE UNCHANGED wire
  /\ Goto(c, "ok")
  /\ UNCHANGED <<server, page, picker, amiss>>

ClearResume(c) ==
  /\ At(c, "fresh", "sent")
  /\ saved' = saved \ {call[c].profile}
  /\ Goto(c, "ok")
  /\ UNCHANGED <<session, game, socket, wire, page, picker, amiss>>

\* persist_layout, for a player who is signed in while a game runs.
SaveLayout(p) ==
  /\ game /\ \E s \in Session : session[s].bound = p
  /\ saved' \in {saved \cup {p}, saved \ {p}}
  /\ UNCHANGED <<session, game, socket, wire, call, page, picker, amiss>>

\* launch_game and quit_game, by whichever phone.
GameChanges ==
  /\ Playing
  /\ game' = ~game
  /\ Send([kind |-> "game", on |-> ~game])
  /\ UNCHANGED <<session, saved, socket, call, page, picker, amiss>>
-----------------------------------------------------------------------------
(***************************************************************************)
(* The socket: handle_ws from the handshake to the departure, and what the *)
(* page makes of the events.                                               *)
(***************************************************************************)
Ghosts(p) == {s \in Session : session[s].seat = "ghost" /\ session[s].bound = p}

\* The hint reclaims the player's ghost, or the page gets a session of its own, to
\* which it is welcomed.
Connect(s) ==
  /\ socket = NoSocket
  /\ IF page.hint # NoProfile /\ Ghosts(page.hint) # {}
     THEN /\ s \in Ghosts(page.hint)
          /\ socket' = [NoSocket EXCEPT !.sid = s, !.at = "reclaimed"]
     ELSE /\ session[s].seat = "unborn" /\ \A t \in 1 .. s - 1 : session[t].seat # "unborn"
          /\ socket' = [NoSocket EXCEPT !.sid = s, !.at = "admitted"]
  /\ session' = [session EXCEPT ![s].seat = "live"]
  /\ wire' = <<[kind |-> "welcome", sid |-> s, profile |-> NoProfile]>>
  /\ UNCHANGED <<saved, game, call, page, picker, amiss>>

\* The page is told of the profile that the session has now, by an unlock in between,
\* too. What went amiss before is mended.
TellProfile ==
  /\ socket.at \in {"reclaimed", "admitted"}
  /\ LET now == session[socket.sid].bound IN
       /\ Put([kind |-> "profile", sid |-> socket.sid, profile |-> now])
       /\ socket' = [socket EXCEPT
            !.profile = now,
            !.at = IF @ = "admitted" /\ now # NoProfile THEN "prompting" ELSE "told"]
  /\ amiss' = FALSE
  /\ UNCHANGED <<session, saved, game, call, page, picker>>

\* build_resume_prompt, unless a ghost was reclaimed.
Prompt ==
  /\ socket.at = "prompting"
  /\ IF socket.profile \in saved
     THEN Put([kind |-> "offer", sid |-> socket.sid, profile |-> socket.profile])
     ELSE UNCHANGED wire
  /\ socket' = [socket EXCEPT !.at = "told"]
  /\ UNCHANGED <<session, saved, game, call, page, picker, amiss>>

Subscribe ==
  /\ socket.at = "told"
  /\ socket' = [socket EXCEPT !.at = "serving"]
  /\ UNCHANGED <<session, saved, game, wire, call, page, picker, amiss>>

Drop ==
  /\ socket # NoSocket
  /\ \E s \in Session : session[s].seat = "unborn"
  /\ socket' = NoSocket /\ wire' = <<>>
  /\ UNCHANGED <<session, saved, game, call, page, picker, amiss>>

\* handle_ws notices, perhaps after the page has come back, and leaves a ghost if the
\* session has a profile.
Depart(s) ==
  /\ session[s].seat = "live" /\ socket.sid # s
  /\ session' = [session EXCEPT ![s].seat =
                   IF session[s].bound = NoProfile THEN "gone" ELSE "ghost"]
  /\ UNCHANGED <<saved, game, socket, wire, call, page, picker, amiss>>

ExpireGhost(s) ==
  /\ session[s].seat = "ghost"
  /\ session' = [session EXCEPT ![s] = [seat |-> "gone", bound |-> NoProfile]]
  /\ UNCHANGED <<saved, game, socket, wire, call, page, picker, amiss>>

\* Mutant of Mine: every ProfileChanged is taken.
Anyones(e) == TRUE

\* Events for other sessions are passed over.
Mine(e) == e.sid = page.sid

\* The handler of the socket's messages. A profile takes the picker off the screen.
Receive ==
  /\ wire # <<>>
  /\ wire' = Tail(wire)
  /\ LET e == Head(wire) IN
       \/ /\ e.kind = "welcome"
          /\ page' = [page EXCEPT !.sid = e.sid] /\ UNCHANGED picker
       \/ /\ e.kind = "profile" /\ Mine(e)
          /\ page' = [page EXCEPT !.signed = e.profile, !.hint = e.profile]
          /\ picker' = IF e.profile = NoProfile THEN picker ELSE Grid
       \/ /\ e.kind = "offer" /\ Mine(e)
          /\ page' = [page EXCEPT !.offer = e.profile] /\ UNCHANGED picker
       \/ /\ e.kind = "game"
          /\ page' = [page EXCEPT !.game = e.on] /\ UNCHANGED picker
       \/ /\ e.kind \in {"profile", "offer"} /\ ~Mine(e)
          /\ UNCHANGED <<page, picker>>
  /\ UNCHANGED <<server, call, amiss>>

Next ==
  \/ \E p \in Profile : Pick(p) \/ SaveLayout(p)
  \/ Back \/ EnterHub \/ Resume
  \/ \E pin \in {"none", "right", "wrong"} : Type(pin)
  \/ \E manage \in BOOLEAN : GiveUp(manage)
  \/ \E c \in Call : \/ Submit(c) \/ Answered(c) \/ Fails(c) \/ StartFresh(c)
                     \/ Refuse(c) \/ Bind(c) \/ LookedAtAll(c) \/ Announce(c)
                     \/ Offer(c) \/ ClearResume(c)
                     \/ \E p \in Profile : ToggleKaos(c, p)
                     \/ \E s \in Session : Look(c, s)
  \/ GameChanges \/ TellProfile \/ Prompt \/ Subscribe \/ Drop \/ Receive
  \/ \E s \in Session : Connect(s) \/ Depart(s) \/ ExpireGhost(s)

Spec == Init /\ [][Next]_signInVars
-----------------------------------------------------------------------------
\* The page is served, and nothing is under way that could change who is signed in.
Settled ==
  /\ Serving /\ page.sid = socket.sid /\ wire = <<>>
  /\ \A c \in Call : call[c].kind \notin {"unlock", "kaos"}

\* When all is quiet, the page acts as the player its session is signed in as, or as
\* nobody, and would come back as that player (unlock_profile, handle_ws, ws.rs),
\* though requests are lost, doubled and late, the socket has dropped, and unlocks
\* have overtaken the handshake; unless what the page was told last was overtaken by
\* a bind whose event was late, not sent, or broadcast before handle_ws subscribed.
SettledAgrees ==
  Settled /\ ~amiss =>
    /\ page.signed \in {NoProfile, session[socket.sid].bound}
    /\ page.hint = session[socket.sid].bound

\* A wrong PIN is tried once: as long as its digits are shown, its answer is awaited,
\* although the PIN entry submits whatever it shows when it is idle (PinEntry's effect).
TriedOnce == picker.tried => picker.busy # NoCall

\* A player who is offered a layout is offered their own (ResumePrompt).
OfferIsForPlayer == OfferShown /\ ~Locked => page.offer = page.signed

\* The digits that were wrong wait for the refusal of the request they were sent with.
RefusalIsAwaited ==
  picker.tried => \E c \in Call :
    picker.busy = c /\ call[c].kind = "unlock" /\ ~call[c].right /\ call[c].pc \in {"sent", "refused"}

\* An event on its way that will tell the page who is signed in.
Tells(i) == wire[i].kind = "profile" /\ wire[i].sid = socket.sid
LastTells(i) == Tells(i) /\ \A j \in DOMAIN wire : Tells(j) => j <= i

\* The page listens for the session of its socket, or is about to be welcomed to it.
ListensForSocket ==
  \/ page.sid = socket.sid /\ \A i \in DOMAIN wire : wire[i].kind # "welcome"
  \/ /\ wire # <<>> /\ wire[1].kind = "welcome" /\ wire[1].sid = socket.sid
     /\ \A i \in DOMAIN wire \ {1} : wire[i].kind # "welcome"

\* What the page will have heard last is this profile.
WillShow(p) ==
  IF \E i \in DOMAIN wire : Tells(i)
  THEN \E i \in DOMAIN wire : LastTells(i) /\ wire[i].profile = p
  ELSE page.hint = p

WillAgree == WillShow(session[socket.sid].bound)
AsTold    == WillShow(socket.profile)

\* A handler has bound another and has yet to say so.
ToBeTold == \E c \in Call : At(c, "unlock", "bound") /\ call[c].sid = socket.sid

\* Once the page was told, it will show the session's profile, or a handler has yet to
\* tell it of another, or it has gone amiss; until it is served, what it was told.
AgreeInv ==
  /\ page.signed \in {NoProfile, page.hint}
  /\ socket.sid # 0 =>
       /\ session[socket.sid].seat = "live" /\ ListensForSocket
       /\ socket.at \notin {"reclaimed", "admitted"} => amiss \/ ToBeTold \/ WillAgree
       /\ socket.at \in {"prompting", "told"} => AsTold
=============================================================================
