---------------------------- MODULE PhoneProofs ----------------------------
(***************************************************************************)
(* The phone, for any number of profiles, requests, sessions, writers and  *)
(* events on their way: when all is quiet the page agrees with the server  *)
(* on who is signed in, a wrong PIN is tried once, the page has one socket *)
(* or timer, it shows what the server has, and a taunt once, but for the   *)
(* mishaps that the histories note.                                        *)
(***************************************************************************)
EXTENDS SignIn, FiniteSetTheorems, TLAPS

\* Requests, seats, the page and its picker, and events.
Calls == [kind : {"none", "unlock", "kaos", "fresh"}, profile : Player,
          sid : Session \cup {0}, right : BOOLEAN, left : SUBSET Session,
          pc : {"idle", "sent", "bound", "told", "ok", "refused"}]
Seats == [seat : {"unborn", "live", "ghost", "gone"}, bound : Player]
Pages == [signed : Player, hint : Player, sid : Session \cup {0}, offer : Player,
          game : BOOLEAN, gate : BOOLEAN]
Pickers == [at : {"grid", "pin", "hub"}, picked : Player, pin : {"none", "right", "wrong"},
            tried : BOOLEAN, busy : Call \cup {NoCall}]

Sockets == [sid : Session \cup {0}, profile : Player,
            at : {"down", "reclaimed", "admitted", "prompting", "told", "serving"}]

Heard == [kind : {"welcome", "profile", "offer"}, sid : Session \cup {0}, profile : Player]
         \cup [kind : {"game"}, on : BOOLEAN]

\* TypeOK but for the bounds; a socket that is up has a session, and no other.
Types ==
  /\ session \in [Session -> Seats]
  /\ socket \in Sockets /\ (socket.at = "down" <=> socket.sid = 0)
  /\ wire \in Seq(Heard)
  /\ call \in [Call -> Calls]
  /\ page \in Pages /\ picker \in Pickers /\ amiss \in BOOLEAN

\* Sessions are numbered, "no request" is none.
Names == LastSession \in Nat /\ NoCall \notin Call

\* No session is the one that means none.
LEMMA SessionsAreNumbers == ASSUME Names PROVE 0 \notin Session /\ Session \subseteq Nat
  BY DEF Names, Session

\* The values the steps assign.
LEMMA Values ==
  /\ Idle \in Calls /\ Idle.pc = "idle" /\ Idle.kind = "none"
  /\ Grid \in Pickers /\ Grid.tried = FALSE
  /\ \A p \in Profile : PinFor(p) \in Pickers /\ PinFor(p).tried = FALSE
  /\ NoSocket \in Sockets /\ NoSocket.sid = 0 /\ NoSocket.at = "down"
<1>1. Idle \in Calls /\ Idle.pc = "idle" /\ Idle.kind = "none"
  BY DEF Idle, Calls, Player
<1>2. Grid \in Pickers /\ Grid.tried = FALSE
  BY DEF Grid, Pickers, Player
<1>3. \A p \in Profile : PinFor(p) \in Pickers /\ PinFor(p).tried = FALSE
  BY DEF PinFor, Grid, Pickers, Player
<1>4. NoSocket \in Sockets /\ NoSocket.sid = 0 /\ NoSocket.at = "down"
  BY DEF NoSocket, Sockets, Player
<1> QED
  BY <1>1, <1>2, <1>3, <1>4

\* The initial state has its types.
LEMMA TypesInit == Init => Types
<1> SUFFICES ASSUME Init PROVE Types
  OBVIOUS
<1>1. session \in [Session -> Seats]
  BY DEF Init, Seats, Player
<1>2. page \in Pages
  BY DEF Init, Pages, Player
<1>3. wire \in Seq(Heard)
  BY DEF Init
<1> QED
  BY <1>1, <1>2, <1>3, Values DEF Init, Types

\* A request that is asked, or goes on.
LEMMA CallTypes ==
  ASSUME Types, NEW c \in Call
  PROVE  /\ \A kind \in {"unlock", "kaos", "fresh"}, p \in Player : Ask(c, kind, p) =>
              /\ call' \in [Call -> Calls] /\ call[c] = Idle
              /\ call'[c].kind = kind /\ call'[c].pc = "sent"
              /\ call'[c].right = (picker.pin = "right")
              /\ \A d \in Call \ {c} : call'[d] = call[d]
         /\ \A pc \in {"sent", "bound", "told", "ok", "refused"} : Goto(c, pc) =>
              /\ call' \in [Call -> Calls]
              /\ call'[c].kind = call[c].kind /\ call'[c].pc = pc
              /\ call'[c].right = call[c].right /\ call'[c].sid = call[c].sid
              /\ \A d \in Call \ {c} : call'[d] = call[d]
         /\ call' = [call EXCEPT ![c] = Idle] =>
              /\ call' \in [Call -> Calls] /\ call'[c] = Idle
              /\ \A d \in Call \ {c} : call'[d] = call[d]
<1>1. ASSUME NEW kind \in {"unlock", "kaos", "fresh"}, NEW p \in Player, Ask(c, kind, p)
      PROVE  /\ call' \in [Call -> Calls] /\ call[c] = Idle
             /\ call'[c].kind = kind /\ call'[c].pc = "sent"
             /\ call'[c].right = (picker.pin = "right")
             /\ \A d \in Call \ {c} : call'[d] = call[d]
  <2>1. PICK new : new = [Idle EXCEPT !.kind = kind, !.profile = p, !.pc = "sent",
                           !.sid = page.sid, !.right = picker.pin = "right", !.left = Session]
    OBVIOUS
  <2>2. call' = [call EXCEPT ![c] = new] /\ call[c] = Idle
    BY <1>1, <2>1, Zenon DEF Ask
  <2>3. page.sid \in Session \cup {0}
    BY DEF Types, Pages
  <2>4. /\ new \in Calls /\ new.kind = kind /\ new.pc = "sent"
        /\ new.right = (picker.pin = "right")
    <3>1. Idle \in Calls
      BY Values
    <3> QED
      BY <2>1, <2>3, <3>1 DEF Calls
  <2>5. /\ call' \in [Call -> Calls] /\ call'[c] = new
        /\ \A d \in Call \ {c} : call'[d] = call[d]
    BY <2>2, <2>4 DEF Types
  <2> QED
    BY <2>2, <2>4, <2>5, Zenon
<1>2. ASSUME NEW pc \in {"sent", "bound", "told", "ok", "refused"}, Goto(c, pc)
      PROVE  /\ call' \in [Call -> Calls]
             /\ call'[c].kind = call[c].kind /\ call'[c].pc = pc
             /\ call'[c].right = call[c].right /\ call'[c].sid = call[c].sid
             /\ \A d \in Call \ {c} : call'[d] = call[d]
  BY <1>2 DEF Goto, Types, Calls
<1>3. ASSUME call' = [call EXCEPT ![c] = Idle]
      PROVE  /\ call' \in [Call -> Calls] /\ call'[c] = Idle
             /\ \A d \in Call \ {c} : call'[d] = call[d]
  BY <1>3, Values DEF Types
<1> QED
  BY <1>1, <1>2, <1>3

\* An event that is put on the socket goes to the end of what is on its way; one that
\* is broadcast does if the page is served.
LEMMA WireTypes ==
  ASSUME Types, NEW e \in Heard
  PROVE  /\ Put(e) => /\ wire' \in Seq(Heard)
                      /\ DOMAIN wire' = DOMAIN wire \cup {Len(wire) + 1}
                      /\ wire'[Len(wire) + 1] = e
                      /\ \A i \in DOMAIN wire : wire'[i] = wire[i] /\ i < Len(wire) + 1
         /\ Send(e) => wire' \in Seq(Heard)
<1>1. wire \in Seq(Heard) /\ Len(wire) \in Nat /\ DOMAIN wire = 1 .. Len(wire)
  BY DEF Types
<1>2. ASSUME Put(e)
      PROVE  /\ wire' \in Seq(Heard)
             /\ DOMAIN wire' = DOMAIN wire \cup {Len(wire) + 1}
             /\ wire'[Len(wire) + 1] = e
             /\ \A i \in DOMAIN wire : wire'[i] = wire[i] /\ i < Len(wire) + 1
  <2>1. wire' = Append(wire, e)
    BY <1>2 DEF Put
  <2>2. wire' \in Seq(Heard) /\ Len(wire') = Len(wire) + 1
    BY <1>1, <2>1
  <2>3. DOMAIN wire' = 1 .. Len(wire) + 1
    BY <1>1, <2>2
  <2>4. DOMAIN wire' = DOMAIN wire \cup {Len(wire) + 1}
    BY <1>1, <2>3
  <2>5. wire'[Len(wire) + 1] = e
    BY <1>1, <2>1
  <2>6. \A i \in DOMAIN wire : wire'[i] = wire[i] /\ i < Len(wire) + 1
    BY <1>1, <2>1
  <2> QED
    BY <2>2, <2>4, <2>5, <2>6
<1> QED
  BY <1>1, <1>2 DEF Send

\* An event that is received is the first of them.
LEMMA TailTypes ==
  ASSUME Types, wire # <<>>, wire' = Tail(wire)
  PROVE  /\ wire' \in Seq(Heard) /\ Head(wire) = wire[1] /\ Head(wire) \in Heard /\ 1 \in DOMAIN wire
         /\ \A i \in DOMAIN wire' : i + 1 \in DOMAIN wire /\ wire'[i] = wire[i + 1] /\ i + 1 # 1
         /\ \A i \in DOMAIN wire \ {1} : i - 1 \in DOMAIN wire' /\ wire'[i - 1] = wire[i]
         /\ DOMAIN wire \subseteq Nat /\ DOMAIN wire' \subseteq Nat
  BY DEF Types

\* Every step keeps the types.
LEMMA TypesNext == ASSUME Names, Types, [Next]_signInVars PROVE Types'
<1>0. /\ session \in [Session -> Seats] /\ socket \in Sockets /\ wire \in Seq(Heard)
      /\ call \in [Call -> Calls] /\ page \in Pages /\ picker \in Pickers
      /\ amiss \in BOOLEAN
  BY DEF Types
<1> USE DEF server, Locked, At
<1>1. ASSUME NEW p \in Profile, Pick(p) PROVE Types'
  BY <1>1, Values DEF Pick, Types
<1>2. ASSUME NEW p \in Profile, SaveLayout(p) PROVE Types'
  BY <1>2 DEF SaveLayout, Types
<1>3. CASE Back
  <2>1. page' \in Pages
    <3>1. (page.gate /\ picker.at # "grid") \in BOOLEAN
      OBVIOUS
    <3> QED
      BY <1>0, <1>3, <3>1 DEF Back, Pages
  <2> QED
    BY <1>3, <2>1, Values DEF Back, Types
<1>4. CASE EnterHub
  BY <1>0, <1>4, Values DEF EnterHub, Types, Pages, Pickers
<1>5. CASE Resume
  BY <1>0, <1>5 DEF Resume, Types, Pages, Player
<1>6. ASSUME NEW pin \in {"none", "right", "wrong"}, Type(pin) PROVE Types'
  BY <1>0, <1>6 DEF Type, Types, Pickers
<1>7. ASSUME NEW manage \in BOOLEAN, GiveUp(manage) PROVE Types'
  <2>1. page' \in Pages
    BY <1>0, <1>7 DEF GiveUp, Pages, Player
  <2>2. picker' \in Pickers
    BY <1>0, <1>7, Values DEF GiveUp
  <2> QED
    BY <1>7, <2>1, <2>2 DEF GiveUp, Types
<1>8. ASSUME NEW c \in Call PROVE Submit(c) => Types'
  <2> SUFFICES ASSUME Submit(c) PROVE Types'
    OBVIOUS
  <2>1. call' \in [Call -> Calls]
    BY <1>0, CallTypes DEF Submit, Pickers
  <2>2. picker' \in Pickers
    BY <1>0 DEF Submit, Pickers
  <2> QED
    BY <2>1, <2>2 DEF Submit, Types
<1>9. ASSUME NEW c \in Call PROVE Answered(c) \/ Fails(c) => Types'
  <2> SUFFICES ASSUME Answered(c) \/ Fails(c) PROVE Types'
    OBVIOUS
  <2>1. call' \in [Call -> Calls]
    BY <1>0, CallTypes DEF Answered, Fails
  <2>2. Refused(c) \in Pickers /\ [picker EXCEPT !.busy = NoCall] \in Pickers
    BY <1>0 DEF Refused, Pickers
  <2> QED
    BY <1>0, <2>1, <2>2 DEF Answered, Fails, Types
<1>10. ASSUME NEW c \in Call PROVE StartFresh(c) => Types'
  <2> SUFFICES ASSUME StartFresh(c) PROVE Types'
    OBVIOUS
  <2>1. call' \in [Call -> Calls]
    BY <1>0, CallTypes DEF StartFresh, Pages
  <2>2. page' \in Pages
    BY <1>0 DEF StartFresh, Pages, Player
  <2> QED
    BY <2>1, <2>2 DEF StartFresh, Types
<1>11. ASSUME NEW c \in Call, NEW p \in Profile PROVE ToggleKaos(c, p) => Types'
  <2> SUFFICES ASSUME ToggleKaos(c, p) PROVE Types'
    OBVIOUS
  <2>1. call' \in [Call -> Calls]
    BY CallTypes DEF ToggleKaos, Player
  <2> QED
    BY <2>1 DEF ToggleKaos, Types
<1>12. ASSUME NEW c \in Call PROVE Refuse(c) \/ LookedAtAll(c) \/ ClearResume(c) => Types'
  <2> SUFFICES ASSUME Refuse(c) \/ LookedAtAll(c) \/ ClearResume(c) PROVE Types'
    OBVIOUS
  <2>1. call' \in [Call -> Calls]
    BY CallTypes DEF Refuse, LookedAtAll, ClearResume
  <2> QED
    BY <2>1 DEF Refuse, LookedAtAll, ClearResume, Types
<1>13. ASSUME NEW c \in Call PROVE Bind(c) => Types'
  <2> SUFFICES ASSUME Bind(c) PROVE Types'
    OBVIOUS
  <2>1. call' \in [Call -> Calls]
    BY CallTypes DEF Bind
  <2>2. call[c].profile \in Player /\ call[c].sid \in Session
    BY <1>0 DEF Bind, Calls
  <2>3. session' \in [Session -> Seats]
    BY <1>0, <2>2 DEF Bind, Seats
  <2> QED
    BY <2>1, <2>3 DEF Bind, Types
<1>14. ASSUME NEW c \in Call, NEW s \in Session PROVE Look(c, s) => Types'
  <2> SUFFICES ASSUME Look(c, s) PROVE Types'
    OBVIOUS
  <2>1. PICK pc \in {"bound", "sent"} :
          call' = [call EXCEPT ![c].left = @ \ {s}, ![c].sid = s, ![c].pc = pc]
    BY Zenon DEF Look
  <2>2. PICK new : new = [call[c] EXCEPT !.left = @ \ {s}, !.sid = s, !.pc = pc]
    OBVIOUS
  <2>3. call' = [call EXCEPT ![c] = new]
    BY <2>1, <2>2
  <2>4. new \in Calls
    BY <1>0, <2>2 DEF Calls
  <2>5. call' \in [Call -> Calls]
    BY <1>0, <2>3, <2>4
  <2> QED
    BY <2>5 DEF Look, Types
<1>15. ASSUME NEW c \in Call PROVE Announce(c) \/ Offer(c) => Types'
  <2> SUFFICES ASSUME Announce(c) \/ Offer(c) PROVE Types'
    OBVIOUS
  <2>1. call' \in [Call -> Calls]
    BY CallTypes DEF Announce, Offer
  <2>2. wire' \in Seq(Heard)
    <3>1. /\ [kind |-> "profile", sid |-> call[c].sid, profile |-> call[c].profile] \in Heard
          /\ [kind |-> "offer", sid |-> call[c].sid, profile |-> call[c].profile] \in Heard
      BY <1>0 DEF Calls, Heard
    <3> QED
      BY <1>0, <3>1, WireTypes DEF Announce, Offer
  <2> QED
    BY <2>1, <2>2 DEF Announce, Offer, Types
<1>16. CASE GameChanges
  <2>1. [kind |-> "game", on |-> ~game] \in Heard
    BY DEF Heard
  <2>2. wire' \in Seq(Heard)
    BY <1>16, <2>1, WireTypes DEF GameChanges
  <2> QED
    BY <1>16, <2>2 DEF GameChanges, Types
<1>17. CASE Drop
  BY <1>17, Values DEF Drop, Types
<1>18. CASE Receive
  <2>1. wire' \in Seq(Heard) /\ Head(wire) \in Heard
    BY <1>18, TailTypes DEF Receive
  <2>2. page' \in Pages
    BY <1>0, <1>18, <2>1 DEF Receive, Pages, Heard
  <2>3. picker' \in Pickers
    BY <1>0, <1>18, Values DEF Receive
  <2> QED
    BY <1>18, <2>1, <2>2, <2>3 DEF Receive, Types
<1>19. ASSUME NEW s \in Session, Connect(s) PROVE Types'
  <2>1. session' \in [Session -> Seats]
    BY <1>0, <1>19 DEF Connect, Seats
  <2>2. wire' \in Seq(Heard)
    <3>1. [kind |-> "welcome", sid |-> s, profile |-> NoProfile] \in Heard
      BY DEF Heard, Player
    <3> QED
      BY <1>19, <3>1 DEF Connect
  <2>3. socket' \in Sockets /\ socket'.sid # 0 /\ socket'.at # "down"
    <3>1. PICK at \in {"reclaimed", "admitted"} : socket' = [NoSocket EXCEPT !.sid = s, !.at = at]
      BY <1>19 DEF Connect
    <3> QED
      BY <3>1, Values, SessionsAreNumbers DEF Sockets
  <2> QED
    BY <1>19, <2>1, <2>2, <2>3 DEF Connect, Types
<1>20. ASSUME NEW s \in Session, Depart(s) \/ ExpireGhost(s) PROVE Types'
  <2>1. session' \in [Session -> Seats]
    BY <1>0, <1>20 DEF Depart, ExpireGhost, Seats, Player
  <2> QED
    BY <1>20, <2>1 DEF Depart, ExpireGhost, Types
<1>21. CASE UNCHANGED signInVars
  BY <1>21 DEF signInVars, Types
<1>22. CASE TellProfile
  <2>1. socket.sid \in Session /\ session[socket.sid].bound \in Player
    BY <1>0, <1>22 DEF TellProfile, Types, Sockets, Seats
  <2>2. socket' \in Sockets /\ socket'.sid # 0 /\ socket'.at # "down"
    BY <1>0, <1>22, <2>1, SessionsAreNumbers DEF TellProfile, Sockets
  <2>3. wire' \in Seq(Heard)
    BY <1>22, <2>1, WireTypes DEF TellProfile, Heard
  <2> QED
    BY <1>22, <2>2, <2>3 DEF TellProfile, Types
<1>23. CASE Prompt \/ Subscribe
  <2>1. socket' \in Sockets /\ socket'.sid # 0 /\ socket'.at # "down"
    BY <1>0, <1>23 DEF Prompt, Subscribe, Types, Sockets
  <2>2. [kind |-> "offer", sid |-> socket.sid, profile |-> socket.profile] \in Heard
    BY <1>0 DEF Heard, Sockets
  <2>3. wire' \in Seq(Heard)
    BY <1>0, <1>23, <2>2, WireTypes DEF Prompt, Subscribe
  <2> QED
    BY <1>23, <2>1, <2>3 DEF Prompt, Subscribe, Types
<1> QED
  BY <1>1, <1>2, <1>3, <1>4, <1>5, <1>6, <1>7, <1>8, <1>9, <1>10, <1>11, <1>12, <1>13, <1>14,
     <1>15, <1>16, <1>17, <1>18, <1>19, <1>20, <1>21, <1>22, <1>23 DEF Next

-----------------------------------------------------------------------------
(***************************************************************************)
(* A wrong PIN is tried once.                                              *)
(***************************************************************************)
\* At the start nothing is shown.
LEMMA RefusalInit == Init => RefusalIsAwaited
  BY Values DEF Init, RefusalIsAwaited

\* A request goes on as it was: the wrong digits still wait for its refusal.
LEMMA StillAwaited ==
  ASSUME Types, RefusalIsAwaited, picker' = picker, NEW c \in Call,
         \A d \in Call \ {c} : call'[d] = call[d],
         picker.tried /\ picker.busy = c /\ call[c].kind = "unlock" /\ ~call[c].right
           /\ call[c].pc \in {"sent", "refused"} =>
           call'[c].kind = "unlock" /\ ~call'[c].right /\ call'[c].pc \in {"sent", "refused"}
  PROVE  RefusalIsAwaited'
  BY DEF RefusalIsAwaited

\* Every step keeps wrong digits waiting, or takes them off the screen.
LEMMA RefusalNext == ASSUME Types, Names, RefusalIsAwaited, [Next]_signInVars PROVE RefusalIsAwaited'
<1>0. /\ call \in [Call -> Calls] /\ picker \in Pickers
  BY DEF Types
<1> USE DEF server
<1>1. ASSUME NEW p \in Profile, Pick(p) PROVE RefusalIsAwaited'
  BY <1>1, Values DEF Pick, RefusalIsAwaited
<1>2. ASSUME picker' = Grid PROVE RefusalIsAwaited'
  BY <1>2, Values DEF RefusalIsAwaited
<1>3. ASSUME picker' = picker, call' = call PROVE RefusalIsAwaited'
  BY <1>3 DEF RefusalIsAwaited
<1>4. ASSUME NEW pin \in {"none", "right", "wrong"}, Type(pin) PROVE RefusalIsAwaited'
  BY <1>0, <1>4 DEF Type, RefusalIsAwaited, Pickers
<1>5. ASSUME NEW manage \in BOOLEAN, GiveUp(manage) PROVE RefusalIsAwaited'
  BY <1>2, <1>3, <1>5 DEF GiveUp
<1>6. ASSUME NEW c \in Call, Submit(c) PROVE RefusalIsAwaited'
  <2>1. /\ picker'.tried = (picker.pin = "wrong") /\ picker'.busy = c
    BY <1>0, <1>6 DEF Submit, Pickers
  <2>2. /\ call'[c].kind = "unlock" /\ call'[c].pc = "sent"
        /\ call'[c].right = (picker.pin = "right")
    BY <1>0, <1>6, CallTypes DEF Submit, Pickers
  <2> QED
    BY <2>1, <2>2 DEF RefusalIsAwaited
<1>7. ASSUME NEW c \in Call, Answered(c) PROVE RefusalIsAwaited'
  <2>1. /\ call'[c] = Idle /\ \A d \in Call \ {c} : call'[d] = call[d]
    BY <1>7, CallTypes DEF Answered
  <2>2. CASE picker.busy = c
    <3>1. CASE call[c].pc = "refused"
      BY <1>0, <1>7, <2>2, <3>1 DEF Answered, Refused, RefusalIsAwaited, Pickers
    <3>2. CASE call[c].pc = "ok"
      <4>1. ~picker.tried
        BY <2>2, <3>2 DEF RefusalIsAwaited
      <4>2. picker'.tried = picker.tried
        BY <1>0, <1>7, <2>2, <3>2 DEF Answered, Pickers
      <4> QED
        BY <4>1, <4>2 DEF RefusalIsAwaited
    <3> QED
      BY <1>7, <3>1, <3>2 DEF Answered
  <2>3. CASE picker.busy # c
    <3>1. picker' = picker
      BY <1>7, <2>3 DEF Answered, Refused
    <3> QED
      BY <2>1, <2>3, <3>1, StillAwaited
  <2> QED
    BY <2>2, <2>3
<1>8. ASSUME NEW c \in Call, Fails(c) PROVE RefusalIsAwaited'
  <2>1. CASE picker.busy = c
    BY <1>0, <1>8, <2>1 DEF Fails, Refused, RefusalIsAwaited, Pickers
  <2>2. CASE picker.busy # c
    <3>1. picker' = picker
      BY <1>8, <2>2 DEF Fails, Refused
    <3>2. \A d \in Call \ {c} : call'[d] = call[d]
      BY <1>8, CallTypes DEF Fails
    <3> QED
      BY <2>2, <3>1, <3>2, StillAwaited
  <2> QED
    BY <2>1, <2>2
<1>9. ASSUME NEW c \in Call, NEW kind \in {"kaos", "fresh"}, NEW p \in Player, Ask(c, kind, p),
             picker' = picker
      PROVE  RefusalIsAwaited'
  <2>1. /\ call[c] = Idle /\ \A d \in Call \ {c} : call'[d] = call[d]
    BY <1>9, CallTypes
  <2> QED
    BY <1>9, <2>1, StillAwaited, Values
<1>10. ASSUME NEW c \in Call, StartFresh(c) PROVE RefusalIsAwaited'
  <2>1. page.signed \in Player
    BY DEF Types, Pages
  <2> QED
    BY <1>3, <1>9, <1>10, <2>1 DEF StartFresh
<1>11. ASSUME NEW c \in Call, NEW p \in Profile, ToggleKaos(c, p) PROVE RefusalIsAwaited'
  BY <1>9, <1>11 DEF ToggleKaos, Player
<1>12. ASSUME NEW c \in Call, Refuse(c) PROVE RefusalIsAwaited'
  <2>1. /\ call'[c].kind = call[c].kind /\ call'[c].pc = "refused" /\ call'[c].right = call[c].right
        /\ \A d \in Call \ {c} : call'[d] = call[d]
    BY <1>12, CallTypes DEF Refuse
  <2> QED
    BY <1>12, <2>1, StillAwaited DEF Refuse
<1>13. ASSUME NEW c \in Call, picker' = picker, \A d \in Call \ {c} : call'[d] = call[d],
              ~(call[c].kind = "unlock" /\ ~call[c].right /\ call[c].pc \in {"sent", "refused"})
       PROVE  RefusalIsAwaited'
  BY <1>13, StillAwaited
<1>14. ASSUME NEW c \in Call, Bind(c) \/ LookedAtAll(c) \/ Announce(c) \/ Offer(c) \/ ClearResume(c)
       PROVE  RefusalIsAwaited'
  <2>1. \A d \in Call \ {c} : call'[d] = call[d]
    BY <1>14, CallTypes DEF Bind, LookedAtAll, Announce, Offer, ClearResume
  <2> QED
    BY <1>13, <1>14, <2>1 DEF Bind, LookedAtAll, Announce, Offer, ClearResume, At
<1>15. ASSUME NEW c \in Call, NEW s \in Session, Look(c, s) PROVE RefusalIsAwaited'
  <2>1. PICK pc \in {"bound", "sent"} :
          call' = [call EXCEPT ![c].left = @ \ {s}, ![c].sid = s, ![c].pc = pc]
    BY <1>15, Zenon DEF Look
  <2>2. \A d \in Call \ {c} : call'[d] = call[d]
    BY <1>0, <2>1
  <2> QED
    BY <1>13, <1>15, <2>2 DEF Look, At
<1>16. ASSUME Receive PROVE RefusalIsAwaited'
  BY <1>2, <1>3, <1>16 DEF Receive
<1>17. ASSUME \/ Resume \/ GameChanges \/ TellProfile \/ Prompt \/ Subscribe \/ Drop
              \/ UNCHANGED signInVars
       PROVE  RefusalIsAwaited'
  BY <1>3, <1>17 DEF Resume, GameChanges, TellProfile, Prompt, Subscribe, Drop, signInVars
<1>18. ASSUME NEW s \in Session, Connect(s) \/ Depart(s) \/ ExpireGhost(s) PROVE RefusalIsAwaited'
  BY <1>3, <1>18 DEF Connect, Depart, ExpireGhost
<1>19. ASSUME NEW p \in Profile, SaveLayout(p) PROVE RefusalIsAwaited'
  BY <1>3, <1>19 DEF SaveLayout
<1>20. ASSUME Back PROVE RefusalIsAwaited'
  BY <1>2, <1>20 DEF Back
<1>21. ASSUME EnterHub PROVE RefusalIsAwaited'
  BY <1>21, Values DEF EnterHub, RefusalIsAwaited, Grid
<1> QED
  BY <1>1, <1>4, <1>5, <1>6, <1>7, <1>8, <1>10, <1>11, <1>12, <1>14, <1>15, <1>16, <1>17,
     <1>18, <1>19, <1>20, <1>21 DEF Next

\* For any number of requests, sessions and events on their way, and requests lost,
\* answered late or abandoned by the screen, the PIN entry submits a wrong PIN once,
\* although it submits whatever it shows when idle (PinEntry's effect).
THEOREM TriedOnceCorrect == ASSUME Names PROVE Spec => []TriedOnce
<1>1. Types /\ RefusalIsAwaited => TriedOnce
  BY DEF Names, RefusalIsAwaited, TriedOnce
<1> QED
  BY TypesInit, TypesNext, RefusalInit, RefusalNext, <1>1, PTL DEF Spec

-----------------------------------------------------------------------------
(***************************************************************************)
(* The page agrees with the server when all is quiet.                      *)
(***************************************************************************)
\* There is no socket at the start.
LEMMA AgreeInit == Init => AgreeInv
  BY Values DEF Init, AgreeInv

\* What the page will show, and whom it listens for, does not change while nothing is
\* sent or received.
LEMMA ShownStill ==
  ASSUME wire' = wire, socket'.sid = socket.sid,
         page'.sid = page.sid, page'.hint = page.hint
  PROVE  /\ ListensForSocket => ListensForSocket'
         /\ \A p \in Player : WillShow(p) => WillShow(p)'
  BY DEF ListensForSocket, WillShow, LastTells, Tells

\* Where there is an event there are some.
LEMMA SomethingOnItsWay == ASSUME NEW w, NEW i \in DOMAIN w PROVE w # <<>>
<1> SUFFICES ASSUME w = <<>> PROVE FALSE
  OBVIOUS
<1>1. w \in Seq({}) /\ Len(w) = 0
  OBVIOUS
<1> QED
  BY <1>1

\* An event that is put behind the others changes what the page will show if it tells,
\* to what it tells, and else does not.
LEMMA ShownBehind ==
  ASSUME Types, NEW e \in Heard, Put(e), e.kind # "welcome",
         socket'.sid = socket.sid, page'.sid = page.sid, page'.hint = page.hint
  PROVE  /\ ListensForSocket => ListensForSocket'
         /\ e.kind = "profile" /\ e.sid = socket.sid => WillShow(e.profile)'
         /\ ~(e.kind = "profile" /\ e.sid = socket.sid) =>
              \A p \in Player : WillShow(p) => WillShow(p)'
<1>0. PICK n : n = Len(wire) + 1
  OBVIOUS
<1>1. /\ DOMAIN wire' = DOMAIN wire \cup {n} /\ wire'[n] = e
      /\ \A i \in DOMAIN wire : wire'[i] = wire[i] /\ i # n /\ i <= n
      /\ n <= n /\ wire' # <<>>
      /\ wire # <<>> => 1 \in DOMAIN wire
  <2>1. /\ wire \in Seq(Heard) /\ Len(wire) \in Nat /\ DOMAIN wire = 1 .. Len(wire)
    BY DEF Types
  <2>2. /\ DOMAIN wire' = DOMAIN wire \cup {n} /\ wire'[n] = e
        /\ \A i \in DOMAIN wire : wire'[i] = wire[i] /\ i < n
    BY <1>0, WireTypes
  <2>3. \A i \in DOMAIN wire : i # n /\ i <= n
    BY <1>0, <2>1, <2>2
  <2>4. wire # <<>> => 1 \in DOMAIN wire
    BY <2>1
  <2>5. wire' # <<>>
    BY <2>2, SomethingOnItsWay
  <2> QED
    BY <1>0, <2>1, <2>2, <2>3, <2>4, <2>5
<1>2. /\ \A i \in DOMAIN wire : Tells(i)' <=> Tells(i)
      /\ Tells(n)' <=> e.kind = "profile" /\ e.sid = socket.sid
  BY <1>1 DEF Tells
<1>3. ListensForSocket => ListensForSocket'
  BY <1>1 DEF ListensForSocket
<1>4. ASSUME e.kind = "profile", e.sid = socket.sid PROVE WillShow(e.profile)'
  <2>1. LastTells(n)' /\ n \in DOMAIN wire'
    BY <1>1, <1>2, <1>4 DEF LastTells
  <2>2. wire'[n].profile = e.profile
    BY <1>1
  <2> QED
    BY <1>2, <1>4, <2>1, <2>2 DEF WillShow
<1>5. ASSUME ~(e.kind = "profile" /\ e.sid = socket.sid), NEW p \in Player, WillShow(p)
      PROVE  WillShow(p)'
  <2>1. \A i \in DOMAIN wire : LastTells(i) => LastTells(i)'
    BY <1>1, <1>2, <1>5 DEF LastTells
  <2> QED
    BY <1>1, <1>2, <1>5, <2>1 DEF WillShow
<1> QED
  BY <1>3, <1>4, <1>5

\* A step that leaves the socket where it is, whom the page listens for, what it will
\* show and what the session has, keeps the agreement.
LEMMA AgreeKept ==
  ASSUME Types, AgreeInv, socket' = socket, page'.signed \in {NoProfile, page'.hint},
         socket.sid # 0 /\ ListensForSocket =>
           ListensForSocket' /\ \A p \in Player : WillShow(p) => WillShow(p)',
         socket.sid # 0 => /\ session'[socket.sid].seat = "live"
                           /\ session'[socket.sid].bound = session[socket.sid].bound,
         amiss => amiss', socket.sid # 0 /\ ToBeTold => ToBeTold' \/ amiss'
  PROVE  AgreeInv'
<1>1. ASSUME socket.sid # 0
      PROVE  /\ session'[socket'.sid].seat = "live" /\ ListensForSocket'
             /\ socket.at \notin {"reclaimed", "admitted"} => amiss' \/ ToBeTold' \/ WillAgree'
             /\ socket.at \in {"prompting", "told"} => AsTold'
  <2>1. ListensForSocket
    BY <1>1 DEF AgreeInv
  <2>2. PICK p \in Player : p = session[socket.sid].bound /\ p = session'[socket'.sid].bound
    BY <1>1 DEF Types, Seats, Sockets
  <2>3. (WillAgree => WillShow(p)) /\ (WillShow(p)' => WillAgree')
    BY <2>2 DEF WillAgree, WillShow, LastTells, Tells
  <2>4. PICK q \in Player : q = socket.profile /\ q = socket'.profile
    BY DEF Types, Sockets
  <2>5. (AsTold => WillShow(q)) /\ (WillShow(q)' => AsTold')
    BY <2>4 DEF AsTold, WillShow, LastTells, Tells
  <2> QED
    BY <1>1, <2>1, <2>2, <2>3, <2>4, <2>5 DEF AgreeInv
<1> QED
  BY <1>1 DEF AgreeInv

\* A request that is not about to tell goes on: whoever is to tell still is.
LEMMA OthersWait ==
  ASSUME NEW c \in Call, \A d \in Call \ {c} : call'[d] = call[d], socket'.sid = socket.sid,
         ~(At(c, "unlock", "bound") /\ call[c].sid = socket.sid), ToBeTold
  PROVE  ToBeTold'
  BY DEF ToBeTold, At

\* A broadcast that does not tell.
LEMMA AgreeSent ==
  ASSUME Types, AgreeInv, socket' = socket, NEW e \in Heard, Send(e),
         e.kind # "welcome", ~(e.kind = "profile" /\ e.sid = socket.sid),
         page' = page, session' = session,
         amiss => amiss', ToBeTold => ToBeTold'
  PROVE  AgreeInv'
<1>1. ListensForSocket => ListensForSocket' /\ \A p \in Player : WillShow(p) => WillShow(p)'
  <2>1. CASE Put(e)
    BY <2>1, ShownBehind
  <2>2. CASE wire' = wire
    BY <2>2, ShownStill
  <2> QED
    BY <2>1, <2>2 DEF Send
<1>2. socket.sid # 0 => session[socket.sid].seat = "live"
  BY DEF AgreeInv
<1>3. page'.signed \in {NoProfile, page'.hint}
  BY DEF AgreeInv
<1> QED
  BY <1>1, <1>2, <1>3, AgreeKept

\* A request that is asked, or goes on from where it was not about to tell.
LEMMA AgreeAsked ==
  ASSUME Types, AgreeInv, NEW c \in Call, \A d \in Call \ {c} : call'[d] = call[d],
         call'[c] = call[c] \/ ~(At(c, "unlock", "bound") /\ call[c].sid = socket.sid) \/ amiss',
         amiss => amiss', socket' = socket, wire' = wire, page' = page, session' = session
  PROVE  AgreeInv'
<1>1. page'.signed \in {NoProfile, page'.hint}
  BY DEF AgreeInv
<1>2. ToBeTold => ToBeTold' \/ amiss'
  <2>1. CASE call'[c] = call[c]
    BY <2>1 DEF ToBeTold, At
  <2>2. CASE ~(At(c, "unlock", "bound") /\ call[c].sid = socket.sid)
    BY <2>2, OthersWait
  <2> QED
    BY <2>1, <2>2
<1>3. socket.sid # 0 => session[socket.sid].seat = "live"
  BY DEF AgreeInv
<1>4. ListensForSocket => ListensForSocket' /\ \A p \in Player : WillShow(p) => WillShow(p)'
  BY ShownStill
<1> QED
  BY <1>1, <1>2, <1>3, <1>4, AgreeKept

\* The page at most gives the player up.
LEMMA AgreePlain ==
  ASSUME Types, AgreeInv, socket' = socket, wire' = wire, call' = call, session' = session,
         amiss' = amiss,
         \/ page' = page
         \/ page'.sid = page.sid /\ page'.hint = page.hint /\ page'.signed \in {NoProfile, page.signed}
  PROVE  AgreeInv'
<1>1. ToBeTold => ToBeTold'
  BY DEF ToBeTold, At
<1>2. socket.sid # 0 => session[socket.sid].seat = "live"
  BY DEF AgreeInv
<1>3. page'.signed \in {NoProfile, page'.hint}
  BY DEF AgreeInv
<1>4. ListensForSocket => ListensForSocket' /\ \A p \in Player : WillShow(p) => WillShow(p)'
  BY ShownStill
<1> QED
  BY <1>1, <1>2, <1>3, <1>4, AgreeKept

\* A session that is bound anew is to be told of it.
LEMMA AgreeBind == ASSUME Names, Types, AgreeInv, NEW c \in Call, Bind(c) PROVE AgreeInv'
<1>0. /\ session \in [Session -> Seats] /\ call \in [Call -> Calls] /\ socket.sid \in Session \cup {0}
  BY DEF Types, Sockets
<1>1. /\ call'[c].kind = "unlock" /\ call'[c].pc = "bound" /\ call'[c].sid = call[c].sid
      /\ \A d \in Call \ {c} : call'[d] = call[d]
  BY CallTypes DEF Bind, At
<1>2. socket' = socket /\ wire' = wire /\ page' = page /\ amiss' = amiss
  BY DEF Bind
<1>3. /\ socket.sid # 0 => session'[socket.sid].seat = session[socket.sid].seat
      /\ socket.sid # 0 /\ socket.sid # call[c].sid =>
           session'[socket.sid].bound = session[socket.sid].bound
  BY <1>0 DEF Bind, Seats
<1>4. ListensForSocket => ListensForSocket' /\ \A p \in Player : WillShow(p) => WillShow(p)'
  BY <1>2, ShownStill
<1>5. CASE socket.sid # call[c].sid \/ socket.sid = 0
  <2>1. ToBeTold => ToBeTold'
    BY <1>1, <1>2, <1>5, OthersWait DEF Bind, At
  <2>2. page'.signed \in {NoProfile, page'.hint}
    BY <1>2 DEF AgreeInv
  <2>3. socket.sid # 0 => session'[socket.sid].seat = "live"
    BY <1>3 DEF AgreeInv
  <2>4. ~(At(c, "unlock", "bound") /\ call[c].sid = socket.sid)
    BY DEF Bind, At
  <2> QED
    BY <1>2, <1>3, <1>4, <1>5, <2>1, <2>2, <2>3, AgreeKept
<1>6. CASE socket.sid = call[c].sid /\ socket.sid # 0
  <2>1. ToBeTold'
    BY <1>1, <1>2, <1>6 DEF ToBeTold, At
  <2>2. ListensForSocket'
    BY <1>4, <1>6 DEF AgreeInv
  <2>3. AsTold => AsTold'
    BY <1>2 DEF AsTold, WillShow, LastTells, Tells
  <2> QED
    BY <1>2, <1>3, <1>6, <2>1, <2>2, <2>3 DEF AgreeInv
<1> QED
  BY <1>5, <1>6

\* The session's profile is told and heard, or it is another by now, or is not heard by
\* a page that was told of another.
LEMMA AgreeAnnounce == ASSUME Names, Types, AgreeInv, NEW c \in Call, Announce(c) PROVE AgreeInv'
<1>0. call \in [Call -> Calls] /\ socket \in Sockets
  BY DEF Types
<1>1. \A d \in Call \ {c} : call'[d] = call[d]
  BY CallTypes DEF Announce
<1>2. socket' = socket /\ page' = page /\ session' = session
  BY DEF Announce, server
<1>3. PICK e : e = [kind |-> "profile", sid |-> call[c].sid, profile |-> call[c].profile]
  OBVIOUS
<1>4. e \in Heard /\ e.kind = "profile" /\ e.sid = call[c].sid /\ e.profile = call[c].profile /\ Send(e)
  BY <1>0, <1>3 DEF Announce, Calls, Heard
<1>5. CASE socket.sid = 0
  BY <1>2, <1>5 DEF AgreeInv
<1>6. CASE socket.sid # 0 /\ socket.sid # call[c].sid
  <2>1. ToBeTold => ToBeTold'
    BY <1>1, <1>2, <1>6, OthersWait
  <2>2. amiss' = amiss
    BY <1>6 DEF Announce
  <2> QED
    BY <1>2, <1>4, <1>6, <2>1, <2>2, AgreeSent
<1>7. CASE socket.sid # 0 /\ socket.sid = call[c].sid /\ Serving
  <2>1. Put(e)
    BY <1>4, <1>7 DEF Send
  <2>2. ListensForSocket' /\ WillShow(e.profile)'
    BY <1>2, <1>4, <1>7, <2>1, ShownBehind DEF AgreeInv
  <2>3. amiss' = (session[socket.sid].bound # call[c].profile)
    BY <1>7 DEF Announce
  <2>4. amiss' \/ e.profile = session'[socket'.sid].bound
    BY <1>2, <1>4, <2>3
  <2>5. e.profile = session'[socket'.sid].bound => WillAgree'
    BY <2>2 DEF WillAgree, WillShow, LastTells, Tells
  <2> QED
    BY <1>2, <1>7, <2>2, <2>4, <2>5 DEF AgreeInv, Serving
<1>8. CASE socket.sid # 0 /\ socket.sid = call[c].sid /\ ~Serving
  <2>1. wire' = wire
    BY <1>4, <1>8 DEF Send
  <2>2. ListensForSocket' /\ (AsTold => AsTold')
    BY <1>2, <1>8, <2>1, ShownStill DEF AgreeInv, AsTold, WillShow, LastTells, Tells
  <2>3. amiss' = (amiss \/ session[socket.sid].bound # socket.profile)
    BY <1>8 DEF Announce
  <2>4. session[socket.sid].bound = socket.profile /\ AsTold => WillAgree'
    BY <1>2, <2>1 DEF AsTold, WillAgree, WillShow, LastTells, Tells
  <2>5. socket.at \notin {"reclaimed", "admitted"} => socket.at \in {"prompting", "told"}
    BY <1>0, <1>8 DEF Serving, Types, Sockets
  <2> QED
    BY <1>2, <1>8, <2>2, <2>3, <2>4, <2>5 DEF AgreeInv
<1> QED
  BY <1>5, <1>6, <1>7, <1>8

\* The page is welcomed to the session of its socket.
LEMMA AgreeConnect == ASSUME Names, Types, AgreeInv, NEW s \in Session, Connect(s) PROVE AgreeInv'
<1>0. session \in [Session -> Seats]
  BY DEF Types
<1>1. session'[s].seat = "live" /\ page' = page
  BY <1>0 DEF Connect, Seats
<1>2. socket'.sid = s /\ socket'.at \in {"reclaimed", "admitted"}
  <2>1. PICK at \in {"reclaimed", "admitted"} : socket' = [NoSocket EXCEPT !.sid = s, !.at = at]
    BY DEF Connect
  <2> QED
    BY <2>1, Values DEF Sockets
<1>3. /\ wire' # <<>> /\ DOMAIN wire' = {1}
      /\ wire'[1].kind = "welcome" /\ wire'[1].sid = s
  BY DEF Connect
<1>4. ListensForSocket'
  BY <1>2, <1>3 DEF ListensForSocket
<1> QED
  BY <1>1, <1>2, <1>4 DEF AgreeInv

\* The page is told of what its session has.
LEMMA AgreeTell == ASSUME Names, Types, AgreeInv, TellProfile PROVE AgreeInv'
<1>0. socket \in Sockets /\ socket.sid \in Session /\ socket.sid # 0
  BY DEF Types, Sockets, TellProfile
<1>1. PICK e : e = [kind |-> "profile", sid |-> socket.sid, profile |-> session[socket.sid].bound]
  OBVIOUS
<1>2. /\ e \in Heard /\ e.kind = "profile" /\ e.sid = socket.sid
      /\ e.profile = session[socket.sid].bound /\ Put(e)
  BY <1>0, <1>1 DEF TellProfile, Heard, Types, Seats
<1>3. /\ socket'.sid = socket.sid /\ socket'.profile = e.profile
      /\ page' = page /\ session' = session
  BY <1>0, <1>2 DEF TellProfile, Sockets
<1>4. ListensForSocket' /\ WillShow(e.profile)'
  BY <1>0, <1>2, <1>3, ShownBehind DEF AgreeInv
<1>5. WillAgree' /\ AsTold'
  BY <1>2, <1>3, <1>4 DEF WillAgree, AsTold, WillShow, LastTells, Tells
<1> QED
  BY <1>0, <1>3, <1>4, <1>5 DEF AgreeInv

\* The prompt tells nobody who is signed in; and the page is served once it was told.
LEMMA AgreeServed == ASSUME Names, Types, AgreeInv, Prompt \/ Subscribe PROVE AgreeInv'
<1>0. socket \in Sockets /\ socket.sid \in Session /\ socket.sid # 0
  BY DEF Types, Sockets, Prompt, Subscribe
<1>1. /\ socket'.sid = socket.sid /\ socket'.profile = socket.profile
      /\ socket.at \in {"prompting", "told"}
      /\ page' = page /\ session' = session /\ call' = call /\ amiss' = amiss
  BY <1>0 DEF Prompt, Subscribe, Sockets
<1>2. ListensForSocket => ListensForSocket' /\ \A p \in Player : WillShow(p) => WillShow(p)'
  <2>1. PICK e : e = [kind |-> "offer", sid |-> socket.sid, profile |-> socket.profile]
    OBVIOUS
  <2>2. e \in Heard /\ e.kind = "offer"
    BY <1>0, <2>1 DEF Heard, Sockets
  <2>3. CASE Put(e)
    BY <1>1, <2>2, <2>3, ShownBehind
  <2>4. CASE wire' = wire
    BY <1>1, <2>4, ShownStill
  <2> QED
    BY <2>1, <2>3, <2>4 DEF Prompt, Subscribe
<1>3. ListensForSocket
  BY <1>0 DEF AgreeInv
<1>4. PICK p \in Player : p = session[socket.sid].bound /\ p = session'[socket'.sid].bound
  BY <1>0, <1>1 DEF Types, Seats
<1>5. (WillAgree => WillShow(p)) /\ (WillShow(p)' => WillAgree')
  BY <1>4 DEF WillAgree, WillShow, LastTells, Tells
<1>6. PICK q \in Player : q = socket.profile /\ q = socket'.profile
  BY <1>0, <1>1 DEF Sockets
<1>7. (AsTold => WillShow(q)) /\ (WillShow(q)' => AsTold')
  BY <1>6 DEF AsTold, WillShow, LastTells, Tells
<1>8. ToBeTold => ToBeTold'
  BY <1>1 DEF ToBeTold, At
<1> QED
  BY <1>0, <1>1, <1>2, <1>3, <1>5, <1>7, <1>8 DEF AgreeInv

\* The first event is received. If it tells, the page has now heard it; if it welcomes,
\* the page listens for the session from now on.
LEMMA ShownReceived ==
  ASSUME Names, Types, Receive, ListensForSocket
  PROVE  ListensForSocket' /\ \A p \in Player : WillShow(p) => WillShow(p)'
<1>0. page \in Pages
  BY DEF Types
<1>1. PICK e \in Heard : e = wire[1] /\ e = Head(wire)
  BY TailTypes DEF Receive
<1>2. /\ wire # <<>> /\ 1 \in DOMAIN wire
      /\ \A i \in DOMAIN wire' : i + 1 \in DOMAIN wire /\ wire'[i] = wire[i + 1] /\ i + 1 # 1
      /\ \A i \in DOMAIN wire \ {1} : i - 1 \in DOMAIN wire' /\ wire'[i - 1] = wire[i]
      /\ DOMAIN wire \subseteq Nat /\ DOMAIN wire' \subseteq Nat
  BY TailTypes DEF Receive
<1>3. socket' = socket
  BY DEF Receive, server
<1>4. /\ e.kind = "welcome" => page'.sid = e.sid /\ page'.hint = page.hint
      /\ e.kind = "profile" /\ e.sid = page.sid => page'.sid = page.sid /\ page'.hint = e.profile
      /\ e.kind # "welcome" /\ ~(e.kind = "profile" /\ e.sid = page.sid) =>
           page'.sid = page.sid /\ page'.hint = page.hint
  <2>1. CASE e.kind = "welcome"
    BY <1>0, <1>1, <2>1 DEF Receive, Pages
  <2>2. CASE e.kind = "profile" /\ e.sid = page.sid
    BY <1>0, <1>1, <2>2 DEF Receive, Pages, Mine
  <2>3. CASE e.kind # "welcome" /\ ~(e.kind = "profile" /\ e.sid = page.sid)
    BY <1>0, <1>1, <2>3 DEF Receive, Pages, Mine
  <2> QED
    BY <2>1, <2>2, <2>3
<1>5. /\ \A i \in DOMAIN wire' : Tells(i)' <=> Tells(i + 1)
      /\ \A i \in DOMAIN wire \ {1} : Tells(i - 1)' <=> Tells(i)
  BY <1>2, <1>3 DEF Tells
<1>6. /\ page'.sid = socket.sid /\ \A i \in DOMAIN wire' : wire'[i].kind # "welcome"
      /\ e.kind # "welcome" => page.sid = socket.sid
  <2>1. CASE e.kind = "welcome"
    <3>1. e.sid = socket.sid /\ \A i \in DOMAIN wire \ {1} : wire[i].kind # "welcome"
      BY <1>1, <1>2, <2>1 DEF ListensForSocket
    <3> QED
      BY <1>2, <1>4, <2>1, <3>1
  <2>2. CASE e.kind # "welcome"
    <3>1. page.sid = socket.sid /\ \A i \in DOMAIN wire : wire[i].kind # "welcome"
      BY <1>1, <1>2, <2>2 DEF ListensForSocket
    <3> QED
      BY <1>2, <1>4, <2>2, <3>1
  <2> QED
    BY <2>1, <2>2
<1>7. ListensForSocket'
  BY <1>3, <1>6 DEF ListensForSocket
<1>8. ASSUME NEW p \in Player, WillShow(p) PROVE WillShow(p)'
  <2>1. CASE \E i \in DOMAIN wire \ {1} : Tells(i)
    <3>1. PICK i \in DOMAIN wire : LastTells(i) /\ wire[i].profile = p
      BY <1>8, <2>1 DEF WillShow
    <3>2. i # 1
      <4>1. PICK j \in DOMAIN wire \ {1} : Tells(j)
        BY <2>1
      <4>2. j <= i /\ j \in Nat /\ j # 0
        BY <1>2, <3>1, <4>1 DEF LastTells, Types
      <4> QED
        BY <4>1, <4>2
    <3>3. /\ i - 1 \in DOMAIN wire' /\ wire'[i - 1] = wire[i] /\ Tells(i - 1)' /\ i \in Nat
      BY <1>2, <1>5, <3>1, <3>2 DEF LastTells
    <3>4. \A j \in DOMAIN wire' : Tells(j)' => j <= i - 1
      <4> SUFFICES ASSUME NEW j \in DOMAIN wire', Tells(j)' PROVE j <= i - 1
        OBVIOUS
      <4>1. j + 1 \in DOMAIN wire /\ Tells(j + 1) /\ j \in Nat
        BY <1>2, <1>5
      <4>2. j + 1 <= i
        BY <3>1, <4>1 DEF LastTells
      <4> QED
        BY <3>3, <4>1, <4>2
    <3>5. LastTells(i - 1)'
      BY <3>3, <3>4 DEF LastTells
    <3> QED
      BY <1>3, <3>1, <3>3, <3>5 DEF WillShow
  <2>2. CASE ~ \E i \in DOMAIN wire \ {1} : Tells(i)
    <3>1. ~ \E i \in DOMAIN wire' : Tells(i)'
      BY <1>2, <1>5, <2>2
    <3>2. page'.hint = p
      <4>1. CASE Tells(1)
        <5>1. PICK i \in DOMAIN wire : LastTells(i) /\ wire[i].profile = p
          BY <1>2, <1>8, <4>1 DEF WillShow
        <5>2. i = 1
          BY <2>2, <5>1 DEF LastTells
        <5>3. e.kind # "welcome"
          BY <1>1, <4>1 DEF Tells
        <5> QED
          BY <1>1, <1>4, <1>6, <4>1, <5>1, <5>2, <5>3 DEF Tells
      <4>2. CASE ~Tells(1)
        <5>1. page.hint = p
          BY <1>8, <2>2, <4>2 DEF WillShow
        <5> QED
          BY <1>1, <1>4, <1>6, <4>2, <5>1 DEF Tells
      <4> QED
        BY <4>1, <4>2
    <3> QED
      BY <1>3, <3>1, <3>2 DEF WillShow
  <2> QED
    BY <2>1, <2>2
<1> QED
  BY <1>7, <1>8

LEMMA AgreeReceive == ASSUME Names, Types, AgreeInv, Receive PROVE AgreeInv'
<1>1. /\ socket' = socket /\ session' = session /\ call' = call /\ amiss' = amiss
  BY DEF Receive, server
<1>2. ToBeTold => ToBeTold'
  BY <1>1 DEF ToBeTold, At
<1>3. page'.signed \in {NoProfile, page'.hint}
  <2>1. page \in Pages /\ page.signed \in {NoProfile, page.hint}
    BY DEF Types, AgreeInv
  <2> QED
    BY <2>1 DEF Receive, Pages
<1>4. socket.sid # 0 => session[socket.sid].seat = "live"
  BY DEF AgreeInv
<1> QED
  BY <1>1, <1>2, <1>3, <1>4, ShownReceived, AgreeKept

\* Every step keeps the agreement, or what will bring it about.
LEMMA AgreeNext == ASSUME Names, Types, AgreeInv, [Next]_signInVars PROVE AgreeInv'
<1>0. /\ session \in [Session -> Seats] /\ socket \in Sockets
      /\ call \in [Call -> Calls] /\ page \in Pages /\ 0 \notin Session
  BY SessionsAreNumbers DEF Types
<1> USE DEF server
<1>1. ASSUME NEW p \in Profile, Pick(p) \/ SaveLayout(p) PROVE AgreeInv'
  BY <1>1, AgreePlain DEF Pick, SaveLayout
<1>2. ASSUME NEW pin \in {"none", "right", "wrong"}, Type(pin) PROVE AgreeInv'
  BY <1>2, AgreePlain DEF Type
<1>3. ASSUME Back \/ EnterHub \/ Resume \/ UNCHANGED signInVars PROVE AgreeInv'
  <2>1. \/ page' = page
        \/ page'.sid = page.sid /\ page'.hint = page.hint /\ page'.signed = page.signed
    BY <1>0, <1>3 DEF Back, EnterHub, Resume, Pages, signInVars
  <2>2. /\ socket' = socket /\ wire' = wire /\ call' = call /\ session' = session /\ amiss' = amiss
    BY <1>3 DEF Back, EnterHub, Resume, signInVars
  <2> QED
    BY <2>1, <2>2, AgreePlain
<1>4. ASSUME NEW manage \in BOOLEAN, GiveUp(manage) PROVE AgreeInv'
  <2>1. page'.sid = page.sid /\ page'.hint = page.hint /\ page'.signed = NoProfile
    BY <1>0, <1>4 DEF GiveUp, Pages
  <2> QED
    BY <1>4, <2>1, AgreePlain DEF GiveUp
<1>5. ASSUME NEW c \in Call, Submit(c) PROVE AgreeInv'
  <2>1. call[c] = Idle
    BY <1>5 DEF Submit, Ask
  <2>2. \A d \in Call \ {c} : call'[d] = call[d]
    BY <1>0, <1>5 DEF Submit, Ask
  <2> QED
    BY <1>5, <2>1, <2>2, Values, AgreeAsked DEF Submit, At
<1>6. ASSUME NEW c \in Call, Answered(c) PROVE AgreeInv'
  <2>1. \A d \in Call \ {c} : call'[d] = call[d]
    BY <1>6, CallTypes DEF Answered
  <2> QED
    BY <1>6, <2>1, AgreeAsked DEF Answered, At
<1>7. ASSUME NEW c \in Call, Fails(c) PROVE AgreeInv'
  <2>1. \A d \in Call \ {c} : call'[d] = call[d]
    BY <1>7, CallTypes DEF Fails
  <2>2. /\ amiss => amiss'
        /\ call'[c] = call[c] \/ ~(At(c, "unlock", "bound") /\ call[c].sid = socket.sid) \/ amiss'
    BY <1>7 DEF Fails
  <2> QED
    BY <1>7, <2>1, <2>2, AgreeAsked DEF Fails
<1>8. ASSUME NEW c \in Call, StartFresh(c) PROVE AgreeInv'
  <2>1. page'.sid = page.sid /\ page'.hint = page.hint /\ page'.signed = page.signed
    BY <1>0, <1>8 DEF StartFresh, Pages
  <2>2. call' = call \/ call[c].pc = "idle"
    BY <1>8, Values DEF StartFresh, Ask
  <2>3. \A d \in Call \ {c} : call'[d] = call[d]
    BY <1>0, <1>8 DEF StartFresh, Ask
  <2>4. ToBeTold => ToBeTold'
    <3>1. CASE call' = call
      BY <1>8, <3>1 DEF ToBeTold, StartFresh, At
    <3>2. CASE call[c].pc = "idle"
      BY <1>8, <2>3, <3>2, OthersWait DEF StartFresh, At
    <3> QED
      BY <2>2, <3>1, <3>2
  <2>5. ListensForSocket => ListensForSocket' /\ \A p \in Player : WillShow(p) => WillShow(p)'
    BY <1>8, <2>1, ShownStill DEF StartFresh
  <2>6. /\ page'.signed \in {NoProfile, page'.hint}
        /\ socket.sid # 0 => session[socket.sid].seat = "live"
    BY <2>1 DEF AgreeInv
  <2>7. socket' = socket /\ session' = session /\ amiss' = amiss
    BY <1>8 DEF StartFresh
  <2> QED
    BY <2>4, <2>5, <2>6, <2>7, AgreeKept
<1>9. ASSUME NEW c \in Call, NEW p \in Profile, ToggleKaos(c, p) PROVE AgreeInv'
  <2>1. call[c] = Idle /\ \A d \in Call \ {c} : call'[d] = call[d]
    BY <1>0, <1>9 DEF ToggleKaos, Ask
  <2> QED
    BY <1>9, <2>1, Values, AgreeAsked DEF ToggleKaos, At
<1>10. ASSUME NEW c \in Call, Refuse(c) \/ LookedAtAll(c) \/ ClearResume(c) PROVE AgreeInv'
  <2>1. \A d \in Call \ {c} : call'[d] = call[d]
    BY <1>10, CallTypes DEF Refuse, LookedAtAll, ClearResume
  <2> QED
    BY <1>10, <2>1, AgreeAsked DEF Refuse, LookedAtAll, ClearResume, At
<1>11. ASSUME NEW c \in Call, NEW s \in Session, Look(c, s) PROVE AgreeInv'
  <2>1. \A d \in Call \ {c} : call'[d] = call[d]
    BY <1>0, <1>11 DEF Look
  <2> QED
    BY <1>11, <2>1, AgreeAsked DEF Look, At
<1>12. ASSUME NEW c \in Call, Offer(c) PROVE AgreeInv'
  <2>1. \A d \in Call \ {c} : call'[d] = call[d]
    BY <1>12, CallTypes DEF Offer
  <2>2. CASE wire' = wire
    BY <1>12, <2>1, <2>2, AgreeAsked DEF Offer, At
  <2>3. CASE call[c].profile \in saved
    <3>1. PICK e : e = [kind |-> "offer", sid |-> call[c].sid, profile |-> call[c].profile]
      OBVIOUS
    <3>2. e \in Heard /\ e.kind = "offer" /\ Send(e)
      BY <1>0, <1>12, <2>3, <3>1 DEF Offer, Calls, Heard
    <3>3. ToBeTold => ToBeTold'
      BY <1>12, <2>1, OthersWait DEF Offer, At
    <3> QED
      BY <1>12, <3>2, <3>3, AgreeSent DEF Offer
  <2> QED
    BY <1>12, <2>2, <2>3 DEF Offer
<1>13. ASSUME GameChanges PROVE AgreeInv'
  <2>1. PICK e : e = [kind |-> "game", on |-> ~game]
    OBVIOUS
  <2>2. e \in Heard /\ e.kind = "game" /\ Send(e)
    BY <1>13, <2>1 DEF GameChanges, Heard
  <2>3. ToBeTold => ToBeTold'
    BY <1>13 DEF GameChanges, ToBeTold, At
  <2> QED
    BY <1>13, <2>2, <2>3, AgreeSent DEF GameChanges
<1>14. ASSUME Drop PROVE AgreeInv'
  BY <1>14, Values DEF Drop, AgreeInv
<1>15. ASSUME NEW s \in Session, Depart(s) \/ ExpireGhost(s) PROVE AgreeInv'
  <2>1. socket.sid # 0 => socket.sid # s /\ session[socket.sid].seat = "live"
    BY <1>15 DEF Depart, ExpireGhost, AgreeInv
  <2>2. socket.sid # 0 => session'[socket.sid] = session[socket.sid]
    BY <1>0, <1>15, <2>1 DEF Depart, ExpireGhost, Sockets
  <2>3. ToBeTold => ToBeTold'
    BY <1>15 DEF Depart, ExpireGhost, ToBeTold, At
  <2>4. /\ socket' = socket /\ wire' = wire /\ page' = page /\ amiss' = amiss
        /\ page.signed \in {NoProfile, page.hint}
    BY <1>15 DEF Depart, ExpireGhost, AgreeInv
  <2>5. ListensForSocket => ListensForSocket' /\ \A p \in Player : WillShow(p) => WillShow(p)'
    BY <2>4, ShownStill
  <2> QED
    BY <2>1, <2>2, <2>3, <2>4, <2>5, AgreeKept
<1> QED
  BY <1>1, <1>2, <1>3, <1>4, <1>5, <1>6, <1>7, <1>8, <1>9, <1>10, <1>11, <1>12, <1>13, <1>14,
     <1>15, AgreeBind, AgreeAnnounce, AgreeReceive, AgreeConnect, AgreeTell, AgreeServed DEF Next

\* For any number of requests, sessions and events on their way, when all is quiet the
\* page acts as the player its session is signed in as, or as nobody, and would come
\* back as that player (unlock_profile, handle_ws, the phone's ws.rs).
THEOREM SettledAgreesCorrect == ASSUME Names PROVE Spec => []SettledAgrees
<1>1. Types /\ AgreeInv => SettledAgrees
  <2> SUFFICES ASSUME Types, AgreeInv, Settled, ~amiss
               PROVE  /\ page.signed \in {NoProfile, session[socket.sid].bound}
                      /\ page.hint = session[socket.sid].bound
    BY DEF SettledAgrees
  <2>1. ~ToBeTold
    BY DEF Settled, ToBeTold, At
  <2>2. ~ \E i \in DOMAIN wire : Tells(i)
    BY SomethingOnItsWay DEF Settled
  <2>3. socket.sid # 0 /\ socket.at = "serving"
    BY DEF Settled, Serving, Types
  <2>4. page.hint = session[socket.sid].bound
    BY <2>1, <2>2, <2>3 DEF AgreeInv, WillAgree, WillShow
  <2> QED
    BY <2>4 DEF AgreeInv
<1> QED
  BY TypesInit, TypesNext, AgreeInit, AgreeNext, <1>1, PTL DEF Spec
-----------------------------------------------------------------------------
(***************************************************************************)
(* The types and bounds of the page and its requests.                      *)
(***************************************************************************)
\* A welcome fits on the wire.
RoomToConnect == WireCap \in Nat \ {0}

\* A request that has bound or found a profile knows in which session, the events
\* tell of sessions, and those who sent them looked whether there was room.
SignInTypes ==
  /\ saved \subseteq Profile /\ game \in BOOLEAN
  /\ \A c \in Call : call[c].pc \in {"bound", "told"} => call[c].sid \in Session
  /\ wire \in Seq(Event) /\ Len(wire) <= WireCap

\* What is sent is sent if there is room.
LEMMA SentFits ==
  ASSUME RoomToConnect, SignInTypes, NEW e \in Event, Put(e) \/ Send(e)
  PROVE  wire' \in Seq(Event) /\ Len(wire') <= WireCap
<1>1. wire \in Seq(Event) /\ Len(wire) \in Nat /\ Len(wire) <= WireCap
  BY DEF SignInTypes
<1>2. CASE wire' = wire
  BY <1>1, <1>2
<1>3. CASE Put(e)
  <2>1. wire' = Append(wire, e) /\ Len(wire) < WireCap
    BY <1>3 DEF Put
  <2> QED
    BY <1>1, <2>1 DEF RoomToConnect
<1> QED
  BY <1>2, <1>3 DEF Send

\* Every step keeps it.
LEMMA SignInTypesNext ==
  ASSUME Names, RoomToConnect, Types, SignInTypes, [Next]_signInVars PROVE SignInTypes'
<1> DEFINE Sids == \A c \in Call : call[c].pc \in {"bound", "told"} => call[c].sid \in Session
           Wire == wire \in Seq(Event) /\ Len(wire) <= WireCap
<1>0. /\ session \in [Session -> Seats] /\ call \in [Call -> Calls]
      /\ saved \subseteq Profile /\ game \in BOOLEAN /\ Sids /\ Wire
  BY DEF Types, SignInTypes
<1> USE DEF server, At
<1>1. ASSUME UNCHANGED call PROVE Sids'
  BY <1>0, <1>1
<1>2. ASSUME UNCHANGED wire PROVE Wire'
  BY <1>0, <1>2
<1>3. ASSUME UNCHANGED <<saved, game>> PROVE saved' \subseteq Profile /\ game' \in BOOLEAN
  BY <1>0, <1>3
<1>4. ASSUME NEW c \in Call, call'[c].pc \notin {"bound", "told"} \/ call'[c].sid \in Session,
             \A d \in Call \ {c} : call'[d] = call[d]
      PROVE  Sids'
  BY <1>0, <1>4
<1> HIDE DEF Sids, Wire
<1>5. SignInTypes' <=> saved' \subseteq Profile /\ game' \in BOOLEAN /\ Sids' /\ Wire'
  BY DEF SignInTypes, Sids, Wire
<1>6. ASSUME NEW p \in Profile, Pick(p) PROVE SignInTypes'
  BY <1>1, <1>2, <1>3, <1>5, <1>6 DEF Pick
<1>7. ASSUME NEW p \in Profile, SaveLayout(p) PROVE SignInTypes'
  <2>1. saved' \subseteq Profile /\ game' = game
    BY <1>0, <1>7 DEF SaveLayout
  <2> QED
    BY <1>0, <1>1, <1>2, <1>5, <1>7, <2>1 DEF SaveLayout
<1>8. CASE Back \/ EnterHub \/ Resume
  BY <1>1, <1>2, <1>3, <1>5, <1>8 DEF Back, EnterHub, Resume
<1>9. ASSUME NEW pin \in {"none", "right", "wrong"}, Type(pin) PROVE SignInTypes'
  BY <1>1, <1>2, <1>3, <1>5, <1>9 DEF Type
<1>10. ASSUME NEW manage \in BOOLEAN, GiveUp(manage) PROVE SignInTypes'
  BY <1>1, <1>2, <1>3, <1>5, <1>10 DEF GiveUp
<1>11. ASSUME NEW c \in Call, Submit(c) PROVE SignInTypes'
  <2>1. Sids'
    <3>1. Ask(c, "unlock", picker.picked) /\ picker.picked \in Player
      BY <1>11 DEF Submit, Types, Pickers
    <3>2. call'[c].pc = "sent" /\ \A d \in Call \ {c} : call'[d] = call[d]
      BY <3>1, CallTypes
    <3> QED
      BY <1>4, <3>2
  <2> QED
    BY <1>2, <1>3, <1>5, <1>11, <2>1 DEF Submit
<1>12. ASSUME NEW c \in Call, Answered(c) \/ Fails(c) PROVE SignInTypes'
  <2>1. call' = call \/ call' = [call EXCEPT ![c] = Idle]
    BY <1>12, Zenon DEF Answered, Fails
  <2>2. Sids'
    <3>1. CASE call' = [call EXCEPT ![c] = Idle]
      <4>1. call'[c].pc = "idle" /\ \A d \in Call \ {c} : call'[d] = call[d]
        BY <3>1, CallTypes, Values
      <4> QED
        BY <1>4, <4>1
    <3> QED
      BY <1>1, <2>1, <3>1
  <2>3. UNCHANGED <<saved, game, wire>>
    BY <1>12, Zenon DEF Answered, Fails
  <2> QED
    BY <1>2, <1>3, <1>5, <2>2, <2>3
<1>13. ASSUME NEW c \in Call, StartFresh(c) PROVE SignInTypes'
  <2>1. Sids'
    <3>1. CASE Ask(c, "fresh", page.signed)
      <4>1. page.signed \in Player
        BY DEF Types, Pages
      <4>2. call'[c].pc = "sent" /\ \A d \in Call \ {c} : call'[d] = call[d]
        BY <3>1, <4>1, CallTypes
      <4> QED
        BY <1>4, <4>2
    <3> QED
      BY <1>1, <1>13, <3>1 DEF StartFresh
  <2> QED
    BY <1>2, <1>3, <1>5, <1>13, <2>1 DEF StartFresh
<1>14. ASSUME NEW c \in Call, NEW p \in Profile, ToggleKaos(c, p) PROVE SignInTypes'
  <2>1. Ask(c, "kaos", p) /\ p \in Player
    BY <1>14 DEF ToggleKaos, Player
  <2>2. call'[c].pc = "sent" /\ \A d \in Call \ {c} : call'[d] = call[d]
    BY <2>1, CallTypes
  <2>3. Sids'
    BY <1>4, <2>2
  <2> QED
    BY <1>2, <1>3, <1>5, <1>14, <2>3 DEF ToggleKaos
<1>15. ASSUME NEW c \in Call, Refuse(c) \/ LookedAtAll(c) \/ ClearResume(c) PROVE SignInTypes'
  <2>1. Goto(c, "refused") \/ Goto(c, "ok")
    BY <1>15 DEF Refuse, LookedAtAll, ClearResume
  <2>2. call'[c].pc \in {"refused", "ok"} /\ \A d \in Call \ {c} : call'[d] = call[d]
    BY <2>1, CallTypes
  <2>3. Sids'
    BY <1>4, <2>2
  <2>4. saved' \subseteq Profile /\ game' = game /\ wire' = wire
    BY <1>0, <1>15 DEF Refuse, LookedAtAll, ClearResume
  <2> QED
    BY <1>0, <1>2, <1>5, <2>3, <2>4
<1>16. ASSUME NEW c \in Call, Bind(c) PROVE SignInTypes'
  <2>1. Goto(c, "bound") /\ call[c].sid # 0 /\ call[c].sid \in Session \cup {0}
    BY <1>0, <1>16 DEF Bind, Calls
  <2>2. call'[c].sid \in Session /\ \A d \in Call \ {c} : call'[d] = call[d]
    BY <2>1, CallTypes
  <2>3. Sids'
    BY <1>4, <2>2
  <2> QED
    BY <1>2, <1>3, <1>5, <1>16, <2>3 DEF Bind
<1>17. ASSUME NEW c \in Call, NEW s \in Session, Look(c, s) PROVE SignInTypes'
  <2>1. PICK pc : call' = [call EXCEPT ![c].left = @ \ {s}, ![c].sid = s, ![c].pc = pc]
    BY <1>17, Zenon DEF Look
  <2>2. call'[c].sid = s /\ \A d \in Call \ {c} : call'[d] = call[d]
    BY <1>0, <2>1 DEF Calls
  <2>3. Sids'
    BY <1>4, <2>2
  <2> QED
    BY <1>2, <1>3, <1>5, <1>17, <2>3 DEF Look
<1>18. ASSUME NEW c \in Call, Announce(c) \/ Offer(c) PROVE SignInTypes'
  <2>1. call[c].sid \in Session /\ call[c].profile \in Player
    BY <1>0, <1>18 DEF Announce, Offer, Sids, Calls
  <2>2. Goto(c, "sent") \/ Goto(c, "told") \/ Goto(c, "ok")
    BY <1>18 DEF Announce, Offer
  <2>3. call'[c].sid \in Session /\ \A d \in Call \ {c} : call'[d] = call[d]
    BY <2>1, <2>2, CallTypes
  <2>4. Sids'
    BY <1>4, <2>3
  <2>5. /\ [kind |-> "profile", sid |-> call[c].sid, profile |-> call[c].profile] \in Event
        /\ [kind |-> "offer", sid |-> call[c].sid, profile |-> call[c].profile] \in Event
    BY <2>1 DEF Event
  <2>6. Wire'
    <3>1. CASE wire' = wire
      BY <1>2, <3>1
    <3>2. CASE \E e \in Event : Send(e)
      BY <3>2, SentFits DEF Wire
    <3> QED
      BY <1>18, <2>5, <3>1, <3>2 DEF Announce, Offer
  <2> QED
    BY <1>3, <1>5, <1>18, <2>4, <2>6 DEF Announce, Offer
<1>19. CASE GameChanges
  <2>1. [kind |-> "game", on |-> ~game] \in Event /\ Send([kind |-> "game", on |-> ~game])
    BY <1>19 DEF GameChanges, Event
  <2>2. Wire'
    BY <2>1, SentFits DEF Wire
  <2>3. game' \in BOOLEAN /\ saved' = saved /\ call' = call
    BY <1>19 DEF GameChanges
  <2> QED
    BY <1>0, <1>1, <1>5, <2>2, <2>3
<1>20. CASE Drop
  <2>1. Wire'
    BY <1>20 DEF Drop, Wire, RoomToConnect
  <2> QED
    BY <1>1, <1>3, <1>5, <1>20, <2>1 DEF Drop
<1>21. CASE Receive
  <2>1. Wire'
    <3>1. wire # <<>> /\ wire' = Tail(wire)
      BY <1>21 DEF Receive
    <3> QED
      BY <1>0, <3>1 DEF Wire, RoomToConnect
  <2> QED
    BY <1>1, <1>3, <1>5, <1>21, <2>1 DEF Receive
<1>22. ASSUME NEW s \in Session, Connect(s) PROVE SignInTypes'
  <2>1. PICK e \in Event : wire' = <<e>>
    BY <1>0, <1>22 DEF Connect, Event, Player
  <2>2. Wire'
    BY <2>1 DEF Wire, RoomToConnect
  <2> QED
    BY <1>1, <1>3, <1>5, <1>22, <2>2 DEF Connect
<1>23. ASSUME NEW s \in Session, Depart(s) \/ ExpireGhost(s) PROVE SignInTypes'
  BY <1>1, <1>2, <1>3, <1>5, <1>23 DEF Depart, ExpireGhost
<1>24. CASE UNCHANGED signInVars
  BY <1>1, <1>2, <1>3, <1>5, <1>24 DEF signInVars
<1>25. CASE TellProfile
  <2>1. socket.sid \in Session /\ session[socket.sid].bound \in Player
    BY <1>0, <1>25 DEF TellProfile, Types, Sockets, Seats
  <2>2. Wire'
    BY <1>25, <2>1, SentFits DEF TellProfile, Event, Wire
  <2> QED
    BY <1>1, <1>3, <1>5, <1>25, <2>2 DEF TellProfile
<1>26. CASE Prompt \/ Subscribe
  <2>1. PICK e : e = [kind |-> "offer", sid |-> socket.sid, profile |-> socket.profile]
    OBVIOUS
  <2>2. e \in Event
    BY <1>26, <2>1 DEF Prompt, Subscribe, Types, Sockets, Event
  <2>3. wire' = wire \/ Put(e)
    BY <1>26, <2>1 DEF Prompt, Subscribe
  <2>4. Wire'
    BY <1>2, <2>2, <2>3, SentFits DEF Wire
  <2> QED
    BY <1>1, <1>3, <1>5, <1>26, <2>4 DEF Prompt, Subscribe
<1> QED
  BY <1>6, <1>7, <1>8, <1>9, <1>10, <1>11, <1>12, <1>13, <1>14, <1>15, <1>16, <1>17, <1>18, <1>19,
     <1>20, <1>21, <1>22, <1>23, <1>24, <1>25, <1>26 DEF Next

\* A page, its requests and what is on its way to it are what they can be; no event
\* tells of a session that never was.
THEOREM SignInTypesCorrect == ASSUME Names, RoomToConnect PROVE Spec => []TypeOK
<1>1. Init => Types /\ SignInTypes
  <2> SUFFICES ASSUME Init PROVE SignInTypes
    BY TypesInit
  <2>1. wire = <<>> /\ game = FALSE /\ \A c \in Call : call[c].pc = "idle"
    BY Values DEF Init
  <2>2. saved \subseteq Profile
    BY DEF Init
  <2>3. wire \in Seq(Event) /\ Len(wire) <= WireCap
    BY <2>1 DEF RoomToConnect
  <2>4. \A c \in Call : call[c].pc \in {"bound", "told"} => call[c].sid \in Session
    BY <2>1
  <2> QED
    BY <2>1, <2>2, <2>3, <2>4, Zenon DEF SignInTypes
<1>2. Types /\ SignInTypes /\ [Next]_signInVars => Types' /\ SignInTypes'
  BY TypesNext, SignInTypesNext
<1>3. Types /\ SignInTypes => TypeOK
  BY DEF Types, SignInTypes, TypeOK, Seats, Calls, Pages, Pickers, Sockets
<1> QED
  BY <1>1, <1>2, <1>3, PTL DEF Spec
-----------------------------------------------------------------------------
(***************************************************************************)
(* The page's socket.                                                      *)
(***************************************************************************)
CONSTANTS Chain, First, RETRY_THRESHOLD, NoChain
VARIABLES reachable, chain, pending, attempts, graces, visible, forked

Link == INSTANCE PhoneLink WITH server <- reachable

Chains == First \in Chain /\ NoChain \notin Chain /\ RETRY_THRESHOLD \in Nat \ {0}

\* The one chain of a page that has not forked, c: the timer that can be cancelled is
\* its own, if it waits for one, and its socket is open only while no failure counts.
Tended(c) ==
  /\ \A d \in Chain \ {c} : chain[d] = "none"
  /\ chain[c] # "none"
  /\ pending = IF chain[c] = "timer" THEN c ELSE NoChain
  /\ chain[c] = "open" => attempts = 0

\* The invariant of the link.
LinkInv ==
  /\ Link!TypeOK
  /\ \E c \in Chain : chain[c] # "none"
  /\ visible => attempts > 0
  /\ ~forked => \E c \in Chain : Tended(c)

\* The first chain is the one.
LEMMA LinkInit == ASSUME Chains, Link!Init PROVE LinkInv
<1>1. Link!TypeOK /\ chain[First] = "connecting" /\ visible = FALSE
  <2>1. /\ chain \in [Chain -> {"none", "connecting", "open", "timer"}]
        /\ chain[First] = "connecting"
    BY DEF Chains, Link!Init
  <2>2. attempts \in 0 .. RETRY_THRESHOLD /\ graces \in 0 .. 2
    BY DEF Chains, Link!Init
  <2>3. reachable \in BOOLEAN /\ visible = FALSE /\ forked = FALSE /\ pending = NoChain
    BY Zenon DEF Link!Init
  <2> QED
    BY <2>1, <2>2, <2>3, Zenon DEF Link!TypeOK
<1>2. Tended(First)
  BY DEF Chains, Link!Init, Tended
<1> QED
  BY <1>1, <1>2 DEF Chains, LinkInv

\* The overlay is up only while failures count.
LEMMA CountKeeps ==
  ASSUME Chains, Link!TypeOK, visible => attempts > 0, NEW n \in 0 .. RETRY_THRESHOLD, Link!Count(n)
  PROVE  /\ attempts' = n /\ visible' \in BOOLEAN /\ graces' \in 0 .. 2
         /\ attempts' \in 0 .. RETRY_THRESHOLD /\ (visible' => attempts' > 0)
<1>1. attempts' = n /\ attempts' \in 0 .. RETRY_THRESHOLD
  BY DEF Link!Count
<1>2. graces' \in 0 .. 2
  <2>1. graces \in 0 .. 2
    BY DEF Link!TypeOK
  <2>2. graces' = IF attempts = 0 /\ n > 0 /\ graces < 2 THEN graces + 1 ELSE graces
    BY Zenon DEF Link!Count
  <2> QED
    BY <2>1, <2>2
<1>3. visible' \in BOOLEAN /\ (visible' => n > 0)
  BY Zenon DEF Link!Count
<1> QED
  BY <1>1, <1>2, <1>3, Zenon

\* Every step leaves something that will open a socket, and one chain unless forked.
LEMMA LinkNext == ASSUME Chains, LinkInv, [Link!Next]_(Link!linkVars) PROVE LinkInv'
<1>0. /\ reachable \in BOOLEAN /\ visible \in BOOLEAN /\ forked \in BOOLEAN
      /\ chain \in [Chain -> {"none", "connecting", "open", "timer"}]
      /\ pending \in Chain \cup {NoChain} /\ attempts \in 0 .. RETRY_THRESHOLD /\ graces \in 0 .. 2
      /\ Link!TypeOK /\ (visible => attempts > 0) /\ NoChain \notin Chain
  BY DEF LinkInv, Link!TypeOK, Chains
<1>1. ASSUME Link!ServerComesAndGoes \/ Link!Reveal \/ UNCHANGED Link!linkVars PROVE LinkInv'
  <2>1. chain' = chain /\ pending' = pending /\ attempts' = attempts /\ forked' = forked
    BY <1>1 DEF Link!ServerComesAndGoes, Link!Reveal, Link!linkVars
  <2>2. reachable' \in BOOLEAN /\ visible' \in BOOLEAN
    BY <1>0, <1>1, Zenon DEF Link!ServerComesAndGoes, Link!Reveal, Link!linkVars
  <2>3. graces' \in 0 .. 2
    BY <1>0, <1>1 DEF Link!ServerComesAndGoes, Link!Reveal, Link!linkVars
  <2>4. visible' => attempts' > 0
    <3>1. visible' = visible \/ visible' = (visible \/ attempts > 0)
      BY <1>1, Zenon DEF Link!ServerComesAndGoes, Link!Reveal, Link!linkVars
    <3> QED
      BY <1>0, <2>1, <3>1
  <2>5. Link!TypeOK'
    BY <1>0, <2>1, <2>2, <2>3, Zenon DEF Link!TypeOK
  <2>6. /\ \E c \in Chain : chain'[c] # "none"
        /\ ~forked' => \E c \in Chain : Tended(c)'
    BY <2>1 DEF LinkInv, Tended
  <2> QED
    BY <2>4, <2>5, <2>6 DEF LinkInv
<1>2. ASSUME NEW c \in Chain, Link!Open(c) PROVE LinkInv'
  <2>1. /\ attempts' = 0 /\ visible' \in BOOLEAN /\ graces' \in 0 .. 2
        /\ attempts' \in 0 .. RETRY_THRESHOLD /\ (visible' => attempts' > 0)
    <3>1. 0 \in 0 .. RETRY_THRESHOLD
      BY DEF Chains
    <3> QED
      BY <1>0, <1>2, <3>1, CountKeeps DEF Link!Open
  <2>2. /\ chain' \in [Chain -> {"none", "connecting", "open", "timer"}]
        /\ chain'[c] = "open" /\ \A d \in Chain \ {c} : chain'[d] = chain[d]
        /\ chain[c] = "connecting"
    BY <1>0, <1>2 DEF Link!Open
  <2>3. reachable' = reachable /\ pending' = pending /\ forked' = forked
    BY <1>2 DEF Link!Open
  <2>4. Link!TypeOK'
    BY <1>0, <2>1, <2>2, <2>3, Zenon DEF Link!TypeOK
  <2>5. ~forked' => Tended(c)'
    BY <2>1, <2>2, <2>3 DEF LinkInv, Tended
  <2> QED
    BY <2>1, <2>2, <2>4, <2>5 DEF LinkInv
<1>3. ASSUME NEW c \in Chain, Link!Close(c) PROVE LinkInv'
  <2>1. /\ Link!Upto(attempts, RETRY_THRESHOLD) \in 0 .. RETRY_THRESHOLD
        /\ Link!Upto(attempts, RETRY_THRESHOLD) > 0
    BY <1>0 DEF Link!Upto, Chains
  <2>2. /\ visible' \in BOOLEAN /\ graces' \in 0 .. 2
        /\ attempts' \in 0 .. RETRY_THRESHOLD /\ (visible' => attempts' > 0)
    BY <1>0, <1>3, <2>1, CountKeeps DEF Link!Close
  <2>3. /\ chain' \in [Chain -> {"none", "connecting", "open", "timer"}]
        /\ chain'[c] = "timer" /\ \A d \in Chain \ {c} : chain'[d] = chain[d]
        /\ chain[c] # "none"
    BY <1>0, <1>3 DEF Link!Close
  <2>4. reachable' = reachable /\ pending' = c /\ forked' = forked
    BY <1>3 DEF Link!Close
  <2>5. Link!TypeOK'
    BY <1>0, <2>2, <2>3, <2>4, Zenon DEF Link!TypeOK
  <2>6. ~forked' => Tended(c)'
    BY <2>3, <2>4 DEF LinkInv, Tended
  <2> QED
    BY <2>2, <2>3, <2>5, <2>6 DEF LinkInv
<1>4. ASSUME NEW c \in Chain, Link!Fire(c) PROVE LinkInv'
  <2>1. reachable' = reachable /\ attempts' = attempts /\ graces' = graces /\ visible' = visible
    BY <1>4 DEF Link!Fire
  <2>2. /\ chain' \in [Chain -> {"none", "connecting", "open", "timer"}]
        /\ \/ pending' = NoChain /\ chain'[c] = "connecting"
           \/ pending' = c /\ chain'[c] = "timer"
        /\ \A d \in Chain \ {c} : chain'[d] = chain[d]
    <3>1. CASE pending' = NoChain /\ chain' = [chain EXCEPT ![c] = "connecting"]
      BY <1>0, <3>1
    <3>2. CASE pending' = c /\ chain' = chain
      BY <1>0, <1>4, <3>2 DEF Link!Fire
    <3> QED
      BY <1>4, <3>1, <3>2, Zenon DEF Link!Fire
  <2>6. chain[c] = "timer"
    BY <1>4 DEF Link!Fire
  <2>3. forked' \in BOOLEAN /\ (forked => forked')
    BY <1>0, <1>4, Zenon DEF Link!Fire
  <2>4. Link!TypeOK'
    BY <1>0, <2>1, <2>2, <2>3, Zenon DEF Link!TypeOK
  <2>5. ~forked' => Tended(c)'
    BY <2>2, <2>3, <2>6 DEF LinkInv, Tended
  <2> QED
    BY <1>0, <2>1, <2>2, <2>4, <2>5 DEF LinkInv
<1>5. ASSUME NEW c \in Chain, Link!TryAgain(c) PROVE LinkInv'
  <2>1. /\ attempts' = 0 /\ visible' \in BOOLEAN /\ graces' \in 0 .. 2
        /\ attempts' \in 0 .. RETRY_THRESHOLD /\ (visible' => attempts' > 0)
    <3>1. 0 \in 0 .. RETRY_THRESHOLD
      BY DEF Chains
    <3> QED
      BY <1>0, <1>5, <3>1, CountKeeps DEF Link!TryAgain
  <2>2. /\ chain' \in [Chain -> {"none", "connecting", "open", "timer"}]
        /\ chain'[c] = "connecting"
        /\ \A d \in Chain \ {c} : chain'[d] = IF d = pending THEN "none" ELSE chain[d]
    <3>1. chain' = [d \in Chain |-> IF d = c THEN "connecting"
                                ELSE IF d = pending THEN "none" ELSE chain[d]]
      BY <1>5 DEF Link!TryAgain
    <3>2. \A d \in Chain :
            /\ d = c => chain'[d] = "connecting"
            /\ d # c /\ d = pending => chain'[d] = "none"
            /\ d # c /\ d # pending => chain'[d] = chain[d]
      BY <3>1
    <3>3. chain' = [d \in Chain |-> chain'[d]]
      BY <3>1
    <3>4. \A d \in Chain : chain'[d] \in {"none", "connecting", "open", "timer"}
      <4> SUFFICES ASSUME NEW d \in Chain PROVE chain'[d] \in {"none", "connecting", "open", "timer"}
        OBVIOUS
      <4>1. chain[d] \in {"none", "connecting", "open", "timer"}
        BY <1>0
      <4>2. chain'[d] = "connecting" \/ chain'[d] = "none" \/ chain'[d] = chain[d]
        BY <3>2
      <4> QED
        BY <4>1, <4>2
    <3>5. chain' \in [Chain -> {"none", "connecting", "open", "timer"}]
      BY <3>3, <3>4
    <3>6. \A d \in Chain \ {c} : chain'[d] = IF d = pending THEN "none" ELSE chain[d]
      BY <3>2
    <3> QED
      BY <3>2, <3>5, <3>6
  <2>3. reachable' = reachable /\ pending' = NoChain
    BY <1>5 DEF Link!TryAgain
  <2>4. forked' \in BOOLEAN /\ (forked \/ pending = NoChain => forked')
    BY <1>0, <1>5, Zenon DEF Link!TryAgain
  <2>5. Link!TypeOK'
    BY <1>0, <2>1, <2>2, <2>3, <2>4, Zenon DEF Link!TypeOK
  <2>6. ~forked' => Tended(c)'
    BY <2>2, <2>3, <2>4 DEF LinkInv, Tended
  <2> QED
    BY <2>1, <2>2, <2>5, <2>6 DEF LinkInv
<1> QED
  BY <1>1, <1>2, <1>3, <1>4, <1>5 DEF Link!Next

\* The link counts as is done here.
LEMMA SameCount == \A S : Link!Cardinality(S) = Cardinality(S)
  BY DEF Link!Cardinality, Cardinality

\* For any number of chains and any threshold the page always has a socket or a timer
\* that will open one, and unless TRY AGAIN has forked it has but one, and no overlay
\* over an open socket (phone/src/ws.rs).
THEOREM TendedCorrect ==
  ASSUME Chains PROVE Link!Init /\ [][Link!Next]_(Link!linkVars) => []Link!LinkIsTended
<1>1. LinkInv => Link!LinkIsTended
  <2> SUFFICES ASSUME LinkInv PROVE Link!LinkIsTended
    OBVIOUS
  <2>1. Link!InUse # {}
    BY DEF LinkInv, Link!InUse
  <2>2. ASSUME ~forked
        PROVE  Link!Cardinality(Link!InUse) = 1 /\ (visible => \A c \in Chain : chain[c] # "open")
    <3>1. PICK c \in Chain : Tended(c)
      BY <2>2 DEF LinkInv
    <3>2. Link!InUse = {c}
      BY <3>1 DEF Link!InUse, Tended
    <3>3. Link!Cardinality(Link!InUse) = 1
      BY <3>2, FS_Singleton, SameCount
    <3>4. visible => \A d \in Chain : chain[d] # "open"
      BY <3>1 DEF LinkInv, Tended
    <3> QED
      BY <3>3, <3>4
  <2> QED
    BY <2>1, <2>2 DEF Link!LinkIsTended
<1> QED
  BY LinkInit, LinkNext, <1>1, PTL

\* The page's chains, the timer it can cancel and its counters are what they can be.
THEOREM LinkTypesCorrect ==
  ASSUME Chains PROVE Link!Init /\ [][Link!Next]_(Link!linkVars) => []Link!TypeOK
<1>1. LinkInv => Link!TypeOK
  BY DEF LinkInv
<1> QED
  BY LinkInit, LinkNext, <1>1, PTL
-----------------------------------------------------------------------------
(***************************************************************************)
(* What the phone shows.                                                   *)
(***************************************************************************)
CONSTANTS
  Writer, Cap, ReplayLimit, MaxSessions, MaxChanges, MaxTaunts, MaxSwitches, MaxDrops,
  MaxRestarts, NoEvent
VARIABLES truth, writer, seat, ghosts, minted, boot, taunt, link, phone, off, seen, excused, spent

Fan == INSTANCE Fanout

\* The bounds are numbers, and there is room for something in each of the queues.
Rooms ==
  /\ Cap \in Nat \ {0} /\ ReplayLimit \in Nat \ {0} /\ MaxSessions \in Nat \ {0}
  /\ MaxTaunts \in Nat /\ MaxChanges \in Nat

\* What is sent: how a topic of everybody's is, who a session is, a taunt.
Sent == [kind : {"slot", "game"}, value : Nat, sid : {0}]
        \cup [kind : {"profile"}, value : BOOLEAN, sid : Nat \ {0}]
        \cup [kind : {"taunt"}, value : Fan!Taunts, sid : {0}]

Links  == [pc : Fan!Stages, rx : Seq(Sent), lag : BOOLEAN, replay : Seq(Fan!Taunts)]
Phones == [slot : Nat, game : Nat, profile : BOOLEAN, hint : BOOLEAN, sid : Nat, boot : Nat,
           status : {"asked", "answered", "done"}, answer : Nat]

\* "No event" is none.
NoneSent == NoEvent \notin Sent

FanTypes ==
  /\ truth \in [{"slot", "game"} -> Nat]
  /\ writer \in [Writer -> Sent \cup {NoEvent}]
  /\ \A w \in Writer : writer[w] # NoEvent => writer[w].kind # "taunt"
  /\ seat \in [sid : Nat, bound : BOOLEAN]
  /\ ghosts \in Seq(Fan!Ghost)
  /\ minted \in Nat /\ boot \in Nat \ {0}
  /\ taunt \in [n : 0 .. MaxTaunts, pushed : BOOLEAN] /\ (taunt.pushed => taunt.n # 0)
  /\ link \in Links /\ phone \in Phones
  /\ off \subseteq Fan!Topic /\ excused \subseteq Fan!Taunts
  /\ seen \in [Fan!Taunts -> Nat]

\* The values the steps assign.
LEMMA FanValues ==
  /\ Fan!Down \in Links /\ Fan!Down.rx = <<>> /\ Fan!Down.replay = <<>> /\ Fan!Down.lag = FALSE
  /\ Fan!Down.pc = "down"
  /\ \A h \in BOOLEAN : Fan!Page(h) \in Phones
  /\ Fan!Page(FALSE) \in Phones /\ Fan!Page(FALSE).boot = 0 /\ Fan!Page(FALSE).game = 0
<1>1. /\ Fan!Down \in Links /\ Fan!Down.rx = <<>> /\ Fan!Down.replay = <<>> /\ Fan!Down.lag = FALSE
      /\ Fan!Down.pc = "down"
  BY DEF Fan!Down, Links, Fan!Stages
<1>2. ASSUME NEW h \in BOOLEAN PROVE Fan!Page(h) \in Phones
  BY <1>2 DEF Fan!Page, Phones
<1>3. Fan!Page(FALSE).boot = 0 /\ Fan!Page(FALSE).game = 0
  BY DEF Fan!Page
<1>4. Fan!Page(FALSE) \in Phones
  BY <1>2
<1> QED
  BY <1>1, <1>2, <1>3, <1>4

\* The initial state has its types.
LEMMA FanTypesInit == ASSUME Rooms, Fan!Init PROVE FanTypes
<1>1. truth \in [{"slot", "game"} -> Nat]
  BY DEF Fan!Init
<1>2. /\ seat \in [sid : Nat, bound : BOOLEAN] /\ minted \in Nat /\ boot \in Nat \ {0}
      /\ taunt \in [n : 0 .. MaxTaunts, pushed : BOOLEAN] /\ ~taunt.pushed
  BY DEF Fan!Init, Fan!NoSeat, Rooms
<1>3. link \in Links /\ phone \in Phones /\ ghosts \in Seq(Fan!Ghost)
  <2>1. ghosts \in Seq(Fan!Ghost)
    BY DEF Fan!Init
  <2> QED
    BY <2>1, FanValues DEF Fan!Init
<1>4. writer \in [Writer -> Sent \cup {NoEvent}] /\ \A w \in Writer : writer[w] = NoEvent
  BY DEF Fan!Init
<1>5. off \subseteq Fan!Topic /\ excused \subseteq Fan!Taunts /\ seen \in [Fan!Taunts -> Nat]
  BY DEF Fan!Init
<1> QED
  BY <1>1, <1>2, <1>3, <1>4, <1>5 DEF FanTypes

\* The parts of the state have their types.
LEMMA FanParts ==
  ASSUME FanTypes
  PROVE  /\ link.pc \in Fan!Stages /\ link.rx \in Seq(Sent) /\ link.lag \in BOOLEAN /\ link.replay \in Seq(Fan!Taunts)
         /\ seat.sid \in Nat /\ seat.bound \in BOOLEAN /\ taunt.n \in 0 .. MaxTaunts /\ taunt.pushed \in BOOLEAN
         /\ phone.slot \in Nat /\ phone.game \in Nat /\ phone.profile \in BOOLEAN /\ phone.hint \in BOOLEAN
         /\ phone.sid \in Nat /\ phone.boot \in Nat /\ phone.answer \in Nat
         /\ truth.slot \in Nat /\ truth.game \in Nat
  BY DEF FanTypes, Links, Phones

\* Only a stage of the socket changes.
LEMMA StageTypes ==
  ASSUME FanTypes, NEW pc \in Fan!Stages
  PROVE  /\ Fan!At(pc) \in Links /\ Fan!At(pc).pc = pc /\ Fan!At(pc).rx = link.rx /\ Fan!At(pc).lag = link.lag
         /\ Fan!At(pc).replay = link.replay
  BY DEF FanTypes, Fan!At, Links

\* An event that is received is behind the others; in a full ring the first makes room.
LEMMA ReceiveTypes ==
  ASSUME Rooms, FanTypes, NEW e \in Sent, link' = Fan!Receive(e)
  PROVE  /\ link' \in Links /\ link'.pc = link.pc /\ link'.replay = link.replay
         /\ ~Fan!Subscribed => link'.rx = link.rx /\ link'.lag = link.lag
         /\ Fan!Subscribed /\ ~Fan!Overflows => link'.rx = Append(link.rx, e) /\ link'.lag = link.lag
         /\ Fan!Overflows => /\ link'.lag = TRUE /\ Len(link'.rx) >= Cap
                             /\ link'.rx = Append(Tail(link.rx), e)
<1>0. link \in Links /\ link.rx \in Seq(Sent) /\ Len(link.rx) \in Nat
  BY FanParts DEF FanTypes
<1>1. CASE ~Fan!Subscribed
  BY <1>0, <1>1 DEF Fan!Receive, Fan!Overflows
<1>2. CASE Fan!Subscribed /\ ~Fan!Overflows
  <2>1. link' = [link EXCEPT !.rx = Append(@, e)]
    BY <1>2 DEF Fan!Receive
  <2>2. Append(link.rx, e) \in Seq(Sent)
    BY <1>0
  <2> QED
    BY <1>0, <1>2, <2>1, <2>2 DEF Links
<1>3. CASE Fan!Overflows
  <2>0. Fan!Subscribed /\ Len(link.rx) >= Cap /\ Cap \in Nat \ {0}
    BY <1>3 DEF Fan!Overflows, Rooms
  <2>1. link' = [link EXCEPT !.rx = Append(Tail(@), e), !.lag = TRUE]
    BY <1>3, <2>0 DEF Fan!Receive
  <2>2. /\ Append(Tail(link.rx), e) \in Seq(Sent)
        /\ Len(Append(Tail(link.rx), e)) = Len(link.rx)
    BY <1>0, <2>0
  <2> QED
    BY <1>0, <1>3, <2>0, <2>1, <2>2 DEF Links
<1> QED
  BY <1>1, <1>2, <1>3

\* Every step keeps the types.
LEMMA FanTypesNext == ASSUME Rooms, NoneSent, FanTypes, [Fan!Next]_(Fan!vars) PROVE FanTypes'
<1>0. /\ truth \in [{"slot", "game"} -> Nat]
      /\ writer \in [Writer -> Sent \cup {NoEvent}]
      /\ \A w \in Writer : writer[w] # NoEvent => writer[w].kind # "taunt"
      /\ seat \in [sid : Nat, bound : BOOLEAN]
      /\ ghosts \in Seq(Fan!Ghost)
      /\ minted \in Nat /\ boot \in Nat \ {0}
      /\ taunt \in [n : 0 .. MaxTaunts, pushed : BOOLEAN] /\ (taunt.pushed => taunt.n # 0)
      /\ link \in Links /\ phone \in Phones
      /\ off \subseteq Fan!Topic /\ excused \subseteq Fan!Taunts
      /\ seen \in [Fan!Taunts -> Nat]
  BY DEF FanTypes
<1>p. /\ link.pc \in Fan!Stages /\ link.rx \in Seq(Sent) /\ link.lag \in BOOLEAN /\ link.replay \in Seq(Fan!Taunts)
      /\ seat.sid \in Nat /\ seat.bound \in BOOLEAN /\ taunt.n \in 0 .. MaxTaunts /\ taunt.pushed \in BOOLEAN
      /\ phone.sid \in Nat /\ phone.boot \in Nat /\ phone.answer \in Nat
      /\ truth.slot \in Nat /\ truth.game \in Nat
  BY FanParts
<1>1. ASSUME NEW w \in Writer, NEW t \in {"slot", "game"}, Fan!ChangeState(w, t) PROVE FanTypes'
  <2>1. PICK e : e = Fan!Event(t, truth[t] + 1, 0)
    OBVIOUS
  <2>2. e \in Sent /\ e.kind # "taunt"
    BY <1>0, <2>1 DEF Fan!Event, Sent
  <2>3. writer' = [writer EXCEPT ![w] = e] /\ truth' \in [{"slot", "game"} -> Nat]
    BY <1>0, <1>1, <2>1 DEF Fan!ChangeState
  <2>4. /\ writer' \in [Writer -> Sent \cup {NoEvent}]
        /\ \A v \in Writer : writer'[v] # NoEvent => writer'[v].kind # "taunt"
    BY <1>0, <2>2, <2>3
  <2> QED
    BY <1>0, <1>1, <2>3, <2>4 DEF Fan!ChangeState, FanTypes
<1>2. ASSUME NEW w \in Writer, NEW b \in BOOLEAN, Fan!SwitchProfile(w, b) PROVE FanTypes'
  <2>1. PICK e : e = Fan!Event("profile", b, seat.sid)
    OBVIOUS
  <2>2. e \in Sent /\ e.kind # "taunt"
    BY <1>2, <1>p, <2>1 DEF Fan!Event, Sent, Fan!SwitchProfile
  <2>3. writer' = [writer EXCEPT ![w] = e]
    BY <1>2, <2>1 DEF Fan!SwitchProfile
  <2>4. /\ writer' \in [Writer -> Sent \cup {NoEvent}]
        /\ \A v \in Writer : writer'[v] # NoEvent => writer'[v].kind # "taunt"
    BY <1>0, <2>2, <2>3
  <2>5. seat' \in [sid : Nat, bound : BOOLEAN]
    BY <1>0, <1>2 DEF Fan!SwitchProfile
  <2> QED
    BY <1>0, <1>2, <2>4, <2>5 DEF Fan!SwitchProfile, FanTypes
<1>3. ASSUME NEW w \in Writer, Fan!SendEvent(w) PROVE FanTypes'
  <2>1. writer[w] \in Sent /\ link' = Fan!Receive(writer[w])
    BY <1>0, <1>3 DEF Fan!SendEvent
  <2>2. link' \in Links
    BY <2>1, ReceiveTypes
  <2>3. /\ writer' \in [Writer -> Sent \cup {NoEvent}]
        /\ \A v \in Writer : writer'[v] # NoEvent => writer'[v].kind # "taunt"
    BY <1>0, <1>3 DEF Fan!SendEvent
  <2>4. excused' \subseteq Fan!Taunts
    BY <1>0, <1>3 DEF Fan!SendEvent, Fan!TauntsIn
  <2>5. off' \subseteq Fan!Topic
    <3>1. writer[w].kind \in Fan!Topic
      BY <1>0, <1>3, <2>1 DEF Fan!SendEvent, Sent, Fan!Topic
    <3>2. Fan!OffAfter(w, writer[w]) \subseteq Fan!Topic
      BY <1>0, <3>1, Zenon DEF Fan!OffAfter
    <3> QED
      BY <1>0, <1>3, <3>2 DEF Fan!SendEvent
  <2> QED
    BY <1>0, <1>3, <2>2, <2>3, <2>4, <2>5 DEF Fan!SendEvent, FanTypes
<1>4. ASSUME Fan!PushTaunt PROVE FanTypes'
  <2>1. taunt.n + 1 \in Fan!Taunts /\ taunt.n + 1 \in 0 .. MaxTaunts
    BY <1>4, <1>p DEF Fan!PushTaunt, Fan!Taunts, Rooms
  <2>2. taunt' \in [n : 0 .. MaxTaunts, pushed : BOOLEAN] /\ taunt'.n # 0
    BY <1>4, <1>p, <2>1 DEF Fan!PushTaunt
  <2>3. \A i \in DOMAIN ghosts : ghosts[i] \in Fan!Ghost /\ ghosts[i].buf \in Seq(Fan!Taunts)
    <3>1. \A i \in DOMAIN ghosts : ghosts[i] \in Fan!Ghost
      BY <1>0
    <3> QED
      BY <3>1 DEF Fan!Ghost
  <2>4. \A i \in DOMAIN ghosts : Fan!Buffered(ghosts[i], taunt.n + 1) \in Fan!Ghost
    <3> SUFFICES ASSUME NEW i \in DOMAIN ghosts PROVE Fan!Buffered(ghosts[i], taunt.n + 1) \in Fan!Ghost
      OBVIOUS
    <3>1. PICK q : q = IF Len(ghosts[i].buf) >= ReplayLimit THEN Tail(ghosts[i].buf) ELSE ghosts[i].buf
      OBVIOUS
    <3>2. q \in Seq(Fan!Taunts)
      BY <2>3, <3>1 DEF Rooms
    <3>3. Append(q, taunt.n + 1) \in Seq(Fan!Taunts)
      BY <2>1, <3>2
    <3>4. Fan!Buffered(ghosts[i], taunt.n + 1) = [ghosts[i] EXCEPT !.buf = Append(q, taunt.n + 1)]
      BY <3>1 DEF Fan!Buffered
    <3> QED
      BY <2>3, <3>3, <3>4 DEF Fan!Ghost
  <2>5. ghosts' \in Seq(Fan!Ghost)
    <3>1. ghosts' = [i \in 1 .. Len(ghosts) |-> Fan!Buffered(ghosts[i], taunt.n + 1)]
      BY <1>0, <1>4 DEF Fan!PushTaunt
    <3> QED
      BY <1>0, <2>4, <3>1
  <2>6. excused' \subseteq Fan!Taunts
    <3>1. \A i \in DOMAIN ghosts : Len(ghosts[i].buf) >= ReplayLimit => Head(ghosts[i].buf) \in Fan!Taunts
      BY <2>3 DEF Rooms
    <3> QED
      BY <1>0, <1>4, <2>1, <3>1 DEF Fan!PushTaunt
  <2> QED
    BY <1>0, <1>4, <2>2, <2>5, <2>6 DEF Fan!PushTaunt, FanTypes
<1>5. ASSUME Fan!SendTaunt PROVE FanTypes'
  <2>1. PICK e : e = Fan!Event("taunt", taunt.n, 0)
    OBVIOUS
  <2>2. e \in Sent /\ taunt.n \in Fan!Taunts
    BY <1>0, <1>5, <1>p, <2>1 DEF Fan!SendTaunt, Fan!Event, Sent, Fan!Taunts
  <2>3. link' \in Links
    BY <1>5, <2>1, <2>2, ReceiveTypes DEF Fan!SendTaunt
  <2>4. taunt' \in [n : 0 .. MaxTaunts, pushed : BOOLEAN] /\ ~taunt'.pushed
    BY <1>0, <1>5 DEF Fan!SendTaunt
  <2>5. excused' \subseteq Fan!Taunts /\ off' \subseteq Fan!Topic
    BY <1>0, <1>5, <2>2 DEF Fan!SendTaunt, Fan!TauntsIn
  <2> QED
    BY <1>0, <1>5, <2>3, <2>4, <2>5 DEF Fan!SendTaunt, FanTypes
<1>6. ASSUME Fan!Reclaim PROVE FanTypes'
  <2>1. Head(ghosts) \in Fan!Ghost /\ Tail(ghosts) \in Seq(Fan!Ghost)
    BY <1>0, <1>6 DEF Fan!Reclaim
  <2>2. Head(ghosts).buf \in Seq(Fan!Taunts) /\ Head(ghosts).sid \in Nat
    BY <2>1 DEF Fan!Ghost
  <2>3. seat' \in [sid : Nat, bound : BOOLEAN]
    BY <1>6, <2>2 DEF Fan!Reclaim
  <2>4. link' \in Links
    BY <1>0, <1>6, <2>2 DEF Fan!Reclaim, Links, Fan!Stages
  <2> QED
    BY <1>0, <1>6, <2>1, <2>3, <2>4 DEF Fan!Reclaim, FanTypes
<1>7. ASSUME Fan!Register PROVE FanTypes'
  <2>1. link' \in Links
    BY <1>7, StageTypes DEF Fan!Register, Fan!Stages
  <2>2. seat' \in [sid : Nat, bound : BOOLEAN] /\ minted' \in Nat
    BY <1>0, <1>7 DEF Fan!Register
  <2>3. ghosts' \in Seq(Fan!Ghost)
    <3>1. Len(ghosts) >= MaxSessions => Tail(ghosts) \in Seq(Fan!Ghost)
      BY <1>0 DEF Rooms
    <3> QED
      BY <1>0, <1>7, <3>1 DEF Fan!Register
  <2>4. excused' \subseteq Fan!Taunts
    BY <1>0, <1>7 DEF Fan!Register
  <2> QED
    BY <1>0, <1>7, <2>1, <2>2, <2>3, <2>4 DEF Fan!Register, FanTypes
<1>8. ASSUME Fan!Welcome PROVE FanTypes'
  <2>1. link' \in Links
    BY <1>8, StageTypes DEF Fan!Welcome, Fan!Stages
  <2>2. phone' \in Phones
    BY <1>0, <1>p, <1>8 DEF Fan!Welcome, Phones
  <2> QED
    BY <1>0, <1>8, <2>1, <2>2 DEF Fan!Welcome, FanTypes
<1>9. ASSUME Fan!Reload PROVE FanTypes'
  <2>1. link' \in Links
    BY <1>9, StageTypes DEF Fan!Reload, Fan!Stages
  <2>2. phone' \in Phones
    BY <1>9, FanValues DEF Fan!Reload
  <2>3. off' \subseteq Fan!Topic /\ excused' \subseteq Fan!Taunts
    BY <1>0, <1>9 DEF Fan!Reload, Fan!Topic
  <2> QED
    BY <1>0, <1>9, <2>1, <2>2, <2>3 DEF Fan!Reload, FanTypes
<1>10. ASSUME Fan!ShowPortal PROVE FanTypes'
  <2>1. link' \in Links
    BY <1>10, StageTypes DEF Fan!ShowPortal, Fan!Stages
  <2>2. phone' \in Phones
    BY <1>0, <1>p, <1>10 DEF Fan!ShowPortal, Phones
  <2> QED
    BY <1>0, <1>10, <2>1, <2>2 DEF Fan!ShowPortal, FanTypes
<1>11. ASSUME Fan!TellProfile PROVE FanTypes'
  <2>1. link' \in Links
    BY <1>11, StageTypes DEF Fan!TellProfile, Fan!Stages
  <2>2. phone' \in Phones
    BY <1>0, <1>p, <1>11 DEF Fan!TellProfile, Phones
  <2> QED
    BY <1>0, <1>11, <2>1, <2>2 DEF Fan!TellProfile, FanTypes
<1>12. ASSUME Fan!Subscribe PROVE FanTypes'
  <2>1. link' \in Links
    <3>1. <<>> \in Seq(Fan!Taunts) /\ "serving" \in Fan!Stages
      BY DEF Fan!Stages
    <3>2. link' = [link EXCEPT !.pc = "serving", !.replay = <<>>]
      BY <1>12 DEF Fan!Subscribe
    <3> QED
      BY <1>0, <3>1, <3>2 DEF Links
  <2>2. seen' \in [Fan!Taunts -> Nat]
    <3>1. \A n \in Fan!Taunts : seen[n] \in Nat /\ seen[n] + 1 \in Nat
      BY <1>0
    <3> QED
      BY <1>12, <3>1 DEF Fan!Subscribe
  <2> QED
    BY <1>0, <1>12, <2>1, <2>2 DEF Fan!Subscribe, FanTypes
<1>13. ASSUME Fan!GoDeaf \/ Fan!Drop PROVE FanTypes'
  <2>1. link' \in Links
    <3>1. \A pc \in Fan!Stages : [Fan!Down EXCEPT !.pc = pc] \in Links
      BY FanValues DEF Links
    <3>2. link' = [Fan!Down EXCEPT !.pc = "deaf"] \/ link' = [Fan!Down EXCEPT !.pc = "closing"]
      BY <1>13 DEF Fan!GoDeaf, Fan!Drop, Fan!Break
    <3> QED
      BY <3>1, <3>2 DEF Fan!Stages
  <2>2. off' \subseteq Fan!Topic /\ excused' \subseteq Fan!Taunts
    <3>1. {link.rx[i].kind : i \in {k \in DOMAIN link.rx : link.rx[k].kind = "game"}} \subseteq Fan!Topic
      BY DEF Fan!Topic
    <3> QED
      BY <1>0, <1>13, <3>1 DEF Fan!GoDeaf, Fan!Drop, Fan!Break, Fan!TauntsIn
  <2> QED
    BY <1>0, <1>13, <2>1, <2>2 DEF Fan!GoDeaf, Fan!Drop, Fan!Break, FanTypes
<1>14. ASSUME Fan!Depart PROVE FanTypes'
  <2>1. link' \in Links
    BY <1>14, FanValues DEF Fan!Depart
  <2>2. seat' \in [sid : Nat, bound : BOOLEAN]
    BY <1>14 DEF Fan!Depart, Fan!NoSeat
  <2>3. ghosts' \in Seq(Fan!Ghost)
    <3>1. [sid |-> seat.sid, buf |-> <<>>] \in Fan!Ghost
      BY <1>p DEF Fan!Ghost
    <3> QED
      BY <1>0, <1>14, <3>1 DEF Fan!Depart
  <2> QED
    BY <1>0, <1>14, <2>1, <2>2, <2>3 DEF Fan!Depart, FanTypes
<1>15. ASSUME Fan!GhostExpires PROVE FanTypes'
  <2>1. ghosts' \in Seq(Fan!Ghost) /\ excused' \subseteq Fan!Taunts
    BY <1>0, <1>15 DEF Fan!GhostExpires
  <2> QED
    BY <1>0, <1>15, <2>1 DEF Fan!GhostExpires, FanTypes
<1>16. ASSUME Fan!AnswerStatus PROVE FanTypes'
  <2>1. phone' \in Phones
    BY <1>0, <1>p, <1>16 DEF Fan!AnswerStatus, Phones
  <2> QED
    BY <1>0, <1>16, <2>1 DEF Fan!AnswerStatus, FanTypes
<1>17. ASSUME Fan!OpenSocket PROVE FanTypes'
  <2>1. link' \in Links
    BY <1>17, StageTypes DEF Fan!OpenSocket, Fan!Stages
  <2> QED
    BY <1>0, <1>17, <2>1 DEF Fan!OpenSocket, FanTypes
<1>18. ASSUME Fan!OnMessage PROVE FanTypes'
  <2>1. Head(link.rx) \in Sent /\ Tail(link.rx) \in Seq(Sent)
    BY <1>p, <1>18 DEF Fan!OnMessage
  <2>2. link' \in Links
    BY <1>0, <1>18, <2>1 DEF Fan!OnMessage, Links
  <2>3. PICK e \in Sent : e = Head(link.rx)
    BY <2>1
  <2>4. /\ e.kind \in {"slot", "game"} => e.value \in Nat
        /\ e.kind = "profile" => e.value \in BOOLEAN
        /\ e.kind = "taunt" => e.value \in Fan!Taunts
        /\ e.kind \in {"slot", "game", "profile", "taunt"}
    BY DEF Sent
  <2>5. phone' = Fan!Applied(e) /\ seen' = IF e.kind = "taunt" THEN [seen EXCEPT ![e.value] = @ + 1] ELSE seen
    BY <1>18, <2>3 DEF Fan!OnMessage
  <2>6. phone' \in Phones
    BY <1>0, <2>4, <2>5 DEF Fan!Applied, Phones
  <2>7. seen' \in [Fan!Taunts -> Nat]
    BY <1>0, <2>4, <2>5
  <2> QED
    BY <1>0, <1>18, <2>2, <2>6, <2>7 DEF Fan!OnMessage, FanTypes
<1>19. ASSUME Fan!ApplyStatus PROVE FanTypes'
  <2>1. phone' \in Phones
    BY <1>0, <1>p, <1>19 DEF Fan!ApplyStatus, Phones
  <2>2. off' \subseteq Fan!Topic
    BY <1>0, <1>19 DEF Fan!ApplyStatus, Fan!Topic
  <2> QED
    BY <1>0, <1>19, <2>1, <2>2 DEF Fan!ApplyStatus, FanTypes
<1>20. ASSUME Fan!Restart PROVE FanTypes'
  <2>1. link' \in Links /\ seat' \in [sid : Nat, bound : BOOLEAN] /\ ghosts' \in Seq(Fan!Ghost)
    BY <1>20, FanValues DEF Fan!Restart, Fan!NoSeat
  <2>2. truth' \in [{"slot", "game"} -> Nat] /\ minted' \in Nat /\ boot' \in Nat \ {0}
    BY <1>0, <1>20 DEF Fan!Restart
  <2>3. taunt' \in [n : 0 .. MaxTaunts, pushed : BOOLEAN] /\ ~taunt'.pushed
    BY <1>0, <1>20 DEF Fan!Restart
  <2>4. excused' \subseteq Fan!Taunts
    BY <1>p, <1>20 DEF Fan!Restart, Fan!Taunts, Rooms
  <2>5. off' \subseteq Fan!Topic
    BY <1>20 DEF Fan!Restart, Fan!Topic
  <2>6. writer' \in [Writer -> Sent \cup {NoEvent}] /\ \A w \in Writer : writer'[w] = NoEvent
    BY <1>20 DEF Fan!Restart
  <2> QED
    BY <1>0, <1>20, <2>1, <2>2, <2>3, <2>4, <2>5, <2>6 DEF Fan!Restart, FanTypes
<1>21. CASE UNCHANGED Fan!vars
  BY <1>0, <1>21 DEF Fan!vars, FanTypes
<1> QED
  BY <1>1, <1>2, <1>3, <1>4, <1>5, <1>6, <1>7, <1>8, <1>9, <1>10, <1>11, <1>12, <1>13, <1>14,
     <1>15, <1>16, <1>17, <1>18, <1>19, <1>20, <1>21 DEF Fan!Next, Fan!Serve

\* Queues: an event behind the others, and the first one read.
LEMMA AgreeOnNone ==
  ASSUME NEW t, NEW sid, NEW shown, NEW now
  PROVE  Fan!WillAgree(<<>>, t, sid, shown, now) <=> Fan!Agree(t, shown, now)
<1>1. DOMAIN <<>> = {}
  OBVIOUS
<1>2. ~Fan!Told(<<>>, t, sid)
  BY <1>1 DEF Fan!Told
<1> QED
  BY <1>2 DEF Fan!WillAgree

\* With nothing under way of the topic it is what the phone shows that counts.
LEMMA AgreeWhenUntold ==
  ASSUME NEW q, NEW t, NEW sid, NEW shown, NEW now, ~Fan!Told(q, t, sid)
  PROVE  Fan!WillAgree(q, t, sid, shown, now) <=> Fan!Agree(t, shown, now)
  BY DEF Fan!WillAgree

\* An event behind the others settles a topic that it tells of, and no other.
LEMMA AgreeBehind ==
  ASSUME NEW q \in Seq(Sent), NEW e \in Sent, NEW t, NEW sid, NEW shown, NEW now
  PROVE  /\ ~Fan!Tells(e, t, sid) => /\ Fan!Told(Append(q, e), t, sid) <=> Fan!Told(q, t, sid)
                                     /\ Fan!WillAgree(q, t, sid, shown, now)
                                          => Fan!WillAgree(Append(q, e), t, sid, shown, now)
         /\ Fan!Tells(e, t, sid) /\ e.value = now => Fan!WillAgree(Append(q, e), t, sid, shown, now)
<1>1. PICK r : r = Append(q, e)
  OBVIOUS
<1>2. /\ DOMAIN q = 1 .. Len(q) /\ DOMAIN r = 1 .. Len(q) + 1 /\ Len(q) \in Nat
      /\ \A i \in DOMAIN q : r[i] = q[i] /\ i \in DOMAIN r
      /\ r[Len(q) + 1] = e
  BY <1>1
<1>3. ASSUME ~Fan!Tells(e, t, sid) PROVE \A i \in DOMAIN r : Fan!Tells(r[i], t, sid) => i \in DOMAIN q
  <2>1. \A i \in DOMAIN r : i \in DOMAIN q \/ i = Len(q) + 1
    BY <1>2
  <2> QED
    BY <1>2, <1>3, <2>1
<1>4. ASSUME ~Fan!Tells(e, t, sid) PROVE Fan!Told(r, t, sid) <=> Fan!Told(q, t, sid)
  BY <1>2, <1>3, <1>4 DEF Fan!Told
<1>5. ASSUME ~Fan!Tells(e, t, sid), Fan!WillAgree(q, t, sid, shown, now)
      PROVE  Fan!WillAgree(r, t, sid, shown, now)
  <2>1. CASE Fan!Told(q, t, sid)
    <3>1. PICK i \in DOMAIN q : /\ Fan!Tells(q[i], t, sid) /\ q[i].value = now
                                /\ \A j \in DOMAIN q : Fan!Tells(q[j], t, sid) => j <= i
      BY <1>5, <2>1 DEF Fan!WillAgree
    <3>2. /\ i \in DOMAIN r /\ Fan!Tells(r[i], t, sid) /\ r[i].value = now
          /\ \A j \in DOMAIN r : Fan!Tells(r[j], t, sid) => j <= i
      BY <1>2, <1>3, <1>5, <3>1
    <3>3. Fan!Told(r, t, sid)
      BY <1>4, <1>5, <2>1
    <3> QED
      BY <3>2, <3>3 DEF Fan!WillAgree
  <2>2. CASE ~Fan!Told(q, t, sid)
    <3>1. ~Fan!Told(r, t, sid)
      BY <1>4, <1>5, <2>2
    <3> QED
      BY <1>5, <2>2, <3>1 DEF Fan!WillAgree
  <2> QED
    BY <2>1, <2>2
<1>6. ASSUME Fan!Tells(e, t, sid), e.value = now PROVE Fan!WillAgree(r, t, sid, shown, now)
  <2>1. /\ Len(q) + 1 \in DOMAIN r /\ Fan!Tells(r[Len(q) + 1], t, sid) /\ r[Len(q) + 1].value = now
        /\ \A j \in DOMAIN r : j <= Len(q) + 1
    BY <1>2, <1>6
  <2>2. Fan!Told(r, t, sid)
    BY <2>1 DEF Fan!Told
  <2> QED
    BY <2>1, <2>2 DEF Fan!WillAgree
<1> QED
  BY <1>1, <1>4, <1>5, <1>6

\* The phone that reads the first event shows it, and still will agree.
LEMMA AgreeAfterFirst ==
  ASSUME NEW q \in Seq(Sent), q # <<>>, NEW t, NEW sid, NEW shown, NEW now,
         Fan!WillAgree(q, t, sid, shown, now)
  PROVE  Fan!WillAgree(Tail(q), t, sid, IF Fan!Tells(Head(q), t, sid) THEN Head(q).value ELSE shown, now)
<1>1. PICK r : r = Tail(q)
  OBVIOUS
<1>2. /\ DOMAIN q = 1 .. Len(q) /\ DOMAIN r = 1 .. Len(q) - 1 /\ Len(q) \in Nat \ {0}
      /\ \A i \in DOMAIN r : r[i] = q[i + 1] /\ i + 1 \in DOMAIN q
      /\ \A i \in DOMAIN q : i # 1 => i - 1 \in DOMAIN r /\ r[i - 1] = q[i] /\ i \in Nat
      /\ Head(q) = q[1] /\ 1 \in DOMAIN q
  BY <1>1
<1>3. PICK s : s = IF Fan!Tells(Head(q), t, sid) THEN Head(q).value ELSE shown
  OBVIOUS
<1>4. CASE ~Fan!Told(q, t, sid)
  <2>1. ~Fan!Told(r, t, sid) /\ ~Fan!Tells(Head(q), t, sid)
    BY <1>2, <1>4 DEF Fan!Told
  <2> QED
    BY <1>1, <1>4, <2>1 DEF Fan!WillAgree
<1>5. CASE Fan!Told(q, t, sid)
  <2>1. PICK i \in DOMAIN q : /\ Fan!Tells(q[i], t, sid) /\ q[i].value = now
                              /\ \A j \in DOMAIN q : Fan!Tells(q[j], t, sid) => j <= i
    BY <1>5 DEF Fan!WillAgree
  <2>2. CASE i = 1
    <3>1. \A j \in DOMAIN r : ~Fan!Tells(r[j], t, sid)
      <4>1. \A j \in DOMAIN r : ~(j + 1 <= i)
        BY <1>2, <2>2
      <4> QED
        BY <1>2, <2>1, <4>1
    <3>2. ~Fan!Told(r, t, sid) /\ s = now
      BY <1>2, <1>3, <2>1, <2>2, <3>1 DEF Fan!Told
    <3> QED
      BY <1>1, <1>3, <3>2 DEF Fan!WillAgree, Fan!Agree
  <2>3. CASE i # 1
    <3>1. i - 1 \in DOMAIN r /\ Fan!Tells(r[i - 1], t, sid) /\ r[i - 1].value = now
      BY <1>2, <2>1, <2>3
    <3>2. \A j \in DOMAIN r : Fan!Tells(r[j], t, sid) => j <= i - 1
      <4>1. \A j \in DOMAIN r : Fan!Tells(r[j], t, sid) => j + 1 <= i
        BY <1>2, <2>1
      <4> QED
        BY <1>2, <4>1
    <3>3. Fan!Told(r, t, sid)
      BY <3>1 DEF Fan!Told
    <3> QED
      BY <1>1, <3>1, <3>2, <3>3 DEF Fan!WillAgree
  <2> QED
    BY <2>2, <2>3
<1> QED
  BY <1>4, <1>5

\* Where a topic is kept.
LEMMA TopicsAre ==
  /\ Fan!Shows("slot") = phone.slot /\ Fan!Shows("game") = phone.game /\ Fan!Shows("profile") = phone.profile
  /\ Fan!Now("slot") = truth.slot /\ Fan!Now("game") = truth.game /\ Fan!Now("profile") = seat.bound
  /\ Fan!Follows("slot") <=> link.pc \in {"shown", "told", "serving"}
  /\ Fan!Follows("profile") <=> link.pc \in {"told", "serving"}
  /\ Fan!Follows("game") <=> phone.boot \in {0, boot}
  BY DEF Fan!Shows, Fan!Now, Fan!Follows

\* The same of the next state.
LEMMA TopicsNext ==
  /\ Fan!Shows("slot")' = phone'.slot /\ Fan!Shows("game")' = phone'.game /\ Fan!Shows("profile")' = phone'.profile
  /\ Fan!Now("slot")' = truth'.slot /\ Fan!Now("game")' = truth'.game /\ Fan!Now("profile")' = seat'.bound
  /\ Fan!Follows("slot")' <=> link'.pc \in {"shown", "told", "serving"}
  /\ Fan!Follows("profile")' <=> link'.pc \in {"told", "serving"}
  /\ Fan!Follows("game")' <=> phone'.boot \in {0, boot'}
  BY DEF Fan!Shows, Fan!Now, Fan!Follows

\* A writer that is to tell how the topic is now stays, unless it is the one that sends.
LEMMA PendsStays ==
  ASSUME NEW t \in Fan!Topic, Fan!Pends(t), Fan!Now(t)' = Fan!Now(t), t = "profile" => seat'.sid = seat.sid,
         \A w \in Writer : writer[w] # NoEvent /\ Fan!Tells(writer[w], t, seat.sid) /\ writer[w].value = Fan!Now(t)
                             => writer'[w] = writer[w]
  PROVE  Fan!Pends(t)'
<1>1. PICK w \in Writer : writer[w] # NoEvent /\ Fan!Tells(writer[w], t, seat.sid) /\ writer[w].value = Fan!Now(t)
  BY DEF Fan!Pends
<1>2. writer'[w] = writer[w] /\ Fan!Tells(writer[w], t, seat'.sid)
  BY <1>1 DEF Fan!Tells
<1> QED
  BY <1>1, <1>2 DEF Fan!Pends

\* What a step does not touch of a topic stays as it is.
LEMMA Unseen ==
  ASSUME NEW t \in Fan!Topic, Fan!ViewOf(t), Fan!Follows(t)' => Fan!Follows(t), UNCHANGED writer,
         Fan!Now(t)' = Fan!Now(t), Fan!Shows(t)' = Fan!Shows(t), link'.rx = link.rx,
         t = "profile" => phone'.sid = phone.sid /\ seat'.sid = seat.sid
  PROVE  Fan!ViewOf(t)'
<1>1. CASE ~Fan!Follows(t)'
  BY <1>1 DEF Fan!ViewOf
<1>2. CASE Fan!Pends(t)
  <2>1. Fan!Pends(t)'
    BY <1>2, PendsStays
  <2> QED
    BY <2>1 DEF Fan!ViewOf
<1>3. CASE Fan!WillAgree(link.rx, t, phone.sid, Fan!Shows(t), Fan!Now(t))
  <2>1. \A e : Fan!Tells(e, t, phone'.sid) <=> Fan!Tells(e, t, phone.sid)
    BY DEF Fan!Tells
  <2>2. Fan!Told(link.rx, t, phone'.sid) <=> Fan!Told(link.rx, t, phone.sid)
    BY <2>1 DEF Fan!Told
  <2>3. Fan!WillAgree(link.rx, t, phone'.sid, Fan!Shows(t), Fan!Now(t))
    BY <1>3, <2>1, <2>2 DEF Fan!WillAgree
  <2>4. Fan!WillAgree(link'.rx, t, phone'.sid, Fan!Shows(t)', Fan!Now(t)')
    BY <2>3
  <2> QED
    BY <2>4 DEF Fan!ViewOf
<1> QED
  BY <1>1, <1>2, <1>3 DEF Fan!ViewOf

\* A page that has just been loaded, with no game running.
LEMMA ViewInit == ASSUME Rooms, Fan!Init PROVE Fan!ViewInv
<1>1. link = Fan!Down /\ link.rx = <<>> /\ link.replay = <<>> /\ link.lag = FALSE /\ link.pc = "down"
  BY FanValues DEF Fan!Init
<1>2. phone.boot = 0 /\ phone.game = 0 /\ boot = 1 /\ truth.game = 0
  BY FanValues DEF Fan!Init
<1>3. Fan!LinkIsKnown
  BY <1>1, <1>2 DEF Fan!LinkIsKnown
<1>4. ~Fan!Follows("slot") /\ ~Fan!Follows("profile")
  BY <1>1, TopicsAre
<1>5. Fan!WillAgree(link.rx, "game", phone.sid, Fan!Shows("game"), Fan!Now("game"))
  <2>1. Fan!Agree("game", Fan!Shows("game"), Fan!Now("game"))
    BY <1>2, TopicsAre DEF Fan!Agree
  <2> QED
    BY <1>1, <2>1, AgreeOnNone
<1> QED
  BY <1>1, <1>3, <1>4, <1>5 DEF Fan!ViewInv, Fan!ViewOf, Fan!Topic

\* Every step keeps LinkIsKnown, by what it does to the socket.
LEMMA LinkKnownNext ==
  ASSUME Rooms, NoneSent, FanTypes, Fan!LinkIsKnown, [Fan!Next]_(Fan!vars) PROVE Fan!LinkIsKnown'
<1>0. /\ link.rx # <<>> => link.pc = "serving"
      /\ link.replay # <<>> => link.pc \in {"chosen", "welcomed", "shown", "told", "closing"}
      /\ link.lag => link.pc = "serving" /\ Len(link.rx) >= Cap /\ {"slot", "profile"} \subseteq off
      /\ link.pc \in {"welcomed", "shown", "told", "serving", "deaf"} =>
           phone.sid = seat.sid /\ phone.boot = boot
      /\ phone.boot <= boot
  BY DEF Fan!LinkIsKnown
<1>p. /\ link \in Links /\ link.pc \in Fan!Stages /\ link.rx \in Seq(Sent) /\ link.replay \in Seq(Fan!Taunts)
      /\ phone.boot \in Nat /\ boot \in Nat \ {0} /\ phone \in Phones
  BY FanParts DEF FanTypes
\* An event is sent.
<1>s. ASSUME NEW e \in Sent, link' = Fan!Receive(e), UNCHANGED <<phone, seat, boot>>,
             ~Fan!Overflows /\ link.lag => {"slot", "profile"} \subseteq off', Fan!Overflows => off' = Fan!Topic
      PROVE  Fan!LinkIsKnown'
  <2>1. /\ link'.pc = link.pc /\ link'.replay = link.replay
        /\ ~Fan!Subscribed => link'.rx = link.rx /\ link'.lag = link.lag
        /\ Fan!Subscribed /\ ~Fan!Overflows => link'.lag = link.lag
        /\ Fan!Overflows => link'.lag = TRUE /\ Len(link'.rx) >= Cap
    BY <1>s, ReceiveTypes
  <2>2. link'.rx # <<>> => link'.pc = "serving"
    BY <1>0, <2>1 DEF Fan!Subscribed
  <2>3. link.lag => Fan!Overflows
    BY <1>0 DEF Fan!Overflows, Fan!Subscribed
  <2>4. link'.lag => link'.pc = "serving" /\ Len(link'.rx) >= Cap /\ {"slot", "profile"} \subseteq off'
    BY <1>s, <2>1, <2>3 DEF Fan!Overflows, Fan!Subscribed, Fan!Topic
  <2> QED
    BY <1>0, <1>s, <2>1, <2>2, <2>4 DEF Fan!LinkIsKnown
\* The task goes on to a stage at which nothing is under way, but for the replay.
<1>g. ASSUME NEW pc \in Fan!Stages, link.pc # "serving", link' = Fan!At(pc), phone'.boot <= boot', UNCHANGED boot,
             pc \in {"chosen", "welcomed", "shown", "told", "closing"} \/ link.pc \in {"down", "opening"},
             pc \in {"welcomed", "shown", "told", "serving", "deaf"} =>
               phone'.sid = seat'.sid /\ phone'.boot = boot'
      PROVE  Fan!LinkIsKnown'
  <2>1. link'.pc = pc /\ link'.rx = link.rx /\ link'.lag = link.lag /\ link'.replay = link.replay
    BY <1>g, StageTypes
  <2>2. link.rx = <<>> /\ ~link.lag
    BY <1>0, <1>g
  <2> QED
    BY <1>0, <1>g, <2>1, <2>2 DEF Fan!LinkIsKnown
\* What does not touch the socket.
<1>u. ASSUME UNCHANGED <<link, boot>>, seat'.sid = seat.sid, phone'.sid = phone.sid, phone'.boot = phone.boot,
             link.lag => {"slot", "profile"} \subseteq off'
      PROVE  Fan!LinkIsKnown'
  BY <1>0, <1>u DEF Fan!LinkIsKnown
\* The socket is gone.
<1>d. ASSUME NEW pc \in {"down", "deaf", "closing"}, link' = [Fan!Down EXCEPT !.pc = pc], phone'.boot <= boot',
             pc = "deaf" => phone'.sid = seat'.sid /\ phone'.boot = boot'
      PROVE  Fan!LinkIsKnown'
  <2>1. link'.rx = <<>> /\ link'.replay = <<>> /\ link'.lag = FALSE /\ link'.pc = pc
    BY <1>d DEF Fan!Down
  <2> QED
    BY <1>d, <2>1 DEF Fan!LinkIsKnown
<1>e. [Fan!Down EXCEPT !.pc = "down"] = Fan!Down
  BY DEF Fan!Down
<1>1. ASSUME NEW w \in Writer, NEW t \in {"slot", "game"}, Fan!ChangeState(w, t) PROVE Fan!LinkIsKnown'
  BY <1>0, <1>1, <1>u DEF Fan!ChangeState
<1>2. ASSUME NEW w \in Writer, NEW b \in BOOLEAN, Fan!SwitchProfile(w, b) PROVE Fan!LinkIsKnown'
  <2>1. seat'.sid = seat.sid
    BY <1>2 DEF Fan!SwitchProfile, FanTypes
  <2> QED
    BY <1>0, <1>2, <2>1, <1>u DEF Fan!SwitchProfile
<1>3. ASSUME NEW w \in Writer, Fan!SendEvent(w) PROVE Fan!LinkIsKnown'
  <2>1. writer[w] \in Sent
    BY <1>3 DEF Fan!SendEvent, FanTypes
  <2>2. Fan!Overflows => off' = Fan!Topic
    BY <1>3 DEF Fan!SendEvent, Fan!OffAfter
  <2>3. link.lag => Fan!Overflows
    BY <1>0 DEF Fan!Overflows, Fan!Subscribed
  <2> QED
    BY <1>3, <2>1, <2>2, <2>3, <1>s DEF Fan!SendEvent
<1>4. ASSUME Fan!PushTaunt \/ Fan!GhostExpires PROVE Fan!LinkIsKnown'
  BY <1>0, <1>4, <1>u DEF Fan!PushTaunt, Fan!GhostExpires
<1>5. ASSUME Fan!SendTaunt PROVE Fan!LinkIsKnown'
  <2>1. PICK e : e = Fan!Event("taunt", taunt.n, 0)
    OBVIOUS
  <2>2. e \in Sent
    <3>1. taunt.n \in Fan!Taunts
      BY <1>5, FanParts DEF Fan!SendTaunt, FanTypes, Fan!Taunts
    <3> QED
      BY <2>1, <3>1 DEF Fan!Event, Sent
  <2>3. link.lag => Fan!Overflows
    BY <1>0 DEF Fan!Overflows, Fan!Subscribed
  <2> QED
    BY <1>5, <2>1, <2>2, <2>3, <1>s DEF Fan!SendTaunt
<1>6. ASSUME Fan!Reclaim PROVE Fan!LinkIsKnown'
  <2>1. link' = [link EXCEPT !.pc = "chosen", !.replay = Head(ghosts).buf] /\ link.pc = "opening"
    BY <1>6 DEF Fan!Reclaim
  <2>2. link'.pc = "chosen" /\ link'.rx = link.rx /\ link'.lag = link.lag
    BY <1>p, <2>1 DEF Links
  <2> QED
    BY <1>0, <1>6, <2>1, <2>2 DEF Fan!Reclaim, Fan!LinkIsKnown
<1>7. ASSUME Fan!Register PROVE Fan!LinkIsKnown'
  BY <1>0, <1>7, <1>g DEF Fan!Register, Fan!Stages
<1>8. ASSUME Fan!Welcome PROVE Fan!LinkIsKnown'
  <2>1. phone'.sid = seat'.sid /\ phone'.boot = boot
    BY <1>p, <1>8 DEF Fan!Welcome, Phones
  <2> QED
    BY <1>p, <1>8, <2>1, <1>g DEF Fan!Welcome, Fan!Stages
<1>9. ASSUME Fan!Reload PROVE Fan!LinkIsKnown'
  <2>1. phone'.boot = 0 /\ boot' = boot
    BY <1>9, FanValues DEF Fan!Reload
  <2>2. phone'.boot <= boot'
    BY <1>p, <2>1
  <2> QED
    BY <1>9, <2>2, <1>g DEF Fan!Reload, Fan!Stages
<1>10. ASSUME Fan!ShowPortal PROVE Fan!LinkIsKnown'
  <2>1. phone'.sid = phone.sid /\ phone'.boot = phone.boot
    BY <1>p, <1>10 DEF Fan!ShowPortal, Phones
  <2> QED
    BY <1>0, <1>10, <2>1, <1>g DEF Fan!ShowPortal, Fan!Stages
<1>11. ASSUME Fan!TellProfile PROVE Fan!LinkIsKnown'
  <2>1. phone'.sid = phone.sid /\ phone'.boot = phone.boot
    BY <1>p, <1>11 DEF Fan!TellProfile, Phones
  <2> QED
    BY <1>0, <1>11, <2>1, <1>g DEF Fan!TellProfile, Fan!Stages
<1>12. ASSUME Fan!Subscribe PROVE Fan!LinkIsKnown'
  <2>1. link' = [link EXCEPT !.pc = "serving", !.replay = <<>>] /\ link.pc = "told"
    BY <1>12 DEF Fan!Subscribe
  <2>2. link'.pc = "serving" /\ link'.rx = link.rx /\ link'.lag = link.lag /\ link'.replay = <<>>
    BY <1>p, <2>1 DEF Links
  <2> QED
    BY <1>0, <1>12, <2>1, <2>2 DEF Fan!Subscribe, Fan!LinkIsKnown
<1>13. ASSUME Fan!GoDeaf PROVE Fan!LinkIsKnown'
  BY <1>0, <1>13, <1>d DEF Fan!GoDeaf
<1>14. ASSUME Fan!Depart PROVE Fan!LinkIsKnown'
  BY <1>0, <1>14, <1>d, <1>e DEF Fan!Depart
<1>15. ASSUME Fan!AnswerStatus PROVE Fan!LinkIsKnown'
  <2>1. phone'.sid = phone.sid /\ phone'.boot = phone.boot
    BY <1>p, <1>15 DEF Fan!AnswerStatus, Phones
  <2> QED
    BY <1>0, <1>15, <2>1, <1>u DEF Fan!AnswerStatus
<1>16. ASSUME Fan!OpenSocket PROVE Fan!LinkIsKnown'
  BY <1>0, <1>16, <1>g DEF Fan!OpenSocket, Fan!Stages
<1>17. ASSUME Fan!OnMessage PROVE Fan!LinkIsKnown'
  <2>1. PICK e \in Sent : e = Head(link.rx)
    BY <1>p, <1>17 DEF Fan!OnMessage
  <2>2. phone' = Fan!Applied(e) /\ link' = [link EXCEPT !.rx = Tail(@)] /\ link.pc = "serving" /\ ~link.lag
    BY <1>17, <2>1 DEF Fan!OnMessage
  <2>3. e.kind \in {"slot", "game", "profile", "taunt"}
    BY DEF Sent
  <2>4. phone'.sid = phone.sid /\ phone'.boot = phone.boot
    BY <1>p, <2>2, <2>3 DEF Fan!Applied, Phones
  <2>5. link'.pc = link.pc /\ link'.replay = link.replay /\ link'.lag = link.lag
    BY <1>p, <2>2 DEF Links
  <2> QED
    BY <1>0, <1>17, <2>2, <2>4, <2>5 DEF Fan!OnMessage, Fan!LinkIsKnown
<1>18. ASSUME Fan!ApplyStatus PROVE Fan!LinkIsKnown'
  <2>1. phone'.sid = phone.sid /\ phone'.boot = phone.boot
    BY <1>p, <1>18 DEF Fan!ApplyStatus, Phones
  <2>2. off \ {"game"} \subseteq off'
    BY <1>18 DEF Fan!ApplyStatus
  <2> QED
    BY <1>0, <1>18, <2>1, <2>2, <1>u DEF Fan!ApplyStatus
<1>19. ASSUME Fan!Drop PROVE Fan!LinkIsKnown'
  BY <1>0, <1>19, <1>d DEF Fan!Drop, Fan!Break
<1>20. ASSUME Fan!Restart PROVE Fan!LinkIsKnown'
  <2>1. phone'.boot <= boot'
    BY <1>0, <1>p, <1>20 DEF Fan!Restart
  <2> QED
    BY <1>20, <2>1, <1>d, <1>e DEF Fan!Restart
<1>21. CASE UNCHANGED Fan!vars
  BY <1>0, <1>21, <1>u DEF Fan!vars
<1> QED
  BY <1>1, <1>2, <1>3, <1>4, <1>5, <1>6, <1>7, <1>8, <1>9, <1>10, <1>11, <1>12, <1>13, <1>14,
     <1>15, <1>16, <1>17, <1>18, <1>19, <1>20, <1>21 DEF Fan!Next, Fan!Serve

\* A socket that is gone has nothing under way: what the phone shows of the game must do.
LEMMA GameAfterSocket ==
  ASSUME Fan!ViewOf("game"), Fan!Follows("game"), link'.rx = <<>>, UNCHANGED writer,
         ~Fan!Told(link.rx, "game", phone.sid),
         Fan!Now("game")' = Fan!Now("game"), Fan!Shows("game")' = Fan!Shows("game")
  PROVE  Fan!ViewOf("game")'
<1>1. CASE Fan!Pends("game")
  <2>1. Fan!Pends("game")'
    BY <1>1, PendsStays DEF Fan!Topic
  <2> QED
    BY <2>1 DEF Fan!ViewOf
<1>2. CASE Fan!WillAgree(link.rx, "game", phone.sid, Fan!Shows("game"), Fan!Now("game"))
  <2>1. Fan!Agree("game", Fan!Shows("game"), Fan!Now("game"))
    BY <1>2, AgreeWhenUntold
  <2>2. Fan!WillAgree(link'.rx, "game", phone'.sid, Fan!Shows("game")', Fan!Now("game")')
    BY <2>1, AgreeOnNone
  <2> QED
    BY <2>2 DEF Fan!ViewOf
<1> QED
  BY <1>1, <1>2 DEF Fan!ViewOf

\* The phone is shown a topic when nothing is under way to it.
LEMMA ShownNow ==
  ASSUME NEW t \in Fan!Topic, link'.rx = <<>>, Fan!Agree(t, Fan!Shows(t)', Fan!Now(t)') PROVE Fan!ViewOf(t)'
<1>1. Fan!WillAgree(link'.rx, t, phone'.sid, Fan!Shows(t)', Fan!Now(t)')
  BY AgreeOnNone
<1> QED
  BY <1>1 DEF Fan!ViewOf

\* An event that tells the phone nothing of a topic passes it by.
LEMMA PassesBy ==
  ASSUME Rooms, FanTypes, NEW t \in Fan!Topic, Fan!ViewOf(t), NEW e \in Sent, link' = Fan!Receive(e), ~Fan!Overflows,
         UNCHANGED <<truth, seat, phone, boot>>, Fan!Subscribed => ~Fan!Tells(e, t, phone.sid),
         Fan!Pends(t) => Fan!Pends(t)'
  PROVE  Fan!ViewOf(t)'
<1>1. /\ link'.pc = link.pc
      /\ ~Fan!Subscribed => link'.rx = link.rx
      /\ Fan!Subscribed => link'.rx = Append(link.rx, e)
  BY ReceiveTypes
<1>2. Fan!Shows(t)' = Fan!Shows(t) /\ Fan!Now(t)' = Fan!Now(t) /\ (Fan!Follows(t)' <=> Fan!Follows(t))
  BY <1>1, TopicsAre, TopicsNext DEF Fan!Topic
<1>3. link.rx \in Seq(Sent)
  BY FanParts
<1>4. ASSUME Fan!WillAgree(link.rx, t, phone.sid, Fan!Shows(t), Fan!Now(t))
      PROVE  Fan!WillAgree(link'.rx, t, phone.sid, Fan!Shows(t), Fan!Now(t))
  BY <1>1, <1>3, <1>4, AgreeBehind
<1>5. CASE ~Fan!Follows(t)'
  BY <1>5 DEF Fan!ViewOf
<1>6. CASE Fan!Pends(t)
  BY <1>6 DEF Fan!ViewOf
<1>7. CASE Fan!WillAgree(link.rx, t, phone.sid, Fan!Shows(t), Fan!Now(t))
  <2>1. Fan!WillAgree(link'.rx, t, phone'.sid, Fan!Shows(t)', Fan!Now(t)')
    BY <1>2, <1>4, <1>7
  <2> QED
    BY <2>1 DEF Fan!ViewOf
<1> QED
  BY <1>2, <1>5, <1>6, <1>7 DEF Fan!ViewOf

\* A writer sends its event.
LEMMA ViewSend ==
  ASSUME Rooms, NoneSent, FanTypes, Fan!ViewInv, NEW w \in Writer, Fan!SendEvent(w), NEW t \in Fan!Topic \ off'
  PROVE  Fan!ViewOf(t)'
<1>1. PICK e \in Sent : e = writer[w] /\ e # NoEvent
  BY DEF Fan!SendEvent, FanTypes, NoneSent
<1>2. /\ link' = Fan!Receive(e) /\ UNCHANGED <<truth, seat, phone, boot>>
      /\ off' = IF e.sid \in {0, seat.sid} THEN Fan!OffAfter(w, e) ELSE IF Fan!Overflows THEN Fan!Topic ELSE off
      /\ writer' = [writer EXCEPT ![w] = NoEvent]
  BY <1>1 DEF Fan!SendEvent
<1>3. /\ e.kind \in Fan!Topic /\ Sent # {}
      /\ e.kind = "profile" => e.sid # 0
      /\ e.kind # "profile" => e.sid = 0
  BY <1>1 DEF Sent, Fan!Topic, Fan!SendEvent, FanTypes
<1>4. ~Fan!Overflows
  BY <1>2 DEF Fan!OffAfter
<1>5. Fan!Now(t)' = Fan!Now(t) /\ (Fan!Subscribed => phone.sid = seat.sid)
  BY <1>2, TopicsAre, TopicsNext DEF Fan!Topic, Fan!ViewInv, Fan!LinkIsKnown, Fan!Subscribed
<1>6. \A v \in Writer \ {w} : writer'[v] = writer[v]
  BY <1>2 DEF FanTypes
<1>7. ASSUME ~Fan!Tells(e, t, seat.sid), Fan!Pends(t) PROVE Fan!Pends(t)'
  BY <1>1, <1>2, <1>5, <1>6, <1>7, PendsStays
<1>8. ASSUME ~Fan!Tells(e, t, seat.sid), t \notin off PROVE Fan!ViewOf(t)'
  <2>1. Fan!ViewOf(t)
    BY <1>8 DEF Fan!ViewInv
  <2> QED
    BY <1>1, <1>2, <1>4, <1>5, <1>7, <1>8, <2>1, PassesBy
<1>9. CASE ~Fan!Tells(e, t, seat.sid)
  <2>1. t \notin off
    <3>1. CASE e.sid \in {0, seat.sid}
      <4>1. e.kind # t
        BY <1>3, <1>9, <3>1 DEF Fan!Tells
      <4> QED
        BY <1>2, <1>4, <3>1, <4>1 DEF Fan!OffAfter
    <3>2. CASE e.sid \notin {0, seat.sid}
      BY <1>2, <1>4, <3>2
    <3> QED
      BY <3>1, <3>2
  <2> QED
    BY <1>8, <1>9, <2>1
<1>10. CASE Fan!Tells(e, t, seat.sid)
  <2>1. e.kind = t /\ e.sid \in {0, seat.sid} /\ off' = Fan!OffAfter(w, e)
    BY <1>2, <1>3, <1>10 DEF Fan!Tells
  <2>2. CASE ~Fan!Subscribed
    <3>1. ~Fan!Exposed(t)
      BY <1>4, <2>1, <2>2 DEF Fan!OffAfter
    <3>2. link'.pc = link.pc
      BY <1>1, <1>2, ReceiveTypes
    <3>3. ~Fan!Follows(t)'
      BY <2>2, <3>1, <3>2, TopicsNext DEF Fan!Exposed, Fan!Subscribed, Fan!Topic
    <3> QED
      BY <3>3 DEF Fan!ViewOf
  <2>3. CASE Fan!Subscribed /\ e.value = Fan!Now(t)
    <3>1. link'.rx = Append(link.rx, e) /\ link.rx \in Seq(Sent)
      BY <1>1, <1>2, <1>4, <2>3, ReceiveTypes, FanParts
    <3>2. Fan!Tells(e, t, phone'.sid) /\ e.value = Fan!Now(t)'
      BY <1>2, <1>5, <1>10, <2>3
    <3>3. Fan!WillAgree(link'.rx, t, phone'.sid, Fan!Shows(t)', Fan!Now(t)')
      BY <3>1, <3>2, AgreeBehind
    <3> QED
      BY <3>3 DEF Fan!ViewOf
  <2>4. CASE Fan!Subscribed /\ e.value # Fan!Now(t)
    <3>1. Fan!NewerPending(w, e)
      BY <1>4, <2>1, <2>4 DEF Fan!OffAfter
    <3>2. PICK v \in Writer \ {w} : /\ writer[v] # NoEvent
                                    /\ writer[v].kind = e.kind /\ writer[v].sid = e.sid
                                    /\ writer[v].value = Fan!Now(t)
      BY <2>1, <3>1 DEF Fan!NewerPending
    <3>3. Fan!Tells(writer[v], t, seat'.sid) /\ writer'[v] = writer[v] /\ v \in Writer
      BY <1>2, <1>6, <1>10, <3>2 DEF Fan!Tells
    <3>4. Fan!Pends(t)'
      BY <1>5, <3>2, <3>3 DEF Fan!Pends
    <3> QED
      BY <3>4 DEF Fan!ViewOf
  <2> QED
    BY <2>2, <2>3, <2>4
<1> QED
  BY <1>9, <1>10

\* The phone reads an event.
LEMMA ViewRead ==
  ASSUME Rooms, FanTypes, Fan!ViewInv, Fan!OnMessage, NEW t \in Fan!Topic \ off' PROVE Fan!ViewOf(t)'
<1>1. PICK e \in Sent : e = Head(link.rx)
  BY FanParts DEF Fan!OnMessage
<1>2. /\ phone' = Fan!Applied(e) /\ link' = [link EXCEPT !.rx = Tail(@)] /\ link.rx # <<>>
      /\ UNCHANGED <<truth, writer, seat, boot, off>>
  BY <1>1 DEF Fan!OnMessage
<1>3. e.kind \in {"slot", "game", "profile", "taunt"}
  BY DEF Sent
<1>4. phone'.sid = phone.sid /\ phone'.boot = phone.boot
  BY <1>2, <1>3 DEF Fan!Applied, Phones, FanTypes
<1>5. link'.pc = link.pc /\ link'.rx = Tail(link.rx) /\ link.rx \in Seq(Sent)
  BY <1>2, FanParts DEF Links, FanTypes
<1>6. Fan!Now(t)' = Fan!Now(t) /\ (Fan!Follows(t)' <=> Fan!Follows(t)) /\ Fan!ViewOf(t)
  BY <1>2, <1>4, <1>5, TopicsAre, TopicsNext DEF Fan!Topic, Fan!ViewInv
<1>7. Fan!Shows(t)' = IF Fan!Tells(e, t, phone.sid) THEN e.value ELSE Fan!Shows(t)
  <2>1. phone'.slot = IF e.kind = "slot" THEN e.value ELSE phone.slot
    BY <1>2, <1>3 DEF Fan!Applied, Phones, FanTypes
  <2>2. phone'.game = IF e.kind = "game" THEN e.value ELSE phone.game
    BY <1>2, <1>3 DEF Fan!Applied, Phones, FanTypes
  <2>3. phone'.profile = IF e.kind = "profile" /\ e.sid = phone.sid THEN e.value ELSE phone.profile
    BY <1>2, <1>3 DEF Fan!Applied, Phones, FanTypes
  <2> QED
    BY <2>1, <2>2, <2>3, TopicsAre, TopicsNext DEF Fan!Topic, Fan!Tells
<1>8. CASE ~Fan!Follows(t)'
  BY <1>8 DEF Fan!ViewOf
<1>9. CASE Fan!Pends(t)
  <2>1. Fan!Pends(t)'
    BY <1>2, <1>6, <1>9, PendsStays
  <2> QED
    BY <2>1 DEF Fan!ViewOf
<1>10. CASE Fan!WillAgree(link.rx, t, phone.sid, Fan!Shows(t), Fan!Now(t))
  <2>1. Fan!WillAgree(Tail(link.rx), t, phone.sid, Fan!Shows(t)', Fan!Now(t))
    BY <1>1, <1>2, <1>5, <1>7, <1>10, AgreeAfterFirst
  <2>2. Fan!WillAgree(link'.rx, t, phone'.sid, Fan!Shows(t)', Fan!Now(t)')
    BY <1>4, <1>5, <1>6, <2>1
  <2> QED
    BY <2>2 DEF Fan!ViewOf
<1> QED
  BY <1>6, <1>8, <1>9, <1>10 DEF Fan!ViewOf

\* What has lagged has no news of the game under way, or the game may be wrong.
LagHidesNoGame == link.lag /\ "game" \notin off => ~Fan!Told(link.rx, "game", phone.sid)

\* Every step keeps that.
LEMMA LagNext ==
  ASSUME Rooms, NoneSent, FanTypes, Fan!ViewInv, [Fan!Next]_(Fan!vars) PROVE LagHidesNoGame'
<1>0. LagHidesNoGame /\ Fan!LinkIsKnown
  BY DEF Fan!ViewInv, LagHidesNoGame
<1>p. link \in Links /\ link.rx \in Seq(Sent) /\ link.pc \in Fan!Stages
  BY FanParts DEF FanTypes
<1>t. \A q : Fan!Told(q, "game", phone'.sid) <=> Fan!Told(q, "game", phone.sid)
  BY DEF Fan!Told, Fan!Tells
<1>1. ASSUME link'.lag = FALSE PROVE LagHidesNoGame'
  BY <1>1 DEF LagHidesNoGame
<1>2. ASSUME link'.rx = link.rx, link'.lag = link.lag, "game" \notin off' => "game" \notin off
      PROVE  LagHidesNoGame'
  BY <1>0, <1>2, <1>t DEF LagHidesNoGame
<1>3. ASSUME ~link.lag, link'.lag = link.lag PROVE LagHidesNoGame'
  BY <1>3 DEF LagHidesNoGame
<1>4. ASSUME NEW e \in Sent, link' = Fan!Receive(e), Fan!Overflows => off' = Fan!Topic, ~Fan!Subscribed => ~link.lag
      PROVE  LagHidesNoGame'
  <2>1. /\ Fan!Subscribed /\ ~Fan!Overflows => link'.lag = link.lag
        /\ ~Fan!Subscribed => link'.lag = link.lag
    BY <1>4, ReceiveTypes
  <2>2. link.lag => Fan!Overflows
    BY <1>0, <1>4 DEF Fan!LinkIsKnown, Fan!Overflows
  <2>3. CASE Fan!Overflows
    BY <1>4, <2>3 DEF LagHidesNoGame, Fan!Topic
  <2>4. CASE ~Fan!Overflows
    BY <2>1, <2>2, <2>4, <1>3
  <2> QED
    BY <2>3, <2>4
<1>5. ~Fan!Subscribed => ~link.lag
  BY <1>0 DEF Fan!LinkIsKnown, Fan!Subscribed
<1>6. ASSUME NEW pc \in Fan!Stages, link' = Fan!At(pc), link.pc # "serving" PROVE LagHidesNoGame'
  BY <1>3, <1>5, <1>6, StageTypes DEF Fan!Subscribed
<1>7. ASSUME NEW w \in Writer, Fan!SendEvent(w) PROVE LagHidesNoGame'
  BY <1>4, <1>5, <1>7 DEF Fan!SendEvent, Fan!OffAfter, FanTypes
<1>8. ASSUME Fan!SendTaunt PROVE LagHidesNoGame'
  <2>1. PICK e : e = Fan!Event("taunt", taunt.n, 0)
    OBVIOUS
  <2>2. e \in Sent
    <3>1. taunt.n \in Fan!Taunts
      BY <1>8, FanParts DEF Fan!SendTaunt, FanTypes, Fan!Taunts
    <3> QED
      BY <2>1, <3>1 DEF Fan!Event, Sent
  <2> QED
    BY <1>4, <1>5, <1>8, <2>1, <2>2 DEF Fan!SendTaunt
<1>9. ASSUME Fan!Reclaim PROVE LagHidesNoGame'
  <2>1. link' = [link EXCEPT !.pc = "chosen", !.replay = Head(ghosts).buf] /\ link.pc = "opening"
    BY <1>9 DEF Fan!Reclaim
  <2>2. link'.lag = link.lag
    BY <1>p, <2>1 DEF Links
  <2> QED
    BY <1>3, <1>5, <2>1, <2>2 DEF Fan!Subscribed
<1>10. ASSUME Fan!Register \/ Fan!Welcome \/ Fan!Reload \/ Fan!ShowPortal \/ Fan!TellProfile \/ Fan!OpenSocket
       PROVE  LagHidesNoGame'
  BY <1>6, <1>10 DEF Fan!Register, Fan!Welcome, Fan!Reload, Fan!ShowPortal, Fan!TellProfile,
     Fan!OpenSocket, Fan!Stages
<1>11. ASSUME Fan!Subscribe PROVE LagHidesNoGame'
  <2>1. link' = [link EXCEPT !.pc = "serving", !.replay = <<>>] /\ link.pc = "told"
    BY <1>11 DEF Fan!Subscribe
  <2>2. link'.lag = link.lag
    BY <1>p, <2>1 DEF Links
  <2> QED
    BY <1>3, <1>5, <2>1, <2>2 DEF Fan!Subscribed
<1>12. ASSUME Fan!GoDeaf \/ Fan!Depart \/ Fan!Drop \/ Fan!Restart PROVE LagHidesNoGame'
  <2>1. Fan!Down.lag = FALSE /\ \A pc : [Fan!Down EXCEPT !.pc = pc].lag = FALSE
    BY DEF Fan!Down
  <2> QED
    BY <1>1, <1>12, <2>1 DEF Fan!GoDeaf, Fan!Depart, Fan!Drop, Fan!Break, Fan!Restart
<1>13. ASSUME Fan!OnMessage PROVE LagHidesNoGame'
  <2>1. link' = [link EXCEPT !.rx = Tail(@)] /\ ~link.lag
    BY <1>13 DEF Fan!OnMessage
  <2>2. link'.lag = link.lag
    BY <1>p, <2>1 DEF Links
  <2> QED
    BY <1>3, <2>1, <2>2
<1>14. ASSUME Fan!ApplyStatus PROVE LagHidesNoGame'
  <2>1. CASE \E i \in DOMAIN link.rx : link.rx[i].kind = "game"
    <3>1. "game" \notin off' => "game" \notin off
      BY <1>14, <2>1 DEF Fan!ApplyStatus
    <3> QED
      BY <1>14, <3>1, <1>2 DEF Fan!ApplyStatus
  <2>2. CASE ~ \E i \in DOMAIN link.rx : link.rx[i].kind = "game"
    <3>1. ~Fan!Told(link.rx, "game", phone'.sid)
      BY <2>2 DEF Fan!Told, Fan!Tells
    <3> QED
      BY <1>14, <3>1 DEF Fan!ApplyStatus, LagHidesNoGame
  <2> QED
    BY <2>1, <2>2
<1>15. ASSUME UNCHANGED <<link, off>> PROVE LagHidesNoGame'
  BY <1>2, <1>15
<1>16. ASSUME NEW w \in Writer, NEW t \in {"slot", "game"}, Fan!ChangeState(w, t) PROVE LagHidesNoGame'
  BY <1>15, <1>16 DEF Fan!ChangeState
<1>17. ASSUME NEW w \in Writer, NEW b \in BOOLEAN, Fan!SwitchProfile(w, b) PROVE LagHidesNoGame'
  BY <1>15, <1>17 DEF Fan!SwitchProfile
<1>18. ASSUME Fan!PushTaunt \/ Fan!GhostExpires \/ Fan!AnswerStatus \/ UNCHANGED Fan!vars PROVE LagHidesNoGame'
  BY <1>15, <1>18 DEF Fan!PushTaunt, Fan!GhostExpires, Fan!AnswerStatus, Fan!vars
<1> QED
  BY <1>7, <1>8, <1>9, <1>10, <1>11, <1>12, <1>13, <1>14, <1>16, <1>17, <1>18 DEF Fan!Next, Fan!Serve

\* A writer that changes a topic has its news.
LEMMA ViewWrite ==
  ASSUME FanTypes, NEW t \in Fan!Topic, NEW w \in Writer, NEW e, writer[w] = NoEvent, e # NoEvent,
         writer' = [writer EXCEPT ![w] = e], UNCHANGED <<link, phone, boot>>,
         seat'.sid = seat.sid,
         (Fan!Tells(e, t, seat.sid) /\ e.value = Fan!Now(t)') \/ (Fan!Now(t)' = Fan!Now(t) /\ Fan!ViewOf(t))
  PROVE  Fan!ViewOf(t)'
<1>1. writer'[w] = e /\ \A v \in Writer : writer[v] # NoEvent => writer'[v] = writer[v]
  BY DEF FanTypes
<1>2. CASE Fan!Tells(e, t, seat.sid) /\ e.value = Fan!Now(t)'
  <2>1. Fan!Pends(t)'
    BY <1>1, <1>2 DEF Fan!Pends, Fan!Tells
  <2> QED
    BY <2>1 DEF Fan!ViewOf
<1>3. CASE Fan!Now(t)' = Fan!Now(t) /\ Fan!ViewOf(t)
  <2>1. Fan!Pends(t) => Fan!Pends(t)'
    BY <1>1, <1>3, PendsStays
  <2>2. Fan!Shows(t)' = Fan!Shows(t) /\ (Fan!Follows(t)' <=> Fan!Follows(t))
    BY TopicsAre, TopicsNext DEF Fan!Topic
  <2> QED
    BY <1>3, <2>1, <2>2 DEF Fan!ViewOf
<1> QED
  BY <1>2, <1>3

\* Every step keeps ViewInv: a topic that may not be wrong will be shown as it is.
LEMMA ViewNext ==
  ASSUME Rooms, NoneSent, FanTypes, Fan!ViewInv, [Fan!Next]_(Fan!vars) PROVE Fan!ViewInv'
<1>0. Fan!LinkIsKnown /\ LagHidesNoGame /\ \A t \in Fan!Topic \ off : Fan!ViewOf(t)
  BY DEF Fan!ViewInv, LagHidesNoGame
<1>p. /\ link \in Links /\ link.pc \in Fan!Stages /\ link.rx \in Seq(Sent) /\ phone \in Phones
      /\ phone.boot \in Nat /\ boot \in Nat \ {0}
  BY FanParts DEF FanTypes
<1> SUFFICES ASSUME NEW t \in Fan!Topic \ off' PROVE Fan!ViewOf(t)'
  <2>1. Fan!LinkIsKnown' /\ LagHidesNoGame'
    BY <1>0, LinkKnownNext, LagNext
  <2> QED
    BY <2>1 DEF Fan!ViewInv, LagHidesNoGame
<1>1. ASSUME NEW w \in Writer, NEW u \in {"slot", "game"}, Fan!ChangeState(w, u) PROVE Fan!ViewOf(t)'
  <2>1. PICK e : e = Fan!Event(u, truth[u] + 1, 0)
    OBVIOUS
  <2>2. /\ writer[w] = NoEvent /\ writer' = [writer EXCEPT ![w] = e]
        /\ UNCHANGED <<seat, link, phone, boot, off>> /\ truth' = [truth EXCEPT ![u] = @ + 1]
    BY <1>1, <2>1 DEF Fan!ChangeState
  <2>3. e \in Sent /\ e.kind = u /\ e.value = truth[u] + 1
    BY <2>1 DEF Fan!Event, Sent, FanTypes
  <2>4. truth'[u] = truth[u] + 1 /\ \A x \in {"slot", "game"} : x # u => truth'[x] = truth[x]
    BY <2>2 DEF FanTypes
  <2>5. CASE t = u
    <3>1. Fan!Tells(e, t, seat.sid) /\ e.value = Fan!Now(t)'
      BY <2>3, <2>4, <2>5 DEF Fan!Tells, Fan!Now
    <3> QED
      BY <2>2, <2>3, <3>1, ViewWrite DEF NoneSent
  <2>6. CASE t # u
    <3>1. Fan!Now(t)' = Fan!Now(t) /\ Fan!ViewOf(t)
      BY <1>0, <2>2, <2>4, <2>6, TopicsAre, TopicsNext DEF Fan!Topic
    <3> QED
      BY <2>2, <2>3, <3>1, ViewWrite DEF NoneSent
  <2> QED
    BY <2>5, <2>6
<1>2. ASSUME NEW w \in Writer, NEW b \in BOOLEAN, Fan!SwitchProfile(w, b) PROVE Fan!ViewOf(t)'
  <2>1. PICK e : e = Fan!Event("profile", b, seat.sid)
    OBVIOUS
  <2>2. /\ writer[w] = NoEvent /\ writer' = [writer EXCEPT ![w] = e]
        /\ UNCHANGED <<truth, link, phone, boot, off>> /\ seat' = [seat EXCEPT !.bound = b] /\ seat.sid # 0
    BY <1>2, <2>1 DEF Fan!SwitchProfile
  <2>3. e \in Sent /\ e.kind = "profile" /\ e.value = b /\ e.sid = seat.sid
    BY <2>1, <2>2 DEF Fan!Event, Sent, FanTypes
  <2>4. seat'.sid = seat.sid /\ seat'.bound = b
    BY <2>2 DEF FanTypes
  <2>5. CASE t = "profile"
    <3>1. Fan!Tells(e, t, seat.sid) /\ e.value = Fan!Now(t)'
      BY <2>3, <2>4, <2>5, TopicsNext DEF Fan!Tells
    <3> QED
      BY <2>2, <2>3, <2>4, <3>1, ViewWrite DEF NoneSent
  <2>6. CASE t # "profile"
    <3>1. Fan!Now(t)' = Fan!Now(t) /\ Fan!ViewOf(t)
      BY <1>0, <2>2, <2>6, TopicsAre, TopicsNext DEF Fan!Topic
    <3> QED
      BY <2>2, <2>3, <2>4, <3>1, ViewWrite DEF NoneSent
  <2> QED
    BY <2>5, <2>6
<1>3. ASSUME NEW w \in Writer, Fan!SendEvent(w) PROVE Fan!ViewOf(t)'
  BY <1>3, ViewSend
\* What leaves the topic as it is.
<1>u. ASSUME UNCHANGED <<writer, truth>>, link'.rx = link.rx, t \notin off, Fan!Follows(t)' => Fan!Follows(t),
             Fan!Shows(t)' = Fan!Shows(t),
             t = "profile" => phone'.sid = phone.sid /\ seat'.sid = seat.sid /\ seat'.bound = seat.bound
      PROVE  Fan!ViewOf(t)'
  <2>1. Fan!Now(t)' = Fan!Now(t)
    BY <1>u, TopicsAre, TopicsNext DEF Fan!Topic
  <2> QED
    BY <1>0, <1>u, <2>1, Unseen
<1>4. ASSUME UNCHANGED <<truth, writer, seat, boot, link, phone, off>> PROVE Fan!ViewOf(t)'
  BY <1>4, <1>u, TopicsAre, TopicsNext DEF Fan!Topic
<1>5. ASSUME Fan!SendTaunt PROVE Fan!ViewOf(t)'
  <2>1. PICK e : e = Fan!Event("taunt", taunt.n, 0)
    OBVIOUS
  <2>2. e \in Sent /\ e.kind = "taunt"
    <3>1. taunt.n \in Fan!Taunts
      BY <1>5, FanParts DEF Fan!SendTaunt, FanTypes, Fan!Taunts
    <3> QED
      BY <2>1, <3>1 DEF Fan!Event, Sent
  <2>3. /\ link' = Fan!Receive(e) /\ ~Fan!Overflows /\ UNCHANGED <<truth, writer, seat, phone, boot, off>>
    BY <1>5, <2>1 DEF Fan!SendTaunt
  <2>4. ~Fan!Tells(e, t, phone.sid)
    BY <2>2 DEF Fan!Tells, Fan!Topic
  <2>5. Fan!Now(t)' = Fan!Now(t)
    BY <2>3, TopicsAre, TopicsNext DEF Fan!Topic
  <2>6. Fan!Pends(t) => Fan!Pends(t)'
    BY <2>3, <2>5, PendsStays
  <2> QED
    BY <1>0, <2>2, <2>3, <2>4, <2>6, PassesBy
\* The socket's task goes on.
<1>6. ASSUME Fan!Reclaim \/ Fan!Register \/ Fan!OpenSocket PROVE Fan!ViewOf(t)'
  <2>1. /\ link'.pc \in {"chosen", "opening"} /\ link'.rx = link.rx
        /\ UNCHANGED <<truth, writer, phone, boot, off>>
    <3>1. CASE Fan!Reclaim
      BY <1>p, <3>1 DEF Fan!Reclaim, Links
    <3>2. CASE Fan!Register \/ Fan!OpenSocket
      BY <3>2, StageTypes DEF Fan!Register, Fan!OpenSocket, Fan!Stages
    <3> QED
      BY <1>6, <3>1, <3>2
  <2>2. CASE t = "game"
    BY <2>1, <2>2, <1>u, TopicsAre, TopicsNext
  <2>3. CASE t # "game"
    <3>1. ~Fan!Follows(t)'
      BY <2>1, <2>3, TopicsNext DEF Fan!Topic
    <3> QED
      BY <3>1 DEF Fan!ViewOf
  <2> QED
    BY <2>2, <2>3
<1>7. ASSUME Fan!Welcome PROVE Fan!ViewOf(t)'
  <2>1. /\ link'.pc = "welcomed" /\ link'.rx = link.rx /\ phone.boot \in {0, boot}
        /\ UNCHANGED <<truth, writer, boot, off>>
    BY <1>7, StageTypes DEF Fan!Welcome, Fan!Stages
  <2>2. phone'.game = phone.game
    BY <1>p, <1>7 DEF Fan!Welcome, Phones
  <2>3. CASE t = "game"
    BY <2>1, <2>2, <2>3, <1>u, TopicsAre, TopicsNext
  <2>4. CASE t # "game"
    <3>1. ~Fan!Follows(t)'
      BY <2>1, <2>4, TopicsNext DEF Fan!Topic
    <3> QED
      BY <3>1 DEF Fan!ViewOf
  <2> QED
    BY <2>3, <2>4
<1>8. ASSUME Fan!Reload PROVE Fan!ViewOf(t)'
  <2>1. link'.pc = "closing" /\ link'.rx = <<>> /\ truth' = truth
    BY <1>0, <1>8, StageTypes DEF Fan!Reload, Fan!Stages, Fan!LinkIsKnown
  <2>2. CASE t = "game"
    <3>1. phone'.game = 0 /\ ~Fan!Running(truth.game)
      BY <1>8, <2>2, FanValues DEF Fan!Reload
    <3>2. ~Fan!Running(0)
      BY DEF Fan!Running
    <3>3. Fan!Agree(t, Fan!Shows(t)', Fan!Now(t)')
      BY <2>1, <2>2, <3>1, <3>2, TopicsNext DEF Fan!Agree
    <3> QED
      BY <2>1, <3>3, ShownNow
  <2>3. CASE t # "game"
    <3>1. ~Fan!Follows(t)'
      BY <2>1, <2>3, TopicsNext DEF Fan!Topic
    <3> QED
      BY <3>1 DEF Fan!ViewOf
  <2> QED
    BY <2>2, <2>3
<1>9. ASSUME Fan!ShowPortal PROVE Fan!ViewOf(t)'
  <2>1. /\ link'.pc = "shown" /\ link'.rx = link.rx /\ link.rx = <<>>
        /\ UNCHANGED <<truth, writer, seat, boot>> /\ off' = off \ {"slot"}
    BY <1>0, <1>9, StageTypes DEF Fan!ShowPortal, Fan!Stages, Fan!LinkIsKnown
  <2>2. phone'.slot = truth.slot /\ phone'.game = phone.game /\ phone'.boot = phone.boot
    BY <1>p, <1>9 DEF Fan!ShowPortal, Phones
  <2>3. CASE t = "game"
    BY <2>1, <2>2, <2>3, <1>u, TopicsAre, TopicsNext
  <2>4. CASE t = "slot"
    <3>1. Fan!Agree(t, Fan!Shows(t)', Fan!Now(t)')
      BY <2>1, <2>2, <2>4, TopicsNext DEF Fan!Agree
    <3> QED
      BY <2>1, <3>1, ShownNow
  <2>5. CASE t = "profile"
    <3>1. ~Fan!Follows(t)'
      BY <2>1, <2>5, TopicsNext
    <3> QED
      BY <3>1 DEF Fan!ViewOf
  <2> QED
    BY <2>3, <2>4, <2>5 DEF Fan!Topic
<1>10. ASSUME Fan!TellProfile PROVE Fan!ViewOf(t)'
  <2>1. /\ link'.pc = "told" /\ link'.rx = link.rx /\ link.rx = <<>> /\ link.pc = "shown"
        /\ UNCHANGED <<truth, writer, seat, boot>> /\ off' = off \ {"profile"}
    BY <1>0, <1>10, StageTypes DEF Fan!TellProfile, Fan!Stages, Fan!LinkIsKnown
  <2>2. /\ phone'.profile = seat.bound /\ phone'.game = phone.game /\ phone'.boot = phone.boot
        /\ phone'.slot = phone.slot
    BY <1>p, <1>10 DEF Fan!TellProfile, Phones
  <2>3. CASE t # "profile"
    BY <2>1, <2>2, <2>3, <1>u, TopicsAre, TopicsNext DEF Fan!Topic
  <2>4. CASE t = "profile"
    <3>1. Fan!Agree(t, Fan!Shows(t)', Fan!Now(t)')
      BY <2>1, <2>2, <2>4, TopicsNext DEF Fan!Agree
    <3> QED
      BY <2>1, <3>1, ShownNow
  <2> QED
    BY <2>3, <2>4
<1>11. ASSUME Fan!Subscribe PROVE Fan!ViewOf(t)'
  <2>1. link.pc = "told" /\ link' = [link EXCEPT !.pc = "serving", !.replay = <<>>]
    BY <1>11 DEF Fan!Subscribe
  <2>2. link'.pc = "serving" /\ link'.rx = link.rx
    BY <1>p, <2>1 DEF Links
  <2> QED
    BY <1>11, <2>1, <2>2, <1>u, TopicsAre, TopicsNext DEF Fan!Subscribe, Fan!Topic
\* The socket is gone.
<1>d. ASSUME link'.rx = <<>>, link'.pc \in {"down", "deaf", "closing"}, UNCHANGED <<truth, writer, phone, boot>>,
             t = "game" => "game" \notin off /\ ~Fan!Told(link.rx, "game", phone.sid)
      PROVE  Fan!ViewOf(t)'
  <2>1. CASE t = "game"
    <3>1. Fan!Follows(t)' <=> Fan!Follows(t)
      BY <1>d, <2>1, TopicsAre, TopicsNext
    <3>2. Fan!ViewOf("game") /\ Fan!Now("game")' = Fan!Now("game") /\ Fan!Shows("game")' = Fan!Shows("game")
      BY <1>0, <1>d, <2>1, TopicsAre, TopicsNext
    <3>3. CASE ~Fan!Follows(t)
      BY <3>1, <3>3 DEF Fan!ViewOf
    <3>4. CASE Fan!Follows(t)
      BY <1>d, <2>1, <3>2, <3>4, GameAfterSocket
    <3> QED
      BY <3>3, <3>4
  <2>2. CASE t # "game"
    <3>1. ~Fan!Follows(t)'
      BY <1>d, <2>2, TopicsNext DEF Fan!Topic
    <3> QED
      BY <3>1 DEF Fan!ViewOf
  <2> QED
    BY <2>1, <2>2
<1>n. ~Fan!Told(<<>>, "game", phone.sid)
  BY DEF Fan!Told
<1>12. ASSUME Fan!GoDeaf PROVE Fan!ViewOf(t)'
  <2>1. link'.rx = <<>> /\ link'.pc = "deaf"
    BY <1>12 DEF Fan!GoDeaf, Fan!Down
  <2> QED
    BY <1>0, <1>12, <2>1, <1>d DEF Fan!GoDeaf, LagHidesNoGame
<1>13. ASSUME Fan!Depart PROVE Fan!ViewOf(t)'
  <2>1. link'.rx = <<>> /\ link'.pc = "down" /\ link.rx = <<>>
    BY <1>0, <1>13, FanValues DEF Fan!Depart, Fan!LinkIsKnown
  <2> QED
    BY <1>13, <2>1, <1>d, <1>n DEF Fan!Depart
<1>14. ASSUME Fan!Drop PROVE Fan!ViewOf(t)'
  <2>1. link'.rx = <<>> /\ link'.pc = "closing" /\ UNCHANGED <<truth, writer, phone, boot>>
    BY <1>14 DEF Fan!Drop, Fan!Break, Fan!Down
  <2>2. ASSUME t = "game" PROVE "game" \notin off /\ ~Fan!Told(link.rx, "game", phone.sid)
    <3>1. ASSUME NEW i \in DOMAIN link.rx, link.rx[i].kind = "game" PROVE FALSE
      BY <1>14, <2>2, <3>1 DEF Fan!Drop, Fan!Break
    <3> QED
      BY <1>14, <2>2, <3>1 DEF Fan!Drop, Fan!Break, Fan!Told, Fan!Tells
  <2> QED
    BY <2>1, <2>2, <1>d
<1>15. ASSUME Fan!Restart PROVE Fan!ViewOf(t)'
  <2>1. /\ link'.pc = "down" /\ boot' = boot + 1 /\ phone' = phone
        /\ phone.boot = 0 => off' = {"game"}
    BY <1>15, FanValues DEF Fan!Restart
  <2>2. phone.boot # boot + 1
    BY <1>0, <1>p DEF Fan!LinkIsKnown
  <2>3. ~Fan!Follows(t)'
    BY <2>1, <2>2, TopicsNext DEF Fan!Topic
  <2> QED
    BY <2>3 DEF Fan!ViewOf
\* The phone.
<1>16. ASSUME Fan!AnswerStatus PROVE Fan!ViewOf(t)'
  <2>1. /\ phone'.slot = phone.slot /\ phone'.game = phone.game /\ phone'.profile = phone.profile
        /\ phone'.sid = phone.sid /\ phone'.boot = phone.boot
    BY <1>p, <1>16 DEF Fan!AnswerStatus, Phones
  <2> QED
    BY <1>16, <2>1, <1>u, TopicsAre, TopicsNext DEF Fan!AnswerStatus, Fan!Topic
<1>17. ASSUME Fan!OnMessage PROVE Fan!ViewOf(t)'
  BY <1>17, ViewRead
<1>18. ASSUME Fan!ApplyStatus PROVE Fan!ViewOf(t)'
  <2>1. /\ phone'.slot = phone.slot /\ phone'.profile = phone.profile
        /\ phone'.sid = phone.sid /\ phone'.boot = phone.boot
        /\ phone'.game = IF Fan!Running(phone.answer) THEN phone.answer ELSE phone.game
    BY <1>p, <1>18 DEF Fan!ApplyStatus, Phones
  <2>2. UNCHANGED <<truth, writer, seat, boot, link>>
    BY <1>18 DEF Fan!ApplyStatus
  <2>3. CASE t # "game"
    <3>1. t \notin off
      BY <1>18, <2>3 DEF Fan!ApplyStatus
    <3> QED
      BY <2>1, <2>2, <2>3, <3>1, <1>u, TopicsAre, TopicsNext DEF Fan!Topic
  <2>4. CASE t = "game" /\ Fan!Told(link.rx, "game", phone.sid)
    <3>1. \E i \in DOMAIN link.rx : link.rx[i].kind = "game"
      BY <2>4 DEF Fan!Told, Fan!Tells
    <3>2. t \notin off
      BY <1>18, <2>4, <3>1 DEF Fan!ApplyStatus
    <3>3. Fan!Follows(t)' <=> Fan!Follows(t)
      BY <2>1, <2>2, <2>4, TopicsAre, TopicsNext
    <3>4. Fan!ViewOf(t) /\ Fan!Now(t)' = Fan!Now(t)
      BY <1>0, <2>2, <2>4, <3>2, TopicsAre, TopicsNext
    <3>5. CASE Fan!Pends(t)
      <4>1. Fan!Pends(t)'
        BY <2>2, <3>4, <3>5, PendsStays
      <4> QED
        BY <4>1 DEF Fan!ViewOf
    <3>6. CASE Fan!WillAgree(link.rx, t, phone.sid, Fan!Shows(t), Fan!Now(t))
      <4>1. Fan!WillAgree(link'.rx, t, phone'.sid, Fan!Shows(t)', Fan!Now(t)')
        BY <2>1, <2>2, <2>4, <3>4, <3>6 DEF Fan!WillAgree
      <4> QED
        BY <4>1 DEF Fan!ViewOf
    <3> QED
      BY <3>3, <3>4, <3>5, <3>6 DEF Fan!ViewOf
  <2>5. CASE t = "game" /\ ~Fan!Told(link.rx, "game", phone.sid) /\ Fan!Running(phone.answer)
    <3>1. phone.answer = truth.game
      BY <1>18, <2>5 DEF Fan!ApplyStatus
    <3>2. Fan!Shows(t)' = Fan!Now(t)'
      BY <2>1, <2>2, <2>5, <3>1, TopicsNext
    <3>3. Fan!WillAgree(link'.rx, t, phone'.sid, Fan!Shows(t)', Fan!Now(t)')
      BY <2>1, <2>2, <2>5, <3>2 DEF Fan!WillAgree, Fan!Agree
    <3> QED
      BY <3>3 DEF Fan!ViewOf
  <2>6. CASE t = "game" /\ ~Fan!Told(link.rx, "game", phone.sid) /\ ~Fan!Running(phone.answer)
    <3>1. CASE t \notin off
      BY <2>1, <2>2, <2>6, <3>1, <1>u, TopicsAre, TopicsNext
    <3>2. CASE t \in off
      <4>1. ~Fan!Running(phone.game) /\ ~Fan!Running(truth.game)
        BY <1>18, <2>6, <3>2 DEF Fan!ApplyStatus
      <4>2. Fan!Agree(t, Fan!Shows(t)', Fan!Now(t)')
        BY <2>1, <2>2, <2>6, <4>1, TopicsNext DEF Fan!Agree
      <4>3. Fan!WillAgree(link'.rx, t, phone'.sid, Fan!Shows(t)', Fan!Now(t)')
        BY <2>1, <2>2, <2>6, <4>2 DEF Fan!WillAgree
      <4> QED
        BY <4>3 DEF Fan!ViewOf
    <3> QED
      BY <3>1, <3>2
  <2> QED
    BY <2>3, <2>4, <2>5, <2>6
<1>19. ASSUME Fan!PushTaunt \/ Fan!GhostExpires PROVE Fan!ViewOf(t)'
  BY <1>4, <1>19 DEF Fan!PushTaunt, Fan!GhostExpires
<1>20. CASE UNCHANGED Fan!vars
  BY <1>4, <1>20 DEF Fan!vars
<1> QED
  BY <1>1, <1>2, <1>3, <1>5, <1>6, <1>7, <1>8, <1>9, <1>10, <1>11, <1>12, <1>13, <1>14,
     <1>15, <1>16, <1>17, <1>18, <1>19, <1>20 DEF Fan!Next, Fan!Serve

\* A phone that has read all it was sent shows the slot, the game and its own profile as
\* the server has them, unless an event went amiss.
THEOREM ViewIsTrueCorrect == ASSUME Rooms, NoneSent PROVE Fan!Spec => []Fan!ViewIsTrue
<1>1. Fan!Init => FanTypes /\ Fan!ViewInv
  BY FanTypesInit, ViewInit
<1>2. FanTypes /\ Fan!ViewInv /\ [Fan!Next]_(Fan!vars) => (FanTypes /\ Fan!ViewInv)'
  BY FanTypesNext, ViewNext
<1>3. FanTypes /\ Fan!ViewInv => Fan!ViewIsTrue
  <2> SUFFICES ASSUME FanTypes, Fan!ViewInv, Fan!CaughtUp PROVE Fan!ViewIsTrue
    BY DEF Fan!ViewIsTrue
  <2>1. link.pc = "serving" /\ link.rx = <<>> /\ phone.boot = boot /\ \A w \in Writer : writer[w] = NoEvent
    BY DEF Fan!CaughtUp, Fan!ViewInv, Fan!LinkIsKnown
  <2>2. ASSUME NEW t \in Fan!Topic \ off PROVE Fan!Agree(t, Fan!Shows(t), Fan!Now(t))
    <3>1. ~Fan!Pends(t) /\ Fan!Follows(t)
      BY <2>1, TopicsAre DEF Fan!Pends, Fan!Topic
    <3>2. Fan!WillAgree(link.rx, t, phone.sid, Fan!Shows(t), Fan!Now(t))
      BY <2>2, <3>1 DEF Fan!ViewInv, Fan!ViewOf
    <3> QED
      BY <2>1, <3>2, AgreeOnNone
  <2>3. "slot" \notin off => phone.slot = truth.slot
    BY <2>2, TopicsAre DEF Fan!Topic, Fan!Agree
  <2>4. "profile" \notin off => phone.profile = seat.bound
    BY <2>2, TopicsAre DEF Fan!Topic, Fan!Agree
  <2>5. "game" \notin off => phone.game = truth.game \/ (~Fan!Running(phone.game) /\ ~Fan!Running(truth.game))
    BY <2>2, TopicsAre DEF Fan!Topic, Fan!Agree
  <2> QED
    BY <2>3, <2>4, <2>5 DEF Fan!ViewIsTrue
<1> QED
  BY <1>1, <1>2, <1>3, PTL DEF Fan!Spec

\* Sequences: what is looked for is there or not, and once.
LEMMA NoneInEmpty == ASSUME NEW S PROVE ~Fan!Somewhere(<<>>, S) /\ Fan!Once(<<>>, S)
  BY DEF Fan!Somewhere, Fan!Once

\* An element behind the others.
LEMMA OnceBehind ==
  ASSUME NEW T, NEW q \in Seq(T), NEW e \in T, NEW S
  PROVE  /\ Fan!Somewhere(Append(q, e), S) <=> Fan!Somewhere(q, S) \/ e \in S
         /\ Fan!Once(q, S) /\ (e \notin S \/ ~Fan!Somewhere(q, S)) => Fan!Once(Append(q, e), S)
<1>1. PICK r : r = Append(q, e)
  OBVIOUS
<1>2. /\ DOMAIN q = 1 .. Len(q) /\ DOMAIN r = 1 .. Len(q) + 1 /\ Len(q) \in Nat
      /\ \A i \in DOMAIN q : r[i] = q[i] /\ i \in DOMAIN r
      /\ r[Len(q) + 1] = e /\ Len(q) + 1 \in DOMAIN r
  BY <1>1
<1>3. \A i \in DOMAIN r : i \in DOMAIN q \/ i = Len(q) + 1
  BY <1>2
<1>4. Fan!Somewhere(r, S) <=> Fan!Somewhere(q, S) \/ e \in S
  BY <1>2, <1>3 DEF Fan!Somewhere
<1>5. ASSUME Fan!Once(q, S), e \notin S \/ ~Fan!Somewhere(q, S) PROVE Fan!Once(r, S)
  <2> SUFFICES ASSUME NEW i \in DOMAIN r, NEW j \in DOMAIN r, r[i] \in S, r[j] \in S PROVE i = j
    BY DEF Fan!Once
  <2>1. CASE i \in DOMAIN q /\ j \in DOMAIN q
    BY <1>2, <1>5, <2>1 DEF Fan!Once
  <2>2. CASE i \notin DOMAIN q \/ j \notin DOMAIN q
    BY <1>2, <1>3, <1>5, <2>2 DEF Fan!Somewhere
  <2> QED
    BY <2>1, <2>2
<1> QED
  BY <1>1, <1>4, <1>5

\* The elements after the first.
LEMMA OnceAfterFirst ==
  ASSUME NEW T, NEW q \in Seq(T), q # <<>>, NEW S
  PROVE  /\ Fan!Somewhere(Tail(q), S) => Fan!Somewhere(q, S)
         /\ Head(q) \in S => Fan!Somewhere(q, S)
         /\ Fan!Somewhere(q, S) => Head(q) \in S \/ Fan!Somewhere(Tail(q), S)
         /\ Fan!Once(q, S) => Fan!Once(Tail(q), S)
         /\ Fan!Once(q, S) /\ Head(q) \in S => ~Fan!Somewhere(Tail(q), S)
<1>1. PICK r : r = Tail(q)
  OBVIOUS
<1>2. /\ DOMAIN q = 1 .. Len(q) /\ DOMAIN r = 1 .. Len(q) - 1 /\ Len(q) \in Nat \ {0}
      /\ \A i \in DOMAIN r : r[i] = q[i + 1] /\ i + 1 \in DOMAIN q /\ i + 1 # 1
      /\ \A i \in DOMAIN q : i # 1 => i - 1 \in DOMAIN r /\ r[i - 1] = q[i]
      /\ Head(q) = q[1] /\ 1 \in DOMAIN q
  BY <1>1
<1>3. Fan!Somewhere(r, S) => Fan!Somewhere(q, S)
  BY <1>2 DEF Fan!Somewhere
<1>4. Fan!Somewhere(q, S) => Head(q) \in S \/ Fan!Somewhere(r, S)
  BY <1>2 DEF Fan!Somewhere
<1>5. Fan!Once(q, S) => Fan!Once(r, S)
  <2> SUFFICES ASSUME Fan!Once(q, S), NEW i \in DOMAIN r, NEW j \in DOMAIN r, r[i] \in S, r[j] \in S PROVE i = j
    BY DEF Fan!Once
  <2>1. i + 1 = j + 1
    BY <1>2 DEF Fan!Once
  <2> QED
    BY <1>2, <2>1
<1>6. Fan!Once(q, S) /\ Head(q) \in S => ~Fan!Somewhere(r, S)
  BY <1>2 DEF Fan!Once, Fan!Somewhere
<1>7. Head(q) \in S => Fan!Somewhere(q, S)
  BY <1>2 DEF Fan!Somewhere
<1> QED
  BY <1>1, <1>3, <1>4, <1>5, <1>6, <1>7

\* A taunt stays where it is, or goes from a buffer to the replay, or from the replay or
\* from the queue to the screen.
Goes(g, l, k, g2, l2, k2, n) ==
  LET held == Fan!Somewhere(g, Fan!Holders(n))      held2 == Fan!Somewhere(g2, Fan!Holders(n))
      sent == Fan!Somewhere(l.rx, Fan!Brings(n))    sent2 == Fan!Somewhere(l2.rx, Fan!Brings(n))
      again == Fan!InSeq(n, l.replay)           again2 == Fan!InSeq(n, l2.replay)
  IN  \/ (held <=> held2) /\ (again <=> again2) /\ (sent <=> sent2) /\ k2 = k
      \/ held /\ ~held2 /\ again2 /\ (sent <=> sent2) /\ k2 = k /\ l2.pc # "closing"
      \/ again /\ (held <=> held2) /\ ~again2 /\ (sent <=> sent2) /\ k2 = k + 1
      \/ sent /\ (held <=> held2) /\ (again <=> again2) /\ ~sent2 /\ k2 = k + 1 /\ l2.pc # "closing"

\* A taunt that goes such a way is still tracked.
LEMMA Moves ==
  ASSUME NEW g, NEW l, NEW k, NEW m, NEW g2, NEW l2, NEW k2, NEW m2, NEW t, NEW n,
         Fan!Tracked(g, l, k, t, m, n),
         n \notin m2 => n \notin m,
         Fan!Nowhere(g, l.rx, l.replay, k, n) => Fan!Nowhere(g2, l2.rx, l2.replay, k2, n),
         n \notin m2 =>
           /\ Fan!Once(g, Fan!Holders(n)) => Fan!Once(g2, Fan!Holders(n))
           /\ Fan!Once(l.rx, Fan!Brings(n)) => Fan!Once(l2.rx, Fan!Brings(n))
           /\ l2.lag => l.lag \/ ~Fan!Somewhere(l2.rx, Fan!Brings(n))
           /\ l2.pc = "closing" => l.pc = "closing" \/ ~Fan!InSeq(n, l2.replay),
         n \notin m2 => Goes(g, l, k, g2, l2, k2, n)
  PROVE  Fan!Tracked(g2, l2, k2, t, m2, n)
<1>1. n > t.n => Fan!Nowhere(g2, l2.rx, l2.replay, k2, n)
  BY DEF Fan!Tracked
<1>2. ASSUME n \notin m2 PROVE /\ Fan!AtOnePlace(g2, l2.rx, l2.replay, k2, n)
                               /\ l2.lag => ~Fan!Somewhere(l2.rx, Fan!Brings(n))
                               /\ l2.pc = "closing" => ~Fan!InSeq(n, l2.replay)
                               /\ n = t.n /\ t.pushed => ~Fan!Somewhere(l2.rx, Fan!Brings(n))
                               /\ n <= t.n /\ ~(n = t.n /\ t.pushed) => ~Fan!Nowhere(g2, l2.rx, l2.replay, k2, n)
  <2>1. /\ Fan!AtOnePlace(g, l.rx, l.replay, k, n)
        /\ l.lag => ~Fan!Somewhere(l.rx, Fan!Brings(n))
        /\ l.pc = "closing" => ~Fan!InSeq(n, l.replay)
        /\ n = t.n /\ t.pushed => ~Fan!Somewhere(l.rx, Fan!Brings(n))
        /\ n <= t.n /\ ~(n = t.n /\ t.pushed) => ~Fan!Nowhere(g, l.rx, l.replay, k, n)
    BY <1>2 DEF Fan!Tracked
  <2> QED
    BY <1>2, <2>1 DEF Fan!AtOnePlace, Fan!Nowhere, Goes
<1> QED
  BY <1>1, <1>2 DEF Fan!Tracked

\* A step that leaves the taunts alone.
LEMMA TauntsAlone ==
  ASSUME NEW n, Fan!Tracked(ghosts, link, seen[n], taunt, excused, n),
         UNCHANGED <<ghosts, taunt, seen, excused>>, link'.rx = link.rx, link'.replay = link.replay,
         link'.lag = link.lag, link'.pc = "closing" => link.pc = "closing"
  PROVE  Fan!Tracked(ghosts', link', seen'[n], taunt', excused', n)
  BY DEF Fan!Tracked

\* Another event is sent: in a full ring it takes the place of the first.
LEMMA TauntPassed ==
  ASSUME Rooms, FanTypes, Fan!LinkIsKnown, NEW n \in Fan!Taunts, NEW m2, NEW e \in Sent, link' = Fan!Receive(e),
         e \notin Fan!Brings(n), Fan!Tracked(ghosts, link, seen[n], taunt, excused, n),
         n \notin m2 => n \notin excused, Fan!Overflows => Fan!TauntsIn(link.rx) \subseteq m2
  PROVE  Fan!Tracked(ghosts, link', seen[n], taunt, m2, n)
<1>1. /\ link'.pc = link.pc /\ link'.replay = link.replay
      /\ ~Fan!Subscribed => link'.rx = link.rx /\ link'.lag = link.lag
      /\ Fan!Subscribed /\ ~Fan!Overflows => link'.rx = Append(link.rx, e) /\ link'.lag = link.lag
      /\ Fan!Overflows => link'.rx = Append(Tail(link.rx), e)
  BY ReceiveTypes
<1>2. link.rx \in Seq(Sent)
  BY FanParts
<1>b. ASSUME NEW q \in Seq(Sent)
      PROVE  /\ Fan!Somewhere(Append(q, e), Fan!Brings(n)) <=> Fan!Somewhere(q, Fan!Brings(n))
             /\ Fan!Once(q, Fan!Brings(n)) => Fan!Once(Append(q, e), Fan!Brings(n))
  BY OnceBehind
<1>3. CASE ~Fan!Subscribed
  BY <1>1, <1>3, Moves DEF Goes
<1>4. CASE Fan!Subscribed /\ ~Fan!Overflows
  <2>1. /\ Fan!Somewhere(link'.rx, Fan!Brings(n)) <=> Fan!Somewhere(link.rx, Fan!Brings(n))
        /\ Fan!Once(link.rx, Fan!Brings(n)) => Fan!Once(link'.rx, Fan!Brings(n))
    <3>1. link'.rx = Append(link.rx, e)
      BY <1>1, <1>4
    <3>2. /\ Fan!Somewhere(Append(link.rx, e), Fan!Brings(n)) <=> Fan!Somewhere(link.rx, Fan!Brings(n))
          /\ Fan!Once(link.rx, Fan!Brings(n)) => Fan!Once(Append(link.rx, e), Fan!Brings(n))
      BY <1>2, <1>b
    <3> QED
      BY <3>1, <3>2
  <2>2. Fan!Nowhere(ghosts, link.rx, link.replay, seen[n], n)
          => Fan!Nowhere(ghosts, link'.rx, link'.replay, seen[n], n)
    BY <1>1, <2>1 DEF Fan!Nowhere
  <2> QED
    BY <1>1, <1>4, <2>1, <2>2, Moves DEF Goes
<1>5. CASE Fan!Overflows
  <2>1. link.rx # <<>>
    BY <1>2, <1>5 DEF Fan!Overflows, Rooms
  <2>2. Tail(link.rx) \in Seq(Sent)
    BY <1>2, <2>1
  <2>3. Fan!Somewhere(link'.rx, Fan!Brings(n)) => Fan!Somewhere(link.rx, Fan!Brings(n))
    <3>1. link'.rx = Append(Tail(link.rx), e)
      BY <1>1, <1>5
    <3>2. Fan!Somewhere(Append(Tail(link.rx), e), Fan!Brings(n)) => Fan!Somewhere(Tail(link.rx), Fan!Brings(n))
      BY <2>2, <1>b
    <3>3. Fan!Somewhere(Tail(link.rx), Fan!Brings(n)) => Fan!Somewhere(link.rx, Fan!Brings(n))
      BY <1>2, <2>1, OnceAfterFirst
    <3> QED
      BY <3>1, <3>2, <3>3
  <2>4. Fan!Once(link.rx, Fan!Brings(n)) => Fan!Once(link'.rx, Fan!Brings(n))
    <3>1. Fan!Once(link.rx, Fan!Brings(n)) => Fan!Once(Tail(link.rx), Fan!Brings(n))
      BY <1>2, <2>1, OnceAfterFirst
    <3> QED
      BY <1>1, <1>5, <2>2, <3>1, <1>b
  <2>5. Fan!Nowhere(ghosts, link.rx, link.replay, seen[n], n)
          => Fan!Nowhere(ghosts, link'.rx, link'.replay, seen[n], n)
    BY <1>1, <2>3 DEF Fan!Nowhere
  <2>6. n \notin m2 => ~Fan!Somewhere(link.rx, Fan!Brings(n))
    BY <1>5 DEF Fan!TauntsIn, Fan!Somewhere, Fan!Brings, Fan!InSeq
  <2> QED
    BY <1>1, <2>3, <2>4, <2>5, <2>6, Moves DEF Goes
<1> QED
  BY <1>3, <1>4, <1>5

\* No taunt has come yet.
LEMMA TauntInit == ASSUME Rooms, Fan!Init PROVE Fan!TauntInv
<1>1. ghosts = <<>> /\ link.rx = <<>> /\ link.replay = <<>> /\ link.lag = FALSE /\ link.pc = "down"
  BY FanValues DEF Fan!Init
<1>2. taunt = [n |-> 0, pushed |-> FALSE] /\ \A n \in Fan!Taunts : seen[n] = 0 /\ n > taunt.n
  BY DEF Fan!Init, Fan!Taunts
<1>3. \A n : ~Fan!InSeq(n, <<>>)
  BY DEF Fan!InSeq
<1>4. ASSUME NEW n \in Fan!Taunts PROVE Fan!Tracked(ghosts, link, seen[n], taunt, excused, n)
  BY <1>1, <1>2, <1>3, NoneInEmpty DEF Fan!Tracked, Fan!Nowhere, Fan!AtOnePlace, Fan!Taunts
<1> QED
  BY <1>4 DEF Fan!TauntInv

\* push_replay_for_profile: the taunt is held, nothing else is gained, and what is lost was
\* the first of a full buffer.
LEMMA BufferHolds ==
  ASSUME Rooms, NEW g \in Fan!Ghost, NEW n \in Fan!Taunts, NEW m, m # n
  PROVE  /\ Fan!Buffered(g, n) \in Fan!Ghost /\ Fan!Buffered(g, n) \in Fan!Holders(n)
         /\ Fan!Buffered(g, n) \in Fan!Holders(m) => g \in Fan!Holders(m)
         /\ g \in Fan!Holders(m) => \/ Fan!Buffered(g, n) \in Fan!Holders(m)
                                    \/ Len(g.buf) >= ReplayLimit /\ Head(g.buf) = m
<1>1. PICK q : q = IF Len(g.buf) >= ReplayLimit THEN Tail(g.buf) ELSE g.buf
  OBVIOUS
<1>2. g.buf \in Seq(Fan!Taunts) /\ (Len(g.buf) >= ReplayLimit => g.buf # <<>>)
  BY DEF Fan!Ghost, Rooms
<1>3. q \in Seq(Fan!Taunts)
  BY <1>1, <1>2
<1>4. PICK new : new = Append(q, n)
  OBVIOUS
<1>5. Fan!Buffered(g, n) = [g EXCEPT !.buf = new]
  BY <1>1, <1>4 DEF Fan!Buffered
<1>6. new \in Seq(Fan!Taunts)
  BY <1>3, <1>4
<1>7. Fan!Buffered(g, n) \in Fan!Ghost /\ Fan!Buffered(g, n).buf = new
  BY <1>5, <1>6 DEF Fan!Ghost
<1>8. \A x, r : Fan!InSeq(x, r) <=> Fan!Somewhere(r, {x})
  BY DEF Fan!InSeq, Fan!Somewhere
<1>9. Fan!Somewhere(new, {n}) /\ (Fan!Somewhere(new, {m}) <=> Fan!Somewhere(q, {m}))
  BY <1>3, <1>4, OnceBehind
<1>10. Fan!Somewhere(q, {m}) => Fan!Somewhere(g.buf, {m})
  BY <1>1, <1>2, OnceAfterFirst
<1>11. Fan!Somewhere(g.buf, {m}) => Fan!Somewhere(q, {m}) \/ (Len(g.buf) >= ReplayLimit /\ Head(g.buf) = m)
  <2>1. CASE Len(g.buf) >= ReplayLimit
    <3>1. Fan!Somewhere(g.buf, {m}) => Head(g.buf) \in {m} \/ Fan!Somewhere(Tail(g.buf), {m})
      BY <1>2, <2>1, OnceAfterFirst
    <3> QED
      BY <1>1, <2>1, <3>1
  <2>2. CASE ~(Len(g.buf) >= ReplayLimit)
    BY <1>1, <2>2
  <2> QED
    BY <2>1, <2>2
<1> QED
  BY <1>7, <1>8, <1>9, <1>10, <1>11 DEF Fan!Holders

\* execute_kaos_swap buffers a taunt.
LEMMA TauntPush ==
  ASSUME Rooms, FanTypes, Fan!PushTaunt, NEW n \in Fan!Taunts, Fan!Tracked(ghosts, link, seen[n], taunt, excused, n)
  PROVE  Fan!Tracked(ghosts', link', seen'[n], taunt', excused', n)
<1>0. /\ UNCHANGED <<link, seen>> /\ ~taunt.pushed /\ taunt' = [n |-> taunt.n + 1, pushed |-> TRUE]
      /\ taunt.n \in Nat /\ taunt.n + 1 \in Fan!Taunts
      /\ ghosts \in Seq(Fan!Ghost) /\ DOMAIN ghosts = 1 .. Len(ghosts) /\ Len(ghosts) \in Nat
      /\ \A i \in DOMAIN ghosts : ghosts[i] \in Fan!Ghost
      /\ ghosts' = [i \in DOMAIN ghosts |-> Fan!Buffered(ghosts[i], taunt.n + 1)]
      /\ excused \subseteq excused'
  BY FanParts DEF Fan!PushTaunt, FanTypes, Fan!Taunts, Rooms
<1>1. DOMAIN ghosts' = DOMAIN ghosts /\ \A i \in DOMAIN ghosts : ghosts'[i] = Fan!Buffered(ghosts[i], taunt.n + 1)
  BY <1>0
<1>2. CASE n = taunt.n + 1
  <2>1. Fan!Nowhere(ghosts, link.rx, link.replay, seen[n], n)
    BY <1>0, <1>2 DEF Fan!Tracked
  <2>2. ASSUME n \notin excused' PROVE Fan!Once(ghosts', Fan!Holders(n))
    <3>1. ~(Len(ghosts) > 1)
      BY <1>2, <2>2 DEF Fan!PushTaunt
    <3>2. \A i, j \in DOMAIN ghosts : i = j
      BY <1>0, <3>1
    <3> QED
      BY <1>1, <3>2 DEF Fan!Once
  <2> QED
    BY <1>0, <1>2, <2>1, <2>2 DEF Fan!Tracked, Fan!Nowhere, Fan!AtOnePlace, Fan!Once, Fan!Somewhere
<1>3. CASE n # taunt.n + 1
  <2>1. \A i \in DOMAIN ghosts : /\ ghosts'[i] \in Fan!Holders(n) => ghosts[i] \in Fan!Holders(n)
                                 /\ ghosts[i] \in Fan!Holders(n) =>
                                      \/ ghosts'[i] \in Fan!Holders(n)
                                      \/ Len(ghosts[i].buf) >= ReplayLimit /\ Head(ghosts[i].buf) = n
    BY <1>0, <1>1, <1>3, BufferHolds
  <2>2. ASSUME n \notin excused', NEW i \in DOMAIN ghosts, Len(ghosts[i].buf) >= ReplayLimit
        PROVE  Head(ghosts[i].buf) # n
    BY <2>2 DEF Fan!PushTaunt
  <2>3. Fan!Somewhere(ghosts', Fan!Holders(n)) => Fan!Somewhere(ghosts, Fan!Holders(n))
    BY <1>1, <2>1 DEF Fan!Somewhere
  <2>4. n \notin excused' /\ Fan!Somewhere(ghosts, Fan!Holders(n)) => Fan!Somewhere(ghosts', Fan!Holders(n))
    BY <1>1, <2>1, <2>2 DEF Fan!Somewhere
  <2>5. Fan!Once(ghosts, Fan!Holders(n)) => Fan!Once(ghosts', Fan!Holders(n))
    BY <1>1, <2>1 DEF Fan!Once
  <2>6. Fan!Nowhere(ghosts, link.rx, link.replay, seen[n], n)
             => Fan!Nowhere(ghosts', link.rx, link.replay, seen[n], n)
    BY <2>3 DEF Fan!Nowhere
  <2>7. Fan!Tracked(ghosts', link, seen[n], taunt, excused', n)
    BY <1>0, <2>3, <2>4, <2>5, <2>6, Moves DEF Goes
  <2>8. (n > taunt.n + 1 => n > taunt.n) /\ (n <= taunt.n + 1 => n <= taunt.n)
    BY <1>0, <1>3 DEF Fan!Taunts
  <2> QED
    BY <1>0, <1>3, <2>7, <2>8 DEF Fan!Tracked
<1> QED
  BY <1>2, <1>3

\* execute_kaos_swap broadcasts it.
LEMMA TauntSend ==
  ASSUME Rooms, FanTypes, Fan!LinkIsKnown, Fan!SendTaunt, NEW n \in Fan!Taunts,
         Fan!Tracked(ghosts, link, seen[n], taunt, excused, n)
  PROVE  Fan!Tracked(ghosts', link', seen'[n], taunt', excused', n)
<1>0. PICK e : e = Fan!Event("taunt", taunt.n, 0)
  OBVIOUS
<1>1. /\ taunt.pushed /\ taunt.n \in Fan!Taunts /\ e \in Sent
      /\ taunt'.n = taunt.n /\ taunt'.pushed = FALSE
      /\ link' = Fan!Receive(e) /\ UNCHANGED <<ghosts, seen>> /\ excused \subseteq excused'
  <2>1. taunt.n \in Fan!Taunts
    BY FanParts DEF Fan!SendTaunt, FanTypes, Fan!Taunts
  <2>2. e \in Sent
    BY <1>0, <2>1 DEF Fan!Event, Sent
  <2>3. taunt'.n = taunt.n /\ taunt'.pushed = FALSE
    BY DEF Fan!SendTaunt, FanTypes
  <2> QED
    BY <1>0, <2>1, <2>2, <2>3 DEF Fan!SendTaunt
<1>2. Fan!Overflows => Fan!TauntsIn(link.rx) \subseteq excused' /\ taunt.n \in excused'
  BY DEF Fan!SendTaunt
<1>3. CASE n # taunt.n
  <2>1. e \notin Fan!Brings(n)
    BY <1>0, <1>3 DEF Fan!Brings, Fan!Event
  <2>2. Fan!Tracked(ghosts, link', seen[n], taunt, excused', n)
    BY <1>1, <1>2, <2>1, TauntPassed
  <2> QED
    BY <1>1, <1>3, <2>2 DEF Fan!Tracked
<1>4. CASE n = taunt.n
  <2>0. ~(n > taunt'.n)
    BY <1>1, <1>4 DEF Fan!Taunts
  <2>1. CASE n \in excused'
    BY <2>0, <2>1 DEF Fan!Tracked
  <2>2. CASE n \notin excused'
    <3>1. /\ Fan!AtOnePlace(ghosts, link.rx, link.replay, seen[n], n)
          /\ ~Fan!Somewhere(link.rx, Fan!Brings(n))
          /\ link.pc = "closing" => ~Fan!InSeq(n, link.replay)
      BY <1>1, <1>4, <2>2 DEF Fan!Tracked
    <3>2. ~Fan!Overflows /\ (Fan!Kept(n) <=> ~Fan!Subscribed)
      BY <1>1, <1>2, <1>4, <2>2 DEF Fan!SendTaunt
    <3>3. Fan!Kept(n) <=> Fan!Somewhere(ghosts, Fan!Holders(n)) \/ Fan!InSeq(n, link.replay) \/ seen[n] > 0
      <4>1. \A i \in DOMAIN ghosts : ghosts[i] \in Fan!Ghost
        BY DEF FanTypes
      <4> QED
        BY <4>1 DEF Fan!Kept, Fan!Somewhere, Fan!Holders
    <3>4. link'.pc = link.pc /\ link'.replay = link.replay
      BY <1>1, ReceiveTypes
    <3>5. CASE Fan!Subscribed
      <4>1. link'.rx = Append(link.rx, e) /\ link'.lag = link.lag
        BY <1>1, <3>2, <3>5, ReceiveTypes
      <4>2. link'.lag = FALSE
        BY <3>2, <3>5, <4>1, FanParts DEF Fan!LinkIsKnown, Fan!Overflows, FanTypes, Links
      <4>3. link.rx \in Seq(Sent) /\ e \in Fan!Brings(n)
        BY <1>0, <1>4, FanParts DEF Fan!Brings
      <4>4. Fan!Somewhere(Append(link.rx, e), Fan!Brings(n)) /\ Fan!Once(Append(link.rx, e), Fan!Brings(n))
        BY <1>1, <3>1, <4>3, OnceBehind DEF Fan!AtOnePlace
      <4>5. ~Fan!Somewhere(ghosts, Fan!Holders(n)) /\ ~Fan!InSeq(n, link.replay) /\ seen[n] = 0
        <5>1. seen[n] \in Nat /\ ~(seen[n] > 0)
          BY <3>2, <3>3, <3>5 DEF FanTypes
        <5> QED
          BY <3>2, <3>3, <3>5, <5>1
      <4>6. Fan!AtOnePlace(ghosts, link'.rx, link'.replay, seen[n], n)
        BY <3>1, <3>4, <4>1, <4>4, <4>5 DEF Fan!AtOnePlace
      <4>7. ~Fan!Nowhere(ghosts, link'.rx, link'.replay, seen[n], n)
        BY <4>1, <4>4 DEF Fan!Nowhere
      <4> QED
        BY <1>1, <2>0, <3>4, <4>2, <4>5, <4>6, <4>7 DEF Fan!Tracked
    <3>6. CASE ~Fan!Subscribed
      <4>1. link'.rx = link.rx
        BY <1>1, <3>6, ReceiveTypes
      <4>2. ~Fan!Nowhere(ghosts, link'.rx, link'.replay, seen[n], n)
        <5>1. seen[n] > 0 => seen[n] # 0
          OBVIOUS
        <5> QED
          BY <3>2, <3>3, <3>4, <3>6, <5>1 DEF Fan!Nowhere
      <4> QED
        BY <1>1, <2>0, <3>1, <3>4, <4>1, <4>2 DEF Fan!Tracked
    <3> QED
      BY <3>5, <3>6
  <2> QED
    BY <2>1, <2>2
<1> QED
  BY <1>3, <1>4

\* The phone reads an event, a taunt perhaps.
LEMMA TauntRead ==
  ASSUME FanTypes, Fan!LinkIsKnown, Fan!OnMessage, NEW n \in Fan!Taunts,
         Fan!Tracked(ghosts, link, seen[n], taunt, excused, n)
  PROVE  Fan!Tracked(ghosts', link', seen'[n], taunt', excused', n)
<1>1. PICK e \in Sent : e = Head(link.rx)
  BY FanParts DEF Fan!OnMessage
<1>2. /\ link' = [link EXCEPT !.rx = Tail(@)] /\ link.rx # <<>> /\ link.pc = "serving" /\ ~link.lag
      /\ UNCHANGED <<ghosts, taunt, excused>>
      /\ seen' = IF e.kind = "taunt" THEN [seen EXCEPT ![e.value] = @ + 1] ELSE seen
  BY <1>1 DEF Fan!OnMessage
<1>3. link'.pc = "serving" /\ link'.rx = Tail(link.rx) /\ link'.lag = link.lag /\ link'.replay = link.replay
  BY <1>2 DEF FanTypes, Links
<1>4. link.rx \in Seq(Sent)
  BY FanParts
<1>5. /\ Fan!Somewhere(Tail(link.rx), Fan!Brings(n)) => Fan!Somewhere(link.rx, Fan!Brings(n))
      /\ e \in Fan!Brings(n) => Fan!Somewhere(link.rx, Fan!Brings(n))
      /\ Fan!Somewhere(link.rx, Fan!Brings(n))
              => e \in Fan!Brings(n) \/ Fan!Somewhere(Tail(link.rx), Fan!Brings(n))
      /\ Fan!Once(link.rx, Fan!Brings(n)) => Fan!Once(Tail(link.rx), Fan!Brings(n))
      /\ Fan!Once(link.rx, Fan!Brings(n)) /\ e \in Fan!Brings(n) => ~Fan!Somewhere(Tail(link.rx), Fan!Brings(n))
  BY <1>1, <1>2, <1>4, OnceAfterFirst
<1>6. e \in Fan!Brings(n) <=> e.kind = "taunt" /\ e.value = n
  BY DEF Fan!Brings, Fan!Event, Sent
<1>7. e.kind = "taunt" => e.value \in Fan!Taunts
  BY DEF Sent
<1>8. seen'[n] = IF e \in Fan!Brings(n) THEN seen[n] + 1 ELSE seen[n]
  BY <1>2, <1>6, <1>7 DEF FanTypes
<1>9. Fan!Nowhere(ghosts, link.rx, link.replay, seen[n], n)
           => Fan!Nowhere(ghosts, link'.rx, link'.replay, seen'[n], n)
  BY <1>3, <1>5, <1>8 DEF Fan!Nowhere
<1>10. n \notin excused => Fan!Once(link.rx, Fan!Brings(n))
  BY DEF Fan!Tracked, Fan!AtOnePlace
<1>11. n \notin excused => Goes(ghosts, link, seen[n], ghosts', link', seen'[n], n)
  <2>1. CASE e \in Fan!Brings(n)
    BY <1>2, <1>3, <1>5, <1>8, <1>10, <2>1 DEF Goes
  <2>2. CASE e \notin Fan!Brings(n)
    BY <1>2, <1>3, <1>5, <1>8, <2>2 DEF Goes
  <2> QED
    BY <2>1, <2>2
<1>12. Fan!Tracked(ghosts', link', seen'[n], taunt, excused', n)
  <2>1. n \notin excused' => n \notin excused
    BY <1>2
  <2>2. /\ Fan!Once(ghosts, Fan!Holders(n)) => Fan!Once(ghosts', Fan!Holders(n))
        /\ Fan!Once(link.rx, Fan!Brings(n)) => Fan!Once(link'.rx, Fan!Brings(n))
        /\ link'.lag => link.lag \/ ~Fan!Somewhere(link'.rx, Fan!Brings(n))
        /\ link'.pc = "closing" => link.pc = "closing" \/ ~Fan!InSeq(n, link'.replay)
    BY <1>2, <1>3, <1>5
  <2>3. Fan!Nowhere(ghosts, link.rx, link.replay, seen[n], n)
             => Fan!Nowhere(ghosts', link'.rx, link'.replay, seen'[n], n)
    BY <1>2, <1>9
  <2>4. n \notin excused' => Goes(ghosts, link, seen[n], ghosts', link', seen'[n], n)
    BY <1>2, <1>11
  <2> QED
    BY <2>1, <2>2, <2>3, <2>4, Moves
<1> QED
  BY <1>2, <1>12

\* Every step keeps TauntInv.
LEMMA TauntNext ==
  ASSUME Rooms, NoneSent, FanTypes, Fan!LinkIsKnown, Fan!TauntInv, [Fan!Next]_(Fan!vars) PROVE Fan!TauntInv'
<1>p. /\ link \in Links /\ link.pc \in Fan!Stages /\ ghosts \in Seq(Fan!Ghost) /\ link.rx \in Seq(Sent)
  BY FanParts DEF FanTypes
<1>k. /\ link.rx # <<>> => link.pc = "serving"
      /\ link.replay # <<>> => link.pc \in {"chosen", "welcomed", "shown", "told", "closing"}
      /\ link.lag => link.pc = "serving"
  BY DEF Fan!LinkIsKnown
<1>e. (\A m : ~Fan!InSeq(m, <<>>)) /\ \A S : ~Fan!Somewhere(<<>>, S) /\ Fan!Once(<<>>, S)
  BY NoneInEmpty DEF Fan!InSeq
<1>h. \A m : \A g \in Fan!Ghost : g \in Fan!Holders(m) <=> Fan!InSeq(m, g.buf)
  BY DEF Fan!Holders
<1> SUFFICES ASSUME NEW n \in Fan!Taunts PROVE Fan!Tracked(ghosts', link', seen'[n], taunt', excused', n)
  BY DEF Fan!TauntInv
<1>t. Fan!Tracked(ghosts, link, seen[n], taunt, excused, n)
  BY DEF Fan!TauntInv
<1>1. ASSUME UNCHANGED <<ghosts, taunt, seen, excused, link>>
      PROVE  Fan!Tracked(ghosts', link', seen'[n], taunt', excused', n)
  BY <1>1, <1>t
<1>2. ASSUME NEW w \in Writer, NEW u \in {"slot", "game"}, Fan!ChangeState(w, u)
      PROVE  Fan!Tracked(ghosts', link', seen'[n], taunt', excused', n)
  BY <1>1, <1>2 DEF Fan!ChangeState
<1>3. ASSUME NEW w \in Writer, NEW b \in BOOLEAN, Fan!SwitchProfile(w, b)
      PROVE  Fan!Tracked(ghosts', link', seen'[n], taunt', excused', n)
  BY <1>1, <1>3 DEF Fan!SwitchProfile
<1>4. ASSUME NEW w \in Writer, Fan!SendEvent(w) PROVE Fan!Tracked(ghosts', link', seen'[n], taunt', excused', n)
  <2>1. PICK e \in Sent : e = writer[w] /\ e.kind # "taunt"
    BY <1>4 DEF Fan!SendEvent, FanTypes
  <2>2. e \notin Fan!Brings(n)
    BY <2>1 DEF Fan!Brings, Fan!Event
  <2>3. /\ link' = Fan!Receive(e) /\ UNCHANGED <<ghosts, taunt, seen>> /\ excused \subseteq excused'
        /\ Fan!Overflows => Fan!TauntsIn(link.rx) \subseteq excused'
    BY <1>4, <2>1 DEF Fan!SendEvent
  <2> QED
    BY <1>t, <2>2, <2>3, TauntPassed
<1>5. ASSUME Fan!PushTaunt PROVE Fan!Tracked(ghosts', link', seen'[n], taunt', excused', n)
  BY <1>5, <1>t, TauntPush
<1>6. ASSUME Fan!SendTaunt PROVE Fan!Tracked(ghosts', link', seen'[n], taunt', excused', n)
  BY <1>6, <1>t, TauntSend
\* The first ghost is taken.
<1>f. ASSUME ghosts # <<>> PROVE /\ Head(ghosts) \in Fan!Ghost
                                 /\ Fan!Somewhere(Tail(ghosts), Fan!Holders(n))
                                         => Fan!Somewhere(ghosts, Fan!Holders(n))
                                 /\ Fan!InSeq(n, Head(ghosts).buf) => Fan!Somewhere(ghosts, Fan!Holders(n))
                                 /\ Fan!Somewhere(ghosts, Fan!Holders(n)) =>
                                      Fan!InSeq(n, Head(ghosts).buf) \/ Fan!Somewhere(Tail(ghosts), Fan!Holders(n))
                                 /\ Fan!Once(ghosts, Fan!Holders(n)) => Fan!Once(Tail(ghosts), Fan!Holders(n))
                                 /\ Fan!Once(ghosts, Fan!Holders(n)) /\ Fan!InSeq(n, Head(ghosts).buf) =>
                                      ~Fan!Somewhere(Tail(ghosts), Fan!Holders(n))
  <2>1. Head(ghosts) \in Fan!Ghost
    BY <1>p, <1>f
  <2>2. Head(ghosts) \in Fan!Holders(n) <=> Fan!InSeq(n, Head(ghosts).buf)
    BY <1>h, <2>1
  <2> QED
    BY <1>p, <1>f, <2>1, <2>2, OnceAfterFirst
<1>7. ASSUME Fan!Reclaim PROVE Fan!Tracked(ghosts', link', seen'[n], taunt', excused', n)
  <2>1. /\ link' = [link EXCEPT !.pc = "chosen", !.replay = Head(ghosts).buf] /\ link.pc = "opening"
        /\ ghosts # <<>> /\ ghosts' = Tail(ghosts) /\ UNCHANGED <<taunt, seen, excused>>
    BY <1>7 DEF Fan!Reclaim
  <2>2. link'.pc = "chosen" /\ link'.rx = link.rx /\ link'.lag = link.lag /\ link'.replay = Head(ghosts).buf
    BY <1>p, <2>1 DEF Links
  <2>3. ~Fan!InSeq(n, link.replay) /\ ~Fan!Somewhere(link.rx, Fan!Brings(n))
    BY <1>e, <1>k, <2>1
  <2>4. Fan!Nowhere(ghosts, link.rx, link.replay, seen[n], n)
             => Fan!Nowhere(ghosts', link'.rx, link'.replay, seen[n], n)
    BY <1>f, <2>1, <2>2 DEF Fan!Nowhere
  <2>5. n \notin excused => Fan!Once(ghosts, Fan!Holders(n))
    BY <1>t DEF Fan!Tracked, Fan!AtOnePlace
  <2>6. n \notin excused => Goes(ghosts, link, seen[n], ghosts', link', seen'[n], n)
    <3>1. CASE Fan!InSeq(n, Head(ghosts).buf)
      BY <1>f, <2>1, <2>2, <2>3, <2>5, <3>1 DEF Goes
    <3>2. CASE ~Fan!InSeq(n, Head(ghosts).buf)
      BY <1>f, <2>1, <2>2, <2>3, <3>2 DEF Goes
    <3> QED
      BY <3>1, <3>2
  <2>7. Fan!Tracked(ghosts', link', seen'[n], taunt, excused', n)
    <3>1. n \notin excused' => n \notin excused
      BY <2>1
    <3>2. n \notin excused' =>
            /\ Fan!Once(ghosts, Fan!Holders(n)) => Fan!Once(ghosts', Fan!Holders(n))
            /\ Fan!Once(link.rx, Fan!Brings(n)) => Fan!Once(link'.rx, Fan!Brings(n))
            /\ link'.lag => link.lag \/ ~Fan!Somewhere(link'.rx, Fan!Brings(n))
            /\ link'.pc = "closing" => link.pc = "closing" \/ ~Fan!InSeq(n, link'.replay)
      BY <1>f, <2>1, <2>2
    <3>3. Fan!Nowhere(ghosts, link.rx, link.replay, seen[n], n)
               => Fan!Nowhere(ghosts', link'.rx, link'.replay, seen'[n], n)
      BY <2>1, <2>4
    <3>4. n \notin excused' => Goes(ghosts, link, seen[n], ghosts', link', seen'[n], n)
      BY <2>1, <2>6
    <3> QED
      BY <1>t, <3>1, <3>2, <3>3, <3>4, Moves
  <2> QED
    BY <2>1, <2>7
\* The first ghost ends.
<1>g. ASSUME ghosts # <<>>, ghosts' = Tail(ghosts), UNCHANGED <<taunt, seen>>, link'.rx = link.rx,
             link'.replay = link.replay, link'.lag = link.lag, link'.pc = "closing" => link.pc = "closing",
             excused' = excused \cup {m \in Fan!Taunts : Fan!InSeq(m, Head(ghosts).buf)}
      PROVE  Fan!Tracked(ghosts', link', seen'[n], taunt', excused', n)
  <2>1. Fan!Nowhere(ghosts, link.rx, link.replay, seen[n], n)
             => Fan!Nowhere(ghosts', link'.rx, link'.replay, seen[n], n)
    BY <1>f, <1>g DEF Fan!Nowhere
  <2>2. n \notin excused' => n \notin excused /\ ~Fan!InSeq(n, Head(ghosts).buf)
    BY <1>g
  <2> QED
    BY <1>f, <1>g, <1>t, <2>1, <2>2, Moves DEF Goes
<1>8. ASSUME Fan!Register PROVE Fan!Tracked(ghosts', link', seen'[n], taunt', excused', n)
  <2>1. link'.pc = "chosen" /\ link'.rx = link.rx /\ link'.lag = link.lag /\ link'.replay = link.replay
    BY <1>8, StageTypes DEF Fan!Register, Fan!Stages
  <2>2. CASE Len(ghosts) >= MaxSessions
    <3>1. ghosts # <<>>
      BY <1>p, <2>2 DEF Rooms
    <3> QED
      BY <1>8, <2>1, <2>2, <3>1, <1>g DEF Fan!Register
  <2>3. CASE ~(Len(ghosts) >= MaxSessions)
    <3>1. UNCHANGED <<ghosts, taunt, seen, excused>>
      BY <1>8, <2>3 DEF Fan!Register
    <3> QED
      BY <1>t, <2>1, <3>1, TauntsAlone
  <2> QED
    BY <2>2, <2>3
<1>9. ASSUME Fan!Welcome \/ Fan!ShowPortal \/ Fan!TellProfile \/ Fan!OpenSocket
      PROVE  Fan!Tracked(ghosts', link', seen'[n], taunt', excused', n)
  <2>1. /\ link'.pc # "closing" /\ link'.rx = link.rx /\ link'.lag = link.lag /\ link'.replay = link.replay
        /\ UNCHANGED <<ghosts, taunt, seen, excused>>
    BY <1>9, StageTypes DEF Fan!Welcome, Fan!ShowPortal, Fan!TellProfile, Fan!OpenSocket, Fan!Stages
  <2> QED
    BY <1>t, <2>1, TauntsAlone
<1>10. ASSUME Fan!Reload PROVE Fan!Tracked(ghosts', link', seen'[n], taunt', excused', n)
  <2>1. /\ link'.pc = "closing" /\ link'.rx = link.rx /\ link'.lag = link.lag /\ link'.replay = link.replay
        /\ UNCHANGED <<ghosts, taunt, seen>>
        /\ excused' = excused \cup {m \in Fan!Taunts : Fan!InSeq(m, link.replay)}
    BY <1>10, StageTypes DEF Fan!Reload, Fan!Stages
  <2>2. n \notin excused' => n \notin excused /\ ~Fan!InSeq(n, link.replay)
    BY <2>1
  <2> QED
    BY <1>t, <2>1, <2>2, Moves DEF Goes
<1>11. ASSUME Fan!Subscribe PROVE Fan!Tracked(ghosts', link', seen'[n], taunt', excused', n)
  <2>1. /\ link.pc = "told" /\ link' = [link EXCEPT !.pc = "serving", !.replay = <<>>]
        /\ UNCHANGED <<ghosts, taunt, excused>>
        /\ seen' = [m \in Fan!Taunts |-> IF Fan!InSeq(m, link.replay) THEN seen[m] + 1 ELSE seen[m]]
    BY <1>11 DEF Fan!Subscribe
  <2>2. link'.pc = "serving" /\ link'.rx = link.rx /\ link'.lag = link.lag /\ link'.replay = <<>>
    BY <1>p, <2>1 DEF Links
  <2>3. seen'[n] = IF Fan!InSeq(n, link.replay) THEN seen[n] + 1 ELSE seen[n]
    BY <2>1
  <2>4. Fan!Nowhere(ghosts, link.rx, link.replay, seen[n], n)
             => Fan!Nowhere(ghosts, link'.rx, link'.replay, seen'[n], n)
    BY <1>e, <2>2, <2>3 DEF Fan!Nowhere
  <2>5. n \notin excused => Goes(ghosts, link, seen[n], ghosts', link', seen'[n], n)
    <3>1. CASE Fan!InSeq(n, link.replay)
      BY <1>e, <2>1, <2>2, <2>3, <3>1 DEF Goes
    <3>2. CASE ~Fan!InSeq(n, link.replay)
      BY <1>e, <2>1, <2>2, <2>3, <3>2 DEF Goes
    <3> QED
      BY <3>1, <3>2
  <2>6. Fan!Tracked(ghosts', link', seen'[n], taunt, excused', n)
    <3>1. n \notin excused' => n \notin excused
      BY <2>1
    <3>2. n \notin excused' =>
            /\ Fan!Once(ghosts, Fan!Holders(n)) => Fan!Once(ghosts', Fan!Holders(n))
            /\ Fan!Once(link.rx, Fan!Brings(n)) => Fan!Once(link'.rx, Fan!Brings(n))
            /\ link'.lag => link.lag \/ ~Fan!Somewhere(link'.rx, Fan!Brings(n))
            /\ link'.pc = "closing" => link.pc = "closing" \/ ~Fan!InSeq(n, link'.replay)
      BY <2>1, <2>2
    <3>3. Fan!Nowhere(ghosts, link.rx, link.replay, seen[n], n)
               => Fan!Nowhere(ghosts', link'.rx, link'.replay, seen'[n], n)
      BY <2>1, <2>4
    <3>4. n \notin excused' => Goes(ghosts, link, seen[n], ghosts', link', seen'[n], n)
      BY <2>1, <2>5
    <3> QED
      BY <1>t, <3>1, <3>2, <3>3, <3>4, Moves
  <2> QED
    BY <2>1, <2>6
\* The socket is gone, and with it what was under way.
<1>d. ASSUME NEW pc \in {"down", "deaf", "closing"}, link' = [Fan!Down EXCEPT !.pc = pc], UNCHANGED <<taunt, seen>>,
             n \notin excused' => /\ n \notin excused /\ ~Fan!InSeq(n, link.replay)
                                 /\ ~Fan!Somewhere(link.rx, Fan!Brings(n)),
             Fan!Somewhere(ghosts', Fan!Holders(n)) <=> Fan!Somewhere(ghosts, Fan!Holders(n)),
             Fan!Once(ghosts, Fan!Holders(n)) => Fan!Once(ghosts', Fan!Holders(n))
      PROVE  Fan!Tracked(ghosts', link', seen'[n], taunt', excused', n)
  <2>1. link'.rx = <<>> /\ link'.replay = <<>> /\ link'.lag = FALSE /\ link'.pc = pc
    BY <1>d DEF Fan!Down
  <2>2. Fan!Nowhere(ghosts, link.rx, link.replay, seen[n], n)
             => Fan!Nowhere(ghosts', link'.rx, link'.replay, seen[n], n)
    BY <1>d, <1>e, <2>1 DEF Fan!Nowhere
  <2>3. ~Fan!InSeq(n, link'.replay) /\ ~Fan!Somewhere(link'.rx, Fan!Brings(n)) /\ Fan!Once(link'.rx, Fan!Brings(n))
    BY <1>e, <2>1
  <2>4. Fan!Tracked(ghosts', link', seen'[n], taunt, excused', n)
    <3>1. n \notin excused' => n \notin excused
      BY <1>d
    <3>2. n \notin excused' =>
            /\ Fan!Once(ghosts, Fan!Holders(n)) => Fan!Once(ghosts', Fan!Holders(n))
            /\ Fan!Once(link.rx, Fan!Brings(n)) => Fan!Once(link'.rx, Fan!Brings(n))
            /\ link'.lag => link.lag \/ ~Fan!Somewhere(link'.rx, Fan!Brings(n))
            /\ link'.pc = "closing" => link.pc = "closing" \/ ~Fan!InSeq(n, link'.replay)
      BY <1>d, <2>1, <2>3
    <3>3. Fan!Nowhere(ghosts, link.rx, link.replay, seen[n], n)
               => Fan!Nowhere(ghosts', link'.rx, link'.replay, seen'[n], n)
      BY <1>d, <2>2
    <3>4. n \notin excused' => Goes(ghosts, link, seen[n], ghosts', link', seen'[n], n)
      BY <1>d, <2>1, <2>3 DEF Goes
    <3> QED
      BY <1>t, <3>1, <3>2, <3>3, <3>4, Moves
  <2> QED
    BY <1>d, <2>4
<1>12. ASSUME Fan!GoDeaf PROVE Fan!Tracked(ghosts', link', seen'[n], taunt', excused', n)
  <2>1. /\ link' = [Fan!Down EXCEPT !.pc = "deaf"] /\ UNCHANGED <<ghosts, taunt, seen, excused>>
        /\ link.pc = "serving" /\ link.lag
    BY <1>12 DEF Fan!GoDeaf
  <2>2. ~Fan!InSeq(n, link.replay)
    BY <1>e, <1>k, <2>1
  <2>3. n \notin excused => ~Fan!Somewhere(link.rx, Fan!Brings(n))
    BY <1>t, <2>1 DEF Fan!Tracked
  <2> QED
    BY <2>1, <2>2, <2>3, <1>d
<1>13. ASSUME Fan!Depart PROVE Fan!Tracked(ghosts', link', seen'[n], taunt', excused', n)
  <2>1. /\ link' = Fan!Down /\ UNCHANGED <<taunt, seen, excused>> /\ link.pc = "closing"
        /\ ghosts' = IF seat.bound THEN Append(ghosts, [sid |-> seat.sid, buf |-> <<>>]) ELSE ghosts
    BY <1>13 DEF Fan!Depart
  <2>2. Fan!Down = [Fan!Down EXCEPT !.pc = "down"]
    BY DEF Fan!Down
  <2>3. n \notin excused => ~Fan!InSeq(n, link.replay)
    BY <1>t, <2>1 DEF Fan!Tracked
  <2>4. ~Fan!Somewhere(link.rx, Fan!Brings(n))
    BY <1>e, <1>k, <2>1
  <2>5. PICK g : g = [sid |-> seat.sid, buf |-> <<>>]
    OBVIOUS
  <2>6. g \in Fan!Ghost /\ g \notin Fan!Holders(n)
    <3>1. g \in Fan!Ghost /\ g.buf = <<>>
      BY <2>5, FanParts DEF Fan!Ghost
    <3> QED
      BY <1>e, <1>h, <3>1
  <2>7. /\ Fan!Somewhere(Append(ghosts, g), Fan!Holders(n)) <=> Fan!Somewhere(ghosts, Fan!Holders(n))
        /\ Fan!Once(ghosts, Fan!Holders(n)) => Fan!Once(Append(ghosts, g), Fan!Holders(n))
    BY <1>p, <2>6, OnceBehind
  <2>8. /\ Fan!Somewhere(ghosts', Fan!Holders(n)) <=> Fan!Somewhere(ghosts, Fan!Holders(n))
        /\ Fan!Once(ghosts, Fan!Holders(n)) => Fan!Once(ghosts', Fan!Holders(n))
    BY <2>1, <2>5, <2>7
  <2> QED
    BY <2>1, <2>2, <2>3, <2>4, <2>8, <1>d
<1>14. ASSUME Fan!GhostExpires PROVE Fan!Tracked(ghosts', link', seen'[n], taunt', excused', n)
  BY <1>14, <1>g DEF Fan!GhostExpires
<1>15. ASSUME Fan!AnswerStatus \/ Fan!ApplyStatus \/ UNCHANGED Fan!vars
      PROVE  Fan!Tracked(ghosts', link', seen'[n], taunt', excused', n)
  BY <1>1, <1>15 DEF Fan!AnswerStatus, Fan!ApplyStatus, Fan!vars
<1>16. ASSUME Fan!OnMessage PROVE Fan!Tracked(ghosts', link', seen'[n], taunt', excused', n)
  BY <1>16, <1>t, TauntRead
<1>17. ASSUME Fan!Drop PROVE Fan!Tracked(ghosts', link', seen'[n], taunt', excused', n)
  <2>1. /\ link' = [Fan!Down EXCEPT !.pc = "closing"] /\ UNCHANGED <<ghosts, taunt, seen>>
        /\ excused' = excused \cup Fan!TauntsIn(link.rx) \cup {m \in Fan!Taunts : Fan!InSeq(m, link.replay)}
    BY <1>17 DEF Fan!Drop, Fan!Break
  <2>2. n \notin excused' => n \notin excused /\ ~Fan!InSeq(n, link.replay)
                             /\ ~Fan!InSeq(Fan!Event("taunt", n, 0), link.rx)
    BY <2>1 DEF Fan!TauntsIn
  <2>3. n \notin excused' => ~Fan!Somewhere(link.rx, Fan!Brings(n))
    BY <2>2 DEF Fan!InSeq, Fan!Somewhere, Fan!Brings
  <2> QED
    BY <2>1, <2>2, <2>3, <1>d
<1>18. ASSUME Fan!Restart PROVE Fan!Tracked(ghosts', link', seen'[n], taunt', excused', n)
  <2>1. /\ link' = Fan!Down /\ ghosts' = <<>> /\ seen' = seen /\ excused' = 1 .. taunt.n
        /\ taunt'.n = taunt.n /\ taunt'.pushed = FALSE
    BY <1>18 DEF Fan!Restart, FanTypes
  <2>2. Fan!Down.rx = <<>> /\ Fan!Down.replay = <<>> /\ Fan!Down.lag = FALSE /\ Fan!Down.pc = "down"
    BY FanValues
  <2>3. n \notin excused' <=> n > taunt.n
    BY <2>1, FanParts DEF Fan!Taunts
  <2>4. n > taunt.n => ~(n <= taunt.n) /\ n # taunt.n
    BY FanParts DEF Fan!Taunts
  <2>5. n > taunt.n => seen[n] = 0
    BY <1>t DEF Fan!Tracked, Fan!Nowhere
  <2> QED
    BY <1>e, <2>1, <2>2, <2>3, <2>4, <2>5 DEF Fan!Tracked, Fan!Nowhere, Fan!AtOnePlace
<1> QED
  BY <1>2, <1>3, <1>4, <1>5, <1>6, <1>7, <1>8, <1>9, <1>10, <1>11, <1>12, <1>13, <1>14,
     <1>15, <1>16, <1>17, <1>18 DEF Fan!Next, Fan!Serve

\* A taunt is shown once, by replay or by broadcast, unless it met a mishap.
THEOREM TauntIsShownOnceCorrect == ASSUME Rooms, NoneSent PROVE Fan!Spec => []Fan!TauntIsShownOnce
<1>1. Fan!Init => FanTypes /\ Fan!LinkIsKnown /\ Fan!TauntInv
  BY FanTypesInit, ViewInit, TauntInit DEF Fan!ViewInv
<1>2. FanTypes /\ Fan!LinkIsKnown /\ Fan!TauntInv /\ [Fan!Next]_(Fan!vars)
           => (FanTypes /\ Fan!LinkIsKnown /\ Fan!TauntInv)'
  BY FanTypesNext, LinkKnownNext, TauntNext
<1>3. FanTypes /\ Fan!LinkIsKnown /\ Fan!TauntInv => Fan!TauntIsShownOnce
  <2> SUFFICES ASSUME FanTypes, Fan!TauntInv, NEW n \in 1 .. taunt.n, n \notin excused, ~(n = taunt.n /\ taunt.pushed)
               PROVE  \/ \E i \in DOMAIN ghosts : Fan!InSeq(n, ghosts[i].buf)
                      \/ Fan!InSeq(n, link.replay)
                      \/ Fan!InSeq(Fan!Event("taunt", n, 0), link.rx)
                      \/ seen[n] = 1
    BY DEF Fan!TauntIsShownOnce
  <2>1. n \in Fan!Taunts /\ n <= taunt.n
    BY FanParts DEF Fan!Taunts, Rooms
  <2>2. /\ ~Fan!Nowhere(ghosts, link.rx, link.replay, seen[n], n)
        /\ Fan!AtOnePlace(ghosts, link.rx, link.replay, seen[n], n)
    BY <2>1 DEF Fan!TauntInv, Fan!Tracked
  <2>3. CASE Fan!Somewhere(ghosts, Fan!Holders(n))
    BY <2>3 DEF Fan!Somewhere, Fan!Holders
  <2>4. CASE Fan!Somewhere(link.rx, Fan!Brings(n))
    BY <2>4 DEF Fan!Somewhere, Fan!Brings, Fan!InSeq
  <2>5. CASE Fan!InSeq(n, link.replay) \/ seen[n] # 0
    BY <2>2, <2>5 DEF Fan!AtOnePlace
  <2> QED
    BY <2>2, <2>3, <2>4, <2>5 DEF Fan!Nowhere
<1> QED
  BY <1>1, <1>2, <1>3, PTL DEF Fan!Spec
-----------------------------------------------------------------------------
(***************************************************************************)
(* The bounds of the queues.                                               *)
(***************************************************************************)
\* The state changes no oftener than it may, and no number is ahead of the changes.
FanCounts ==
  /\ spent \in [changes : 0 .. MaxChanges, switches : Nat, drops : Nat, restarts : Nat]
  /\ truth.slot <= spent.changes /\ truth.game <= spent.changes

\* A session that is served has left a seat of its own among the ghosts.
FanRoom ==
  /\ Len(ghosts) <= MaxSessions
  /\ link.pc \notin {"down", "opening"} => Len(ghosts) < MaxSessions
  /\ \A i \in DOMAIN ghosts : Len(ghosts[i].buf) <= ReplayLimit

FanBounds == FanCounts /\ FanRoom /\ Len(link.rx) <= Cap

\* Every step keeps the counts.
LEMMA CountsNext ==
  ASSUME Rooms, FanTypes, FanCounts, [Fan!Next]_(Fan!vars) PROVE FanCounts'
<1>0. /\ spent \in [changes : 0 .. MaxChanges, switches : Nat, drops : Nat, restarts : Nat]
      /\ truth \in [{"slot", "game"} -> Nat] /\ MaxChanges \in Nat
      /\ truth.slot <= spent.changes /\ truth.game <= spent.changes
  BY DEF FanCounts, FanTypes, Rooms
<1>1. ASSUME NEW w \in Writer, NEW t \in {"slot", "game"}, Fan!ChangeState(w, t) PROVE FanCounts'
  <2>1. spent' = [spent EXCEPT !.changes = @ + 1] /\ spent.changes < MaxChanges
        /\ truth' = [truth EXCEPT ![t] = @ + 1]
    BY <1>1 DEF Fan!ChangeState
  <2>2. spent'.changes = spent.changes + 1
        /\ spent' \in [changes : 0 .. MaxChanges, switches : Nat, drops : Nat, restarts : Nat]
    BY <1>0, <2>1
  <2>3. truth'.slot <= truth.slot + 1 /\ truth'.game <= truth.game + 1
        /\ truth'.slot \in Nat /\ truth'.game \in Nat
    BY <1>0, <2>1
  <2> QED
    BY <1>0, <2>2, <2>3 DEF FanCounts
<1>2. ASSUME UNCHANGED truth, \/ spent' = spent
                              \/ spent' = [spent EXCEPT !.switches = @ + 1]
                              \/ spent' = [spent EXCEPT !.drops = @ + 1]
      PROVE  FanCounts'
  BY <1>0, <1>2 DEF FanCounts
<1>3. ASSUME Fan!Restart PROVE FanCounts'
  <2>1. truth' = [slot |-> 0, game |-> 0] /\ spent' = [spent EXCEPT !.restarts = @ + 1]
    BY <1>3 DEF Fan!Restart
  <2> QED
    BY <1>0, <2>1 DEF FanCounts
<1>4. ASSUME NEW w \in Writer, NEW b \in BOOLEAN, Fan!SwitchProfile(w, b) PROVE FanCounts'
  BY <1>2, <1>4 DEF Fan!SwitchProfile
<1>5. ASSUME Fan!Drop PROVE FanCounts'
  BY <1>2, <1>5 DEF Fan!Drop
<1>6. ASSUME NEW w \in Writer, Fan!SendEvent(w) PROVE FanCounts'
  BY <1>2, <1>6 DEF Fan!SendEvent
<1>7. CASE Fan!PushTaunt \/ Fan!SendTaunt \/ Fan!GhostExpires \/ Fan!AnswerStatus
           \/ Fan!OpenSocket \/ Fan!OnMessage \/ Fan!ApplyStatus
  BY <1>2, <1>7 DEF Fan!PushTaunt, Fan!SendTaunt, Fan!GhostExpires, Fan!AnswerStatus,
                    Fan!OpenSocket, Fan!OnMessage, Fan!ApplyStatus
<1>8. CASE Fan!Serve
  BY <1>2, <1>8 DEF Fan!Serve, Fan!Reclaim, Fan!Register, Fan!Welcome, Fan!Reload, Fan!ShowPortal,
                    Fan!TellProfile, Fan!Subscribe, Fan!GoDeaf, Fan!Depart
<1>9. CASE UNCHANGED Fan!vars
  BY <1>2, <1>9 DEF Fan!vars
<1> QED
  BY <1>1, <1>3, <1>4, <1>5, <1>6, <1>7, <1>8, <1>9 DEF Fan!Next

\* A taunt makes room for itself in a full buffer.
LEMMA BufferFits ==
  ASSUME Rooms, NEW g \in Fan!Ghost, Len(g.buf) <= ReplayLimit, NEW n
  PROVE  Len(Fan!Buffered(g, n).buf) <= ReplayLimit
<1>1. g.buf \in Seq(Fan!Taunts) /\ Len(g.buf) \in Nat /\ ReplayLimit \in Nat \ {0}
  BY DEF Fan!Ghost, Rooms
<1>2. PICK q : q = IF Len(g.buf) >= ReplayLimit THEN Tail(g.buf) ELSE g.buf
  OBVIOUS
<1>3. q \in Seq(Fan!Taunts) /\ Len(q) < ReplayLimit
  <2>1. CASE Len(g.buf) >= ReplayLimit
    <3>1. q = Tail(g.buf) /\ g.buf # <<>>
      BY <1>1, <1>2, <2>1
    <3>2. Len(q) = Len(g.buf) - 1 /\ q \in Seq(Fan!Taunts)
      BY <1>1, <3>1
    <3> QED
      BY <1>1, <3>2
  <2>2. CASE Len(g.buf) < ReplayLimit
    BY <1>1, <1>2, <2>2
  <2> QED
    BY <1>1, <2>1, <2>2
<1>4. Len(Append(q, n)) = Len(q) + 1 /\ Len(q) \in Nat
  BY <1>3
<1>5. Fan!Buffered(g, n).buf = Append(q, n)
  BY <1>2 DEF Fan!Buffered, Fan!Ghost
<1> QED
  BY <1>1, <1>3, <1>4, <1>5

\* Ghosts that are fewer, with the buffers they had, have room.
LEMMA FewerGhosts ==
  ASSUME FanTypes, FanRoom, ghosts # <<>>, ghosts' = Tail(ghosts)
  PROVE  /\ Len(ghosts') = Len(ghosts) - 1
         /\ \A i \in DOMAIN ghosts' : Len(ghosts'[i].buf) <= ReplayLimit
<1>1. ghosts \in Seq(Fan!Ghost)
  BY DEF FanTypes
<1>2. Len(ghosts') = Len(ghosts) - 1 /\ \A i \in DOMAIN ghosts' : i + 1 \in DOMAIN ghosts /\ ghosts'[i] = ghosts[i + 1]
  BY <1>1
<1> QED
  BY <1>2 DEF FanRoom

\* Every step keeps the ghosts and their buffers within bounds.
LEMMA RoomNext ==
  ASSUME Rooms, FanTypes, FanRoom, [Fan!Next]_(Fan!vars) PROVE FanRoom'
<1>0. /\ ghosts \in Seq(Fan!Ghost) /\ Len(ghosts) \in Nat /\ MaxSessions \in Nat \ {0}
      /\ link \in Links /\ link.pc \in Fan!Stages /\ Len(ghosts) <= MaxSessions
      /\ \A i \in DOMAIN ghosts : ghosts[i] \in Fan!Ghost /\ Len(ghosts[i].buf) <= ReplayLimit
  <2>1. ghosts \in Seq(Fan!Ghost) /\ link \in Links /\ MaxSessions \in Nat \ {0}
    BY DEF FanTypes, Rooms
  <2> QED
    BY <2>1, FanParts DEF FanRoom
<1>1. ASSUME UNCHANGED ghosts, link'.pc \in {"down", "opening"} \/ link.pc \notin {"down", "opening"}
      PROVE  FanRoom'
  BY <1>1 DEF FanRoom
<1>2. ASSUME ghosts # <<>>, ghosts' = Tail(ghosts) PROVE FanRoom'
  BY <1>0, <1>2, FewerGhosts DEF FanRoom
<1>3. ASSUME UNCHANGED <<ghosts, link>> PROVE FanRoom'
  BY <1>3 DEF FanRoom
<1>4. ASSUME NEW w \in Writer, Fan!SendEvent(w) PROVE FanRoom'
  <2>1. link'.pc = link.pc /\ ghosts' = ghosts
    BY <1>0, <1>4 DEF Fan!SendEvent, Fan!Receive, Links
  <2> QED
    BY <1>1, <2>1
<1>5. CASE Fan!SendTaunt
  <2>1. link'.pc = link.pc /\ ghosts' = ghosts
    BY <1>0, <1>5 DEF Fan!SendTaunt, Fan!Receive, Links
  <2> QED
    BY <1>1, <2>1
<1>6. CASE Fan!PushTaunt
  <2>1. link' = link /\ ghosts' = [i \in 1 .. Len(ghosts) |-> Fan!Buffered(ghosts[i], taunt.n + 1)]
    BY <1>0, <1>6 DEF Fan!PushTaunt
  <2>2. \A i \in DOMAIN ghosts : Len(Fan!Buffered(ghosts[i], taunt.n + 1).buf) <= ReplayLimit
    BY <1>0, BufferFits
  <2>3. Len(ghosts') = Len(ghosts) /\ DOMAIN ghosts' = DOMAIN ghosts
    BY <1>0, <2>1
  <2> QED
    BY <2>1, <2>2, <2>3 DEF FanRoom
<1>7. CASE Fan!Reclaim \/ Fan!GhostExpires
  BY <1>2, <1>7 DEF Fan!Reclaim, Fan!GhostExpires
<1>8. CASE Fan!Register
  <2>1. CASE Len(ghosts) >= MaxSessions
    <3>1. ghosts # <<>> /\ ghosts' = Tail(ghosts)
      BY <1>0, <1>8, <2>1 DEF Fan!Register
    <3> QED
      BY <1>2, <3>1
  <2>2. CASE Len(ghosts) < MaxSessions
    <3>1. ghosts' = ghosts
      BY <1>0, <1>8, <2>2 DEF Fan!Register
    <3> QED
      BY <1>0, <2>2, <3>1 DEF FanRoom
  <2> QED
    BY <1>0, <2>1, <2>2
<1>9. CASE Fan!Depart
  <2>1. link'.pc = "down" /\ Len(ghosts) < MaxSessions
    BY <1>9, FanValues DEF Fan!Depart, FanRoom
  <2>2. CASE ghosts' = ghosts
    BY <1>1, <2>1, <2>2
  <2>3. CASE ghosts' = Append(ghosts, [sid |-> seat.sid, buf |-> <<>>])
    <3>1. /\ Len(ghosts') = Len(ghosts) + 1
          /\ \A i \in DOMAIN ghosts' : \/ i \in DOMAIN ghosts /\ ghosts'[i] = ghosts[i]
                                       \/ ghosts'[i] = [sid |-> seat.sid, buf |-> <<>>]
      BY <1>0, <2>3
    <3>2. Len([sid |-> seat.sid, buf |-> <<>>].buf) <= ReplayLimit
      BY DEF Rooms
    <3>3. \A i \in DOMAIN ghosts' : Len(ghosts'[i].buf) <= ReplayLimit
      BY <1>0, <3>1, <3>2
    <3> QED
      BY <1>0, <2>1, <3>1, <3>3 DEF FanRoom
  <2> QED
    BY <1>9, <2>2, <2>3 DEF Fan!Depart
<1>10. CASE Fan!Restart
  BY <1>10, FanValues DEF Fan!Restart, FanRoom, Rooms
<1>11. CASE Fan!Welcome \/ Fan!Reload \/ Fan!ShowPortal \/ Fan!TellProfile \/ Fan!Subscribe \/ Fan!GoDeaf \/ Fan!Drop
  BY <1>1, <1>11 DEF Fan!Welcome, Fan!Reload, Fan!ShowPortal, Fan!TellProfile, Fan!Subscribe, Fan!GoDeaf,
                     Fan!Drop, Fan!Break
<1>12. CASE Fan!OpenSocket
  <2>1. link'.pc = "opening" /\ ghosts' = ghosts
    BY <1>0, <1>12 DEF Fan!OpenSocket, Fan!At, Links
  <2> QED
    BY <1>1, <2>1
<1>13. CASE Fan!OnMessage
  BY <1>1, <1>13 DEF Fan!OnMessage
<1>14. CASE Fan!AnswerStatus \/ Fan!ApplyStatus
  BY <1>3, <1>14 DEF Fan!AnswerStatus, Fan!ApplyStatus
<1>15. ASSUME NEW w \in Writer, NEW t \in {"slot", "game"}, Fan!ChangeState(w, t) PROVE FanRoom'
  BY <1>3, <1>15 DEF Fan!ChangeState
<1>16. ASSUME NEW w \in Writer, NEW b \in BOOLEAN, Fan!SwitchProfile(w, b) PROVE FanRoom'
  BY <1>3, <1>16 DEF Fan!SwitchProfile
<1>17. CASE UNCHANGED Fan!vars
  BY <1>3, <1>17 DEF Fan!vars
<1> QED
  BY <1>4, <1>5, <1>6, <1>7, <1>8, <1>9, <1>10, <1>11, <1>12, <1>13, <1>14, <1>15, <1>16, <1>17
  DEF Fan!Next, Fan!Serve

\* Every step keeps the channel's ring within its capacity.
LEMMA RingNext ==
  ASSUME Rooms, NoneSent, FanTypes, Len(link.rx) <= Cap, [Fan!Next]_(Fan!vars) PROVE Len(link'.rx) <= Cap
<1>0. link \in Links /\ link.rx \in Seq(Sent) /\ Len(link.rx) \in Nat /\ Cap \in Nat \ {0}
  BY FanParts DEF FanTypes, Rooms
<1>1. ASSUME NEW e \in Sent, link' = Fan!Receive(e) PROVE Len(link'.rx) <= Cap
  <2>1. CASE ~Fan!Subscribed
    BY <1>1, <2>1, ReceiveTypes
  <2>2. CASE Fan!Subscribed /\ ~Fan!Overflows
    <3>1. link'.rx = Append(link.rx, e)
      BY <1>1, <2>2, ReceiveTypes
    <3>2. ~(Len(link.rx) >= Cap)
      BY <2>2 DEF Fan!Overflows
    <3>3. Len(Append(link.rx, e)) = Len(link.rx) + 1
      BY <1>0
    <3> QED
      BY <1>0, <3>1, <3>2, <3>3
  <2>3. CASE Fan!Overflows
    <3>1. link'.rx = Append(Tail(link.rx), e)
      BY <1>1, <2>3, ReceiveTypes
    <3>2. Len(link.rx) >= Cap
      BY <2>3 DEF Fan!Overflows
    <3>3. Len(Append(Tail(link.rx), e)) = Len(link.rx)
      BY <1>0, <3>2
    <3> QED
      BY <1>0, <3>1, <3>3
  <2> QED
    BY <2>1, <2>2, <2>3
<1>2. ASSUME link'.rx = link.rx \/ link'.rx = <<>> PROVE Len(link'.rx) <= Cap
  BY <1>0, <1>2
<1>3. ASSUME NEW w \in Writer, Fan!SendEvent(w) PROVE Len(link'.rx) <= Cap
  <2>1. writer[w] \in Sent /\ link' = Fan!Receive(writer[w])
    BY <1>3 DEF Fan!SendEvent, FanTypes
  <2> QED
    BY <1>1, <2>1
<1>4. CASE Fan!SendTaunt
  <2>1. PICK e : e = Fan!Event("taunt", taunt.n, 0)
    OBVIOUS
  <2>2. taunt.pushed /\ taunt.n \in 0 .. MaxTaunts /\ taunt.n # 0
    BY <1>4, FanParts DEF Fan!SendTaunt, FanTypes
  <2>3. e \in Sent
    BY <2>1, <2>2 DEF Fan!Event, Sent, Fan!Taunts
  <2> QED
    BY <1>1, <1>4, <2>1, <2>3 DEF Fan!SendTaunt
<1>5. CASE Fan!OnMessage
  <2>1. link.rx # <<>> /\ link'.rx = Tail(link.rx)
    BY <1>0, <1>5 DEF Fan!OnMessage, Links
  <2> QED
    BY <1>0, <2>1
<1>6. CASE Fan!Reclaim \/ Fan!Register \/ Fan!Welcome \/ Fan!Reload \/ Fan!ShowPortal \/ Fan!TellProfile
           \/ Fan!Subscribe \/ Fan!OpenSocket
  BY <1>0, <1>2, <1>6 DEF Fan!Reclaim, Fan!Register, Fan!Welcome, Fan!Reload, Fan!ShowPortal, Fan!TellProfile,
                    Fan!Subscribe, Fan!OpenSocket, Fan!At, Links
<1>7. CASE Fan!GoDeaf \/ Fan!Depart \/ Fan!Drop \/ Fan!Restart
  BY <1>2, <1>7 DEF Fan!GoDeaf, Fan!Depart, Fan!Drop, Fan!Break, Fan!Restart, Fan!Down
<1>8. CASE Fan!PushTaunt \/ Fan!GhostExpires \/ Fan!AnswerStatus \/ Fan!ApplyStatus
  BY <1>2, <1>8 DEF Fan!PushTaunt, Fan!GhostExpires, Fan!AnswerStatus, Fan!ApplyStatus
<1>9. ASSUME NEW w \in Writer, NEW t \in {"slot", "game"}, Fan!ChangeState(w, t) PROVE Len(link'.rx) <= Cap
  BY <1>2, <1>9 DEF Fan!ChangeState
<1>10. ASSUME NEW w \in Writer, NEW b \in BOOLEAN, Fan!SwitchProfile(w, b) PROVE Len(link'.rx) <= Cap
  BY <1>2, <1>10 DEF Fan!SwitchProfile
<1>11. CASE UNCHANGED Fan!vars
  BY <1>2, <1>11 DEF Fan!vars
<1> QED
  BY <1>3, <1>4, <1>5, <1>6, <1>7, <1>8, <1>9, <1>10, <1>11 DEF Fan!Next, Fan!Serve

\* No queue outgrows its bound: not the ring of a receiver that reads nothing, not
\* the replay buffer of a ghost that never returns, not the ghosts themselves.
THEOREM FanTypesCorrect == ASSUME Rooms, NoneSent PROVE Fan!Spec => []Fan!TypeOK
<1>1. Fan!Init => FanTypes /\ FanBounds
  <2> SUFFICES ASSUME Fan!Init PROVE FanTypes /\ FanBounds
    OBVIOUS
  <2>1. FanCounts
    BY DEF Fan!Init, FanCounts, Rooms
  <2>2. FanRoom /\ Len(link.rx) <= Cap
    BY FanValues DEF Fan!Init, FanRoom, Rooms
  <2> QED
    BY <2>1, <2>2, FanTypesInit DEF FanBounds
<1>2. FanTypes /\ FanBounds /\ [Fan!Next]_(Fan!vars) => FanTypes' /\ FanBounds'
  BY FanTypesNext, CountsNext, RoomNext, RingNext DEF FanBounds
<1>3. FanTypes /\ FanBounds => Fan!TypeOK
  <2> SUFFICES ASSUME FanTypes, FanBounds PROVE Fan!TypeOK
    OBVIOUS
  <2>1. truth \in [{"slot", "game"} -> 0 .. MaxChanges]
    <3>1. /\ truth \in [{"slot", "game"} -> Nat] /\ truth.slot \in Nat /\ truth.game \in Nat
          /\ spent.changes \in 0 .. MaxChanges /\ MaxChanges \in Nat
          /\ truth.slot <= spent.changes /\ truth.game <= spent.changes
      BY FanParts DEF FanTypes, FanBounds, FanCounts, Rooms
    <3>2. truth.slot \in 0 .. MaxChanges /\ truth.game \in 0 .. MaxChanges
      BY <3>1
    <3> QED
      BY <3>1, <3>2
  <2> QED
    BY <2>1, FanParts DEF FanTypes, FanBounds, FanRoom, Fan!TypeOK
<1> QED
  BY <1>1, <1>2, <1>3, PTL DEF Fan!Spec
=============================================================================
