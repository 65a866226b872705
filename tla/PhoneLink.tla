----------------------------- MODULE PhoneLink -----------------------------
(***************************************************************************)
(* How the phone keeps its WebSocket: every socket that closes arms a      *)
(* timer, every timer opens a socket, with the delay doubled each time;    *)
(* TRY AGAIN cancels the timer it knows of and opens a socket at once; the *)
(* "lost connection" overlay follows the count of failures. A chain is a   *)
(* socket or the timer that replaced it.                                   *)
(***************************************************************************)
EXTENDS Naturals, FiniteSets

CONSTANTS
  Chain,           \* bound: chains there can be; at least one is in use
  First,           \* the chain that the page starts
  RETRY_THRESHOLD,
  NoChain

VARIABLES
  server,    \* whether the server can be reached
  chain,     \* Chain -> "none", "connecting", "open", "timer"
  pending,   \* the chain whose timer the page can cancel
  attempts,  \* reconnect_attempts, as far as it counts
  graces,    \* reveals of the overlay under way
  visible,   \* the overlay
  forked     \* history: TRY AGAIN was pressed, or a timer fired, while there was
             \* no timer to cancel or not the one the page knew of

linkVars == <<server, chain, pending, attempts, graces, visible, forked>>

Upto(n, top) == IF n < top THEN n + 1 ELSE top

TypeOK ==
  /\ server \in BOOLEAN /\ visible \in BOOLEAN /\ forked \in BOOLEAN
  /\ chain \in [Chain -> {"none", "connecting", "open", "timer"}]
  /\ pending \in Chain \cup {NoChain}
  /\ attempts \in 0 .. RETRY_THRESHOLD
  /\ graces \in 0 .. 2

Init ==
  /\ server \in BOOLEAN
  /\ chain = [c \in Chain |-> IF c = First THEN "connecting" ELSE "none"]
  /\ pending = NoChain
  /\ attempts = 0 /\ graces = 0 /\ visible = FALSE
  /\ forked = FALSE

ServerComesAndGoes ==
  /\ server' = ~server
  /\ UNCHANGED <<chain, pending, attempts, graces, visible, forked>>

\* The overlay's effect: a count of 0 hides it, the first failure arms a reveal.
\* (Two reveals under way are as good as more.)
Count(n) ==
  /\ attempts' = n
  /\ visible' = (visible /\ n > 0)
  /\ graces' = IF attempts = 0 /\ n > 0 /\ graces < 2 THEN graces + 1 ELSE graces

\* Mutant of Open: the failures before it go on counting.
OpenCounting(c) ==
  /\ chain[c] = "connecting" /\ server
  /\ chain' = [chain EXCEPT ![c] = "open"]
  /\ UNCHANGED <<server, pending, attempts, graces, visible, forked>>

\* onopen
Open(c) ==
  /\ chain[c] = "connecting" /\ server
  /\ chain' = [chain EXCEPT ![c] = "open"]
  /\ Count(0)
  /\ UNCHANGED <<server, pending, forked>>

\* Mutant of Close: what was open is not opened again.
CloseForGood(c) ==
  /\ chain[c] = "open" \/ (chain[c] = "connecting" /\ ~server)
  /\ chain' = [chain EXCEPT ![c] = IF chain[c] = "open" THEN "none" ELSE "timer"]
  /\ pending' = c
  /\ Count(Upto(attempts, RETRY_THRESHOLD))
  /\ UNCHANGED <<server, forked>>

\* onclose, of a socket that failed to open or was open, and schedule_reconnect.
Close(c) ==
  /\ chain[c] = "open" \/ (chain[c] = "connecting" /\ ~server)
  /\ chain' = [chain EXCEPT ![c] = "timer"]
  /\ pending' = c
  /\ Count(Upto(attempts, RETRY_THRESHOLD))
  /\ UNCHANGED <<server, forked>>

\* The timer fires: it forgets the timer that could be cancelled, its own or not.
\* The socket connects, or cannot even be made and the timer is armed again.
Fire(c) ==
  /\ chain[c] = "timer"
  /\ forked' = (forked \/ pending # c)
  /\ \/ /\ pending' = NoChain
        /\ chain' = [chain EXCEPT ![c] = "connecting"]
     \/ /\ ~server
        /\ pending' = c
        /\ UNCHANGED chain
  /\ UNCHANGED <<server, attempts, graces, visible>>

Reveal ==
  /\ graces > 0
  /\ graces' = graces - 1
  /\ visible' = (visible \/ attempts > 0)
  /\ UNCHANGED <<server, chain, pending, attempts, forked>>

\* TRY AGAIN: the pending timer is cancelled, a socket opened, the count reset.
TryAgain(c) ==
  /\ visible /\ attempts >= RETRY_THRESHOLD
  /\ chain[c] = "none" \/ c = pending
  /\ chain' = [d \in Chain |-> IF d = c THEN "connecting"
                              ELSE IF d = pending THEN "none" ELSE chain[d]]
  /\ pending' = NoChain
  /\ forked' = (forked \/ pending = NoChain)
  /\ Count(0)
  /\ UNCHANGED server

Next ==
  \/ ServerComesAndGoes \/ Reveal
  \/ \E c \in Chain : Open(c) \/ Close(c) \/ Fire(c) \/ TryAgain(c)

\* A socket that is connecting opens or fails, and timers fire.
Proceeds(c) == Open(c) \/ Fire(c) \/ (chain[c] = "connecting" /\ Close(c))

Fairness == \A c \in Chain : WF_linkVars(Proceeds(c))

Spec == Init /\ [][Next]_linkVars /\ Fairness
-----------------------------------------------------------------------------
InUse == {c \in Chain : chain[c] # "none"}

\* The page always has a socket or a timer that will open one; it has but one,
\* and its overlay never covers an open connection, unless TRY AGAIN was pressed
\* while a socket was still connecting.
LinkIsTended ==
  /\ InUse # {}
  /\ ~forked => Cardinality(InUse) = 1
  /\ visible /\ ~forked => \A c \in Chain : chain[c] # "open"

\* A server that can be reached from some time on is reached again and again,
\* whatever the player presses.
Reconnects == <>[]server => []<>(\E c \in Chain : chain[c] = "open")
=============================================================================
