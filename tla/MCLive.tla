------------------------------- MODULE MCLive -------------------------------
(***************************************************************************)
(* What must happen in the end, in parts that share no state: the server's *)
(* seats, a phone's socket, the launcher's look at a game and the jobs of  *)
(* a portal slot. Init picks the part that takes steps; its variables are  *)
(* held by the first of x1 to x12.                                         *)
(***************************************************************************)
EXTENDS Naturals

CONSTANTS c1, c2, c3, p1, p2, Absent, Unused

VARIABLES part, x1, x2, x3, x4, x5, x6, x7, x8, x9, x10, x11, x12

r8 == <<x8, x9, x10, x11, x12>>
xs == <<part, x1, x2, x3, x4, x5, x6, x7, r8>>
From8 ==
  x8 = Unused /\ x9 = Unused /\ x10 = Unused /\ x11 = Unused /\ x12 = Unused

\* Three connections of two players for one seat, and of one player for two.
Reg == INSTANCE Sessions WITH
  Conn <- {c1, c2, c3}, Profile <- {p1, p2}, Slot <- {}, MaxSessions <- 1,
  NoProfile <- Absent, NoSession <- Unused,
  seats <- x1, cooling <- x2, ws <- x3, sweep <- x4, portal <- x5, walkedOff <- x6

Both == INSTANCE Sessions WITH
  Conn <- {c1, c2, c3}, Profile <- {p1}, Slot <- {}, MaxSessions <- 2,
  NoProfile <- Absent, NoSession <- Unused,
  seats <- x1, cooling <- x2, ws <- x3, sweep <- x4, portal <- x5, walkedOff <- x6

\* The page's chain, and one more that TRY AGAIN can start beside it.
Link == INSTANCE PhoneLink WITH
  Chain <- {c1, c2}, First <- c1, RETRY_THRESHOLD <- 3, NoChain <- Absent,
  server <- x1, chain <- x2, pending <- x3, attempts <- x4,
  graces <- x5, visible <- x6, forked <- x7

\* No look fails.
Looks == INSTANCE Poller WITH
  SAMPLE_BUFFER <- 2, FreezeTicks <- 2, MaxGap <- 1, Failing <- FALSE, NoSample <- Absent,
  game <- x1, status <- x2, poller <- x3, sample <- x4, looked <- x5

\* A request, a clean-up and Kaos compete for one slot and for a channel of one place,
\* and a reset may fail.
Slots == INSTANCE Portal WITH
  SlotCount <- 1, Figure <- {p2}, Recognised <- {p2}, Profile <- {p1},
  KaosEnabled <- {p1}, Request <- {c1}, Janitor <- {c2}, QueueCap <- 1,
  MaxRespawns <- 1, Driver <- "uia", Faults <- {"reset"},
  NoFigure <- Absent, NoProfile <- Absent, NoSwap <- Absent, Keep <- Unused,
  portal <- x1, todo <- x2, queue <- x3, worker <- x4, emu <- x5, up <- x6,
  current <- x7, swap <- x8, rescue <- x9, quit <- x10, stuck <- x11, bypassed <- x12
-----------------------------------------------------------------------------
Init ==
  \/ part \in {"sessions", "two seats"} /\ Reg!Init /\ x7 = Unused /\ From8
  \/ part = "link" /\ Link!Init /\ From8
  \/ part = "poller" /\ Looks!Init /\ x6 = Unused /\ x7 = Unused /\ From8
  \/ part = "slots" /\ Slots!Init

InReg(A)   == part = "sessions" /\ A /\ UNCHANGED <<part, x7, r8>>
InBoth(A)  == part = "two seats" /\ A /\ UNCHANGED <<part, x7, r8>>
InLink(A)  == part = "link" /\ A /\ UNCHANGED <<part, r8>>
InLooks(A) == part = "poller" /\ A /\ UNCHANGED <<part, x6, x7, r8>>
InSlots(A) == part = "slots" /\ A /\ UNCHANGED part

Next ==
  \/ InReg(Reg!Next)
  \/ InBoth(Both!Next)
  \/ InLink(Link!Next)
  \/ InLooks(Looks!Next)
  \/ InSlots(Slots!Next)

\* The fairness of each part, for its own steps. A behaviour stays in its part, so that
\* fairness to one action of each part is stated as fairness to their disjunction.
Fairness ==
  /\ WF_xs(\/ InReg(Reg!Progress(c1)) \/ InBoth(Both!Progress(c1))
           \/ InLink(Link!Proceeds(c1)) \/ InLooks(Looks!Poll) \/ InSlots(Slots!Work))
  /\ WF_xs(\/ InReg(Reg!Progress(c2)) \/ InBoth(Both!Progress(c2))
           \/ InLink(Link!Proceeds(c2)) \/ InSlots(Slots!Rescue))
  /\ WF_xs(InReg(Reg!Progress(c3)) \/ InBoth(Both!Progress(c3)))
  /\ WF_xs(InReg(Reg!Sweep) \/ InBoth(Both!Sweep))
  /\ WF_xs(InReg(Reg!Time) \/ InBoth(Both!Time))
  /\ \A t \in {c1, c2, "kaos", "supervisor"} : SF_xs(InSlots(Slots!Send(t)))

Spec == Init /\ [][Next]_xs /\ Fairness
-----------------------------------------------------------------------------
\* Every ghost ends: it is reclaimed, evicted or expires (sweep_expired_ghosts).
\* Connections are interchangeable, c1 stands for each of them.
Ghostly(c) == part \in {"sessions", "two seats"} /\ Reg!IsGhost(c)
GhostsEnd  == Ghostly(c1) ~> ~Ghostly(c1)

\* A server that can be reached from some time on is reached again and again.
Reachable  == part = "link" /\ x1
Reached    == part = "link" /\ \E c \in {c1, c2} : x2[c] = "open"
Reconnects == <>[]Reachable => []<>Reached

\* Every spinner ends: the slot settles, or is one whose job was lost (Portal).
Spins      == part = "slots" /\ Slots!Busy(0) /\ 0 \notin x11
SpinnerEnds == Spins ~> ~Spins

\* A game that hangs after it was shown is called frozen (FreezeDetector).
HangIsNoticed ==
  (part = "poller" /\ Looks!Hangs) ~> (part = "poller" => Looks!Noticed)
=============================================================================
