-------------------------------- MODULE Parts --------------------------------
(***************************************************************************)
(* The parts that share no state with each other, in one specification.    *)
(* Init picks a part, and from there on only that part takes steps; its    *)
(* variables are held by the first of x1 to x13, the rest stay Unused.     *)
(* Every property says of which part it speaks. The constants of a part    *)
(* are the fields of a record.                                             *)
(***************************************************************************)
EXTENDS FigureFormat, Sequences

CONSTANTS
  OfSlots, OfSwaps, OfLockouts, OfEnrolment, OfProfiles, OfCopies, OfFigures, OfSetup,
  OfScanner, OfPoller, OfFan, OfTaunts, OfRush, OfReturn, OfPlay, OfMenu, OfReset, OfLink,
  Absent, Unused  \* none, of whatever kind

VARIABLES part, x1, x2, x3, x4, x5, x6, x7, x8, x9, x10, x11, x12, x13

\* The variables from the n-th on are unused.
From13 == x13 = Unused
From11 == x11 = Unused /\ x12 = Unused /\ From13
From10 == x10 = Unused /\ From11
From9  == x9 = Unused /\ From10
From8  == x8 = Unused /\ From9
From7  == x7 = Unused /\ From8
From6  == x6 = Unused /\ From7
From4  == x4 = Unused /\ x5 = Unused /\ From6
From3  == x3 = Unused /\ From4

r11 == <<x11, x12, x13>>
r10 == <<x10, x11, x12, x13>>
r9  == <<x9, x10, x11, x12, x13>>
r8  == <<x8, x9, x10, x11, x12, x13>>
r7  == <<x7, x8, x9, x10, x11, x12, x13>>
r6  == <<x6, x7, x8, x9, x10, x11, x12, x13>>
r4  == <<x4, x5, x6, x7, x8, x9, x10, x11, x12, x13>>
r3  == <<x3, x4, x5, x6, x7, x8, x9, x10, x11, x12, x13>>
-----------------------------------------------------------------------------
\* The portal's slots, and a second portal whose slots Kaos swaps too.
Slots == INSTANCE Portal WITH
  SlotCount <- OfSlots.SlotCount, Figure <- OfSlots.Figure,
  Recognised <- OfSlots.Recognised, Profile <- OfSlots.Profile,
  KaosEnabled <- OfSlots.KaosEnabled, Request <- OfSlots.Request,
  Janitor <- OfSlots.Janitor, QueueCap <- OfSlots.QueueCap,
  MaxRespawns <- OfSlots.MaxRespawns, Faults <- OfSlots.Faults, Driver <- "uia",
  NoFigure <- Absent, NoProfile <- Absent, NoSwap <- Absent, Keep <- Unused,
  portal <- x1, todo <- x2, queue <- x3, worker <- x4, emu <- x5, up <- x6, current <- x7,
  swap <- x8, rescue <- x9, quit <- x10, stuck <- x11, bypassed <- x12
Swaps == INSTANCE Portal WITH
  SlotCount <- OfSwaps.SlotCount, Figure <- OfSwaps.Figure,
  Recognised <- OfSwaps.Recognised, Profile <- OfSwaps.Profile,
  KaosEnabled <- OfSwaps.KaosEnabled, Request <- OfSwaps.Request,
  Janitor <- OfSwaps.Janitor, QueueCap <- OfSwaps.QueueCap,
  MaxRespawns <- OfSwaps.MaxRespawns, Faults <- OfSwaps.Faults, Driver <- "uia",
  NoFigure <- Absent, NoProfile <- Absent, NoSwap <- Absent, Keep <- Unused,
  portal <- x1, todo <- x2, queue <- x3, worker <- x4, emu <- x5, up <- x6, current <- x7,
  swap <- x8, rescue <- x9, quit <- x10, stuck <- x11, bypassed <- x12

\* The profile store: PIN attempts, new profiles, layouts.
Lock == INSTANCE Lockouts WITH
  Attempt <- OfLockouts.Attempt, LOCKOUT_STRIKES <- OfLockouts.LOCKOUT_STRIKES,
  LOCKOUT_DURATION <- OfLockouts.LOCKOUT_DURATION, MaxClock <- OfLockouts.MaxClock,
  clock <- x1, strikes <- x2, lockedUntil <- x3, attempt <- x4, window <- x5, tested <- x6
Enrol == INSTANCE Enrolment WITH
  Creator <- OfEnrolment.Creator, MAX_PROFILES <- OfEnrolment.MAX_PROFILES,
  enrolled <- x1, creator <- x2
Prof == INSTANCE Profiles WITH
  Profile <- OfProfiles.Profile, Session <- OfProfiles.Session, Place <- OfProfiles.Place,
  NoProfile <- Absent, NoLayout <- Unused,
  rows <- x1, minted <- x2, layout <- x3, seat <- x4, bound <- x5, unlocking <- x6,
  place <- x7, cleaning <- x8, saver <- x9, story <- x10

\* A figure's files.
Work == INSTANCE WorkingCopy WITH
  Request <- OfCopies.Request, LetCrash <- OfCopies.LetCrash,
  file <- x1, figure <- x2, tmp <- x3, held <- x4, task <- x5, cut <- x6
Edits == INSTANCE FigureFile WITH
  Figure <- OfFigures.Figure, GamePools <- OfFigures.GamePools, NoEdit <- Absent,
  figure <- x1, copy <- x2, edited <- x3

\* The launcher's set-up, its NFC reader and its looks at the game.
Wizard == INSTANCE Setup WITH
  Platform <- OfSetup.Platform, MaxKeys <- OfSetup.MaxKeys,
  file <- x1, json <- x2, app <- x3, wizard <- x4, run <- x5, pending <- x6, edit <- x7,
  keys <- x8, qr <- x9, asked <- x10, raced <- x11, cut <- x12
Pad == INSTANCE Scanner WITH
  Tag <- OfScanner.Tag, KindOf <- OfScanner.KindOf, Blocks <- OfScanner.Blocks,
  NoTag <- Absent,
  pad <- x1, reader <- x2, field <- x3, dump <- x4, scanned <- x5, pack <- x6, cards <- x7,
  known <- x8, fresh <- x9
Looks == INSTANCE Poller WITH
  SAMPLE_BUFFER <- OfPoller.SAMPLE_BUFFER, FreezeTicks <- OfPoller.FreezeTicks,
  MaxGap <- OfPoller.MaxGap, Failing <- OfPoller.Failing, NoSample <- Absent,
  game <- x1, status <- x2, poller <- x3, sample <- x4, looked <- x5

\* The events for the phones, twice, and the phone: its requests, three times, a
\* button of a menu and one of a dialog, and its socket.
Fan == INSTANCE Fanout WITH
  Writer <- OfFan.Writer, Cap <- OfFan.Cap, ReplayLimit <- OfFan.ReplayLimit,
  MaxSessions <- OfFan.MaxSessions, MaxChanges <- OfFan.MaxChanges,
  MaxTaunts <- OfFan.MaxTaunts, MaxSwitches <- OfFan.MaxSwitches,
  MaxDrops <- OfFan.MaxDrops, MaxRestarts <- OfFan.MaxRestarts, NoEvent <- Absent,
  truth <- x1, writer <- x2, seat <- x3, ghosts <- x4, minted <- x5, boot <- x6,
  taunt <- x7, link <- x8, phone <- x9, off <- x10, seen <- x11, excused <- x12,
  spent <- x13
Taunts == INSTANCE Fanout WITH
  Writer <- OfTaunts.Writer, Cap <- OfTaunts.Cap, ReplayLimit <- OfTaunts.ReplayLimit,
  MaxSessions <- OfTaunts.MaxSessions, MaxChanges <- OfTaunts.MaxChanges,
  MaxTaunts <- OfTaunts.MaxTaunts, MaxSwitches <- OfTaunts.MaxSwitches,
  MaxDrops <- OfTaunts.MaxDrops, MaxRestarts <- OfTaunts.MaxRestarts, NoEvent <- Absent,
  truth <- x1, writer <- x2, seat <- x3, ghosts <- x4, minted <- x5, boot <- x6,
  taunt <- x7, link <- x8, phone <- x9, off <- x10, seen <- x11, excused <- x12,
  spent <- x13
Rush == INSTANCE SignIn WITH
  Profile <- OfRush.Profile, Call <- OfRush.Call, LastSession <- OfRush.LastSession,
  WireCap <- OfRush.WireCap, Playing <- OfRush.Playing, NoProfile <- Absent,
  NoCall <- Absent,
  session <- x1, saved <- x2, game <- x3, socket <- x4, wire <- x5, call <- x6, page <- x7,
  picker <- x8, amiss <- x9
Return == INSTANCE SignIn WITH
  Profile <- OfReturn.Profile, Call <- OfReturn.Call, LastSession <- OfReturn.LastSession,
  WireCap <- OfReturn.WireCap, Playing <- OfReturn.Playing, NoProfile <- Absent,
  NoCall <- Absent,
  session <- x1, saved <- x2, game <- x3, socket <- x4, wire <- x5, call <- x6, page <- x7,
  picker <- x8, amiss <- x9
Play == INSTANCE SignIn WITH
  Profile <- OfPlay.Profile, Call <- OfPlay.Call, LastSession <- OfPlay.LastSession,
  WireCap <- OfPlay.WireCap, Playing <- OfPlay.Playing, NoProfile <- Absent,
  NoCall <- Absent,
  session <- x1, saved <- x2, game <- x3, socket <- x4, wire <- x5, call <- x6, page <- x7,
  picker <- x8, amiss <- x9
Menu == INSTANCE HoldButton WITH
  Subject <- OfMenu.Subject, HOLD <- OfMenu.HOLD, LINGER <- OfMenu.LINGER,
  DISMISS <- OfMenu.DISMISS, Dialog <- FALSE, NoTarget <- Absent,
  target <- x1, holding <- x2, fired <- x3, timers <- x4, rest <- x5, down <- x6,
  held <- x7, spent <- x8
Reset == INSTANCE HoldButton WITH
  Subject <- OfReset.Subject, HOLD <- OfReset.HOLD, LINGER <- OfReset.LINGER,
  DISMISS <- OfReset.DISMISS, Dialog <- TRUE, NoTarget <- Absent,
  target <- x1, holding <- x2, fired <- x3, timers <- x4, rest <- x5, down <- x6,
  held <- x7, spent <- x8
Link == INSTANCE PhoneLink WITH
  Chain <- OfLink.Chain, First <- OfLink.First, RETRY_THRESHOLD <- OfLink.RETRY_THRESHOLD,
  NoChain <- Absent,
  server <- x1, chain <- x2, pending <- x3, attempts <- x4, graces <- x5, visible <- x6,
  forked <- x7
-----------------------------------------------------------------------------
\* What each part asks of its constants.
PortalOK(k) ==
  /\ k.SlotCount \in Nat \ {0} /\ k.QueueCap \in Nat \ {0} /\ k.MaxRespawns \in Nat \ {0}
  /\ k.Recognised \subseteq k.Figure /\ k.KaosEnabled \subseteq k.Profile
  /\ k.Faults \subseteq {"load", "clear", "read", "boot", "reset", "drop", "crash", "quit"}
  /\ Absent \notin k.Figure \cup k.Profile
  /\ k.Request \cap k.Janitor = {}
  /\ {"kaos", "supervisor"} \cap (k.Request \cup k.Janitor) = {}
FanoutOK(k) ==
  /\ k.Cap \in Nat \ {0} /\ k.ReplayLimit \in Nat \ {0} /\ k.MaxSessions \in Nat \ {0}
  /\ k.MaxTaunts \in Nat /\ k.MaxChanges \in Nat
SignInOK(k) == k.LastSession \in Nat /\ k.WireCap \in Nat \ {0} /\ Absent \notin k.Call
ButtonOK(k) == k.HOLD \in Nat /\ k.LINGER \in Nat /\ k.DISMISS \in Nat

ASSUME PortalsAssumption ==
  /\ PortalOK(OfSlots) /\ Unused \notin Slots!SlotState
  /\ PortalOK(OfSwaps) /\ Unused \notin Swaps!SlotState
ASSUME StoreAssumption ==
  /\ IsFiniteSet(OfLockouts.Attempt) /\ OfLockouts.LOCKOUT_STRIKES \in Nat \ {0}
  /\ OfLockouts.LOCKOUT_DURATION \in Nat \ {0} /\ OfLockouts.MaxClock \in Nat
  /\ IsFiniteSet(OfEnrolment.Creator) /\ OfEnrolment.MAX_PROFILES \in Nat
  /\ Absent \notin OfProfiles.Profile
ASSUME FilesAssumption ==
  /\ OfFigures.Figure \subseteq [catalogue : Generation, tag : Generation, pack : File]
  /\ OfFigures.GamePools \subseteq [xp2011 : Nat, xp2012 : Nat, xp2013 : Nat]
ASSUME DeskAssumption ==
  /\ OfSetup.MaxKeys \in Nat
  /\ OfScanner.Blocks \in Nat \ {0} /\ IsFiniteSet(OfScanner.Tag)
  /\ Absent \notin OfScanner.Tag
  /\ OfPoller.SAMPLE_BUFFER \in Nat /\ OfPoller.FreezeTicks \in Nat \ {0}
  /\ OfPoller.MaxGap \in Nat /\ OfPoller.MaxGap < OfPoller.SAMPLE_BUFFER
  /\ Absent \notin Looks!Look
ASSUME PhoneAssumption ==
  /\ FanoutOK(OfFan) /\ FanoutOK(OfTaunts)
  /\ Absent \notin [kind : {"slot", "game", "taunt"}, value : Nat, sid : {0}]
  /\ Absent \notin [kind : {"profile"}, value : BOOLEAN, sid : Nat \ {0}]
  /\ SignInOK(OfRush) /\ SignInOK(OfReturn) /\ SignInOK(OfPlay)
  /\ ButtonOK(OfMenu) /\ ButtonOK(OfReset)
  /\ OfLink.First \in OfLink.Chain /\ Absent \notin OfLink.Chain
  /\ OfLink.RETRY_THRESHOLD \in Nat \ {0}
-----------------------------------------------------------------------------
Init ==
  \/ part = "slots" /\ Slots!Init /\ From13
  \/ part = "swaps" /\ Swaps!Init /\ From13
  \/ part = "lockouts" /\ Lock!Init /\ From7
  \/ part = "enrolment" /\ Enrol!Init /\ From3
  \/ part = "profiles" /\ Prof!Init /\ From11
  \/ part = "working copy" /\ Work!Init /\ From7
  \/ part = "figure file" /\ Edits!Init /\ From4
  \/ part = "set-up" /\ Wizard!Init /\ From13
  \/ part = "scanner" /\ Pad!Init /\ From10
  \/ part = "poller" /\ Looks!Init /\ From6
  \/ part = "fan-out" /\ Fan!Init
  \/ part = "taunts" /\ Taunts!Init
  \/ part = "rush" /\ Rush!Init /\ From10
  \/ part = "return" /\ Return!Init /\ From10
  \/ part = "play" /\ Play!Init /\ From10
  \/ part = "menu" /\ Menu!Init /\ From9
  \/ part = "reset" /\ Reset!Init /\ From9
  \/ part = "link" /\ Link!Init /\ From8

Next ==
  \/ part = "slots" /\ Slots!Next /\ UNCHANGED <<part, x13>>
  \/ part = "swaps" /\ Swaps!Next /\ UNCHANGED <<part, x13>>
  \/ part = "lockouts" /\ Lock!Next /\ UNCHANGED <<part, r7>>
  \/ part = "enrolment" /\ Enrol!Next /\ UNCHANGED <<part, r3>>
  \/ part = "profiles" /\ Prof!Next /\ UNCHANGED <<part, r11>>
  \/ part = "working copy" /\ Work!Next /\ UNCHANGED <<part, r7>>
  \/ part = "figure file" /\ Edits!Next /\ UNCHANGED <<part, r4>>
  \/ part = "set-up" /\ Wizard!Next /\ UNCHANGED <<part, x13>>
  \/ part = "scanner" /\ Pad!Next /\ UNCHANGED <<part, r10>>
  \/ part = "poller" /\ Looks!Next /\ UNCHANGED <<part, r6>>
  \/ part = "fan-out" /\ Fan!Next /\ UNCHANGED part
  \/ part = "taunts" /\ Taunts!Next /\ UNCHANGED part
  \/ part = "rush" /\ Rush!Next /\ UNCHANGED <<part, r10>>
  \/ part = "return" /\ Return!Next /\ UNCHANGED <<part, r10>>
  \/ part = "play" /\ Play!Next /\ UNCHANGED <<part, r10>>
  \/ part = "menu" /\ Menu!Next /\ UNCHANGED <<part, r9>>
  \/ part = "reset" /\ Reset!Next /\ UNCHANGED <<part, r9>>
  \/ part = "link" /\ Link!Next /\ UNCHANGED <<part, r8>>

xs == <<part, x1, x2, r3>>

Spec == Init /\ [][Next]_xs
-----------------------------------------------------------------------------
\* Every part keeps to its types and bounds.
TypesOK ==
  /\ part = "slots" => Slots!TypeOK
  /\ part = "swaps" => Swaps!TypeOK
  /\ part = "lockouts" => Lock!TypeOK
  /\ part = "enrolment" => Enrol!TypeOK
  /\ part = "profiles" => Prof!TypeOK
  /\ part = "working copy" => Work!TypeOK
  /\ part = "figure file" => Edits!TypeOK
  /\ part = "set-up" => Wizard!TypeOK
  /\ part = "scanner" => Pad!TypeOK
  /\ part = "poller" => Looks!TypeOK
  /\ part = "fan-out" => Fan!TypeOK
  /\ part = "taunts" => Taunts!TypeOK
  /\ part = "rush" => Rush!TypeOK
  /\ part = "return" => Return!TypeOK
  /\ part = "play" => Play!TypeOK
  /\ part = "menu" => Menu!TypeOK
  /\ part = "reset" => Reset!TypeOK
  /\ part = "link" => Link!TypeOK

\* A settled slot that no job is about to change shows what the emulator holds,
\* though driver calls and re-reads fail half-way.
MirrorIsTrue ==
  /\ part = "slots" => Slots!MirrorIsTrue
  /\ part = "swaps" => Swaps!MirrorIsTrue

\* However attempts overlap, wrong PINs are tried at a bounded rate (Lockouts).
GuessingIsSlow == part = "lockouts" => Lock!GuessingIsSlow

\* Overlapping create_profile requests exceed the limit by a known number.
LimitIsSoft == part = "enrolment" => Enrol!LimitIsSoft

\* The clean-up of a player who left never reaches the layout that the player is
\* offered to resume (persist_layout, expire_ghosts_older_than).
LayoutOutlivesCleanUp == part = "profiles" => Prof!LayoutOutlivesCleanUp

\* A torn working copy is never made a whole-looking one (working_copies.rs,
\* sky_edit.rs).
TornStaysTorn == part = "working copy" => Work!TornStaysTorn

\* A player's progress is overwritten only on purpose.
ProgressIsKept == [][part = "working copy" => Work!ProgressIsKeptStep]_<<x1, x2, r3>>

\* What an edit announced is what the figure shows when it is read back, as far as its
\* tag can show it (sky_edit.rs, sky-parser).
EditReadsBack == part = "figure file" => Edits!EditReadsBack

\* A scanned QR code stays valid until the setup is run again (config.rs).
KeySurvives == part = "set-up" => Wizard!KeySurvives

\* An acknowledged setting stays in config.json, unless handlers overlapped.
SettingsStick == part = "set-up" => Wizard!SettingsStick

\* Only a write that was cut short, by a death or a failure, or overlapping writes leave
\* config.json unreadable (config.rs, http.rs).
TornForAReason == part = "set-up" => Wizard!TornForAReason

\* A dump holds one figure, however figures are swapped meanwhile (dump_figure).
DumpIsOfOneFigure == part = "scanner" => Pad!DumpIsOfOneFigure

\* A figure that stays on the pad is announced once (run_scanner_worker).
OnceForEachTap == [][part = "scanner" => Pad!OnceForEachTapStep]_<<x1, x2, r3>>

\* A start makes one library card for each identity among pack and dumps.
OneCardForEachKind == part = "scanner" => Pad!OneCardForEachKind

\* The cover is lifted for a game that has rendered only (spawn_state_poller).
CoverHolds == part = "poller" => Looks!CoverHolds

\* What is called frozen does not move (FreezeDetector).
FreezeIsReal == part = "poller" => Looks!FreezeIsReal

\* The phone shows what the server has, unless an event went amiss in a way that the
\* model names (handle_ws, ws.rs).
ViewIsTrue ==
  /\ part = "fan-out" => Fan!ViewIsTrue
  /\ part = "taunts" => Taunts!ViewIsTrue

\* A taunt is shown once by each page, though it is both broadcast and replayed.
TauntIsShownOnce ==
  /\ part = "fan-out" => Fan!TauntIsShownOnce
  /\ part = "taunts" => Taunts!TauntIsShownOnce

\* When all is quiet, the page and its session agree on who is signed in, though
\* requests are lost, doubled and late and the socket drops, unless an unlock overtook
\* what the page was told (unlock_profile, handle_ws, ws.rs).
SettledAgrees ==
  /\ part = "rush" => Rush!SettledAgrees
  /\ part = "return" => Return!SettledAgrees
  /\ part = "play" => Play!SettledAgrees

\* A wrong PIN is tried once, though whatever is shown is submitted (PinEntry).
TriedOnce ==
  /\ part = "rush" => Rush!TriedOnce
  /\ part = "return" => Return!TriedOnce
  /\ part = "play" => Play!TriedOnce

\* A button that must be held acts under the finger, once for each press
\* (action_button.rs, modals.rs).
ActsUnderFinger ==
  [][/\ part = "menu" => Menu!ActsUnderFingerStep
     /\ part = "reset" => Reset!ActsUnderFingerStep]_<<x1, x2, r3>>

\* A dialog that cannot be closed because it has acted closes by itself (modals.rs).
ClosesInTheEnd == part = "reset" => Reset!ClosesInTheEnd

\* The page always has one socket, or one timer that will open one (ws.rs).
LinkIsTended == part = "link" => Link!LinkIsTended
===============================================================================
