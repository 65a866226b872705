------------------------------- MODULE Poller -------------------------------
(***************************************************************************)
(* spawn_state_poller and FreezeDetector: how many looks at the emulator   *)
(* it takes to lift the launcher's cover and to call a game frozen. A look *)
(* is taken without any lock held and applied under the status lock later; *)
(* meanwhile the game is booted, stalls, goes on, is quit or recovered.    *)
(* One emulator at a time, as under launches that do not overlap; a frame  *)
(* counter is told apart by whether it moved since the look before.        *)
(***************************************************************************)
EXTENDS Naturals

CONSTANTS
  SAMPLE_BUFFER,    \* ready looks in a row before the game is playable
  FreezeTicks,      \* looks without a new frame before it is frozen
  MaxGap,           \* looks that a pause between two compile phases can last,
                    \* fewer than SAMPLE_BUFFER
  Failing,          \* whether a look can fail while the emulator runs
  NoSample

VARIABLES
  game,       \* the emulator: its phase, looks since the last compile progress
              \* (gap) and since the last new frame (idle), whether it has rendered
  status,     \* LauncherStatus: rpcs3_running, game_playable, frozen
  poller,     \* the task: ready_run, stall_ticks, ever_playable, and whose
              \* frame count last_frames is
  sample,     \* the look taken and not applied yet
  looked      \* history: since an emulator last ended, the poller has applied a
              \* look that was taken when nothing ran, with rpcs3_running down

pollerVars == <<game, status, poller, sample, looked>>

\* "stalling" has shown frames since the last look, "stalled" has not; "halted"
\* is the emulator's own status "frozen".
Phase == {"none", "compiling", "gap", "rendering", "stalling", "stalled", "halted"}
Look  == [up : BOOLEAN, running : BOOLEAN, frozen : BOOLEAN, compiled : BOOLEAN,
          advancing : BOOLEAN, stopped : BOOLEAN]

TypeOK ==
  /\ game \in [phase : Phase, gap : 0 .. MaxGap, idle : 0 .. FreezeTicks, rendered : BOOLEAN]
  /\ status \in [running : BOOLEAN, playable : BOOLEAN, frozen : BOOLEAN]
  /\ poller \in [ready : 0 .. SAMPLE_BUFFER, stall : 0 .. FreezeTicks, ever : BOOLEAN,
                 last : {"zero", "this", "former"}]
  /\ sample \in Look \union {NoSample}
  /\ looked \in BOOLEAN

NewGame(phase) == [phase |-> phase, gap |-> 0, idle |-> 0, rendered |-> FALSE]

Init ==
  /\ game = NewGame("none")
  /\ status = [running |-> FALSE, playable |-> FALSE, frozen |-> FALSE]
  /\ poller = [ready |-> 0, stall |-> 0, ever |-> FALSE, last |-> "zero"]
  /\ sample = NoSample
  /\ looked = TRUE
-----------------------------------------------------------------------------
\* The emulator.

\* From a phase to the next: compilation in phases, the game, its pauses.
Becomes ==
  [none      |-> {},
   compiling |-> {"gap", "halted"},
   gap       |-> {"compiling", "rendering", "halted"},
   rendering |-> {"stalling", "halted", "compiling"},
   stalling  |-> {"rendering", "halted"},
   stalled   |-> {"rendering", "halted"},
   halted    |-> {}]

EmulatorGoesOn ==
  /\ \E next \in Becomes[game.phase] :
       game' = [phase |-> next, gap |-> game.gap, idle |-> game.idle,
                rendered |-> game.rendered \/ next = "rendering"]
  /\ UNCHANGED <<status, poller, sample, looked>>

\* The process dies, or a quit or the supervisor kills it.
EmulatorEnds ==
  /\ game.phase # "none"
  /\ game' = [game EXCEPT !.phase = "none"]
  /\ looked' = FALSE
  /\ UNCHANGED <<status, poller, sample>>

\* BootDirect spawns the emulator.
Spawn ==
  /\ ~status.running /\ game.phase = "none"
  /\ game' = NewGame("compiling")
  /\ poller' = [poller EXCEPT !.last = IF @ = "this" THEN "former" ELSE @]
  /\ UNCHANGED <<status, sample, looked>>

\* BootDirect's own first ready look, which may fall into a gap between phases.
BootDirect ==
  /\ ~status.running /\ game.phase \in {"gap", "rendering", "stalling", "stalled"}
  /\ status' = [status EXCEPT !.running = TRUE]
  /\ UNCHANGED <<game, poller, sample, looked>>

\* quit_game, its emulator killed: neither playable nor frozen is touched.
Quit ==
  /\ status.running /\ game.phase = "none"
  /\ status' = [status EXCEPT !.running = FALSE]
  /\ UNCHANGED <<game, poller, sample, looked>>

\* The supervisor has killed what was frozen or dead, and covers it.
Recover ==
  /\ status.running
  /\ status.frozen \/ game.phase = "none"
  /\ game' = [game EXCEPT !.phase = "none"]
  /\ status' = [running |-> FALSE, playable |-> FALSE, frozen |-> FALSE]
  /\ looked' = FALSE
  /\ UNCHANGED <<poller, sample>>
-----------------------------------------------------------------------------
\* The poller.

\* Whether the frame counter is above last_frames: it always moves while a game
\* renders, may move on a loading screen, and compares at random with the count
\* that a former game left behind.
Moved ==
  IF poller.last = "former" THEN BOOLEAN
  ELSE CASE game.phase = "rendering"                          -> {TRUE}
         [] game.phase \in {"compiling", "gap", "stalling"} -> BOOLEAN
         [] game.phase \in {"stalled", "halted"}            ->
              IF poller.last = "zero" THEN BOOLEAN ELSE {FALSE}

NoAnswer == [up |-> FALSE, running |-> FALSE, frozen |-> FALSE, compiled |-> FALSE,
             advancing |-> FALSE, stopped |-> game.phase = "none"]

Answer(moved) ==
  [up |-> TRUE, running |-> game.phase # "halted", frozen |-> game.phase = "halted",
   compiled |-> game.phase # "compiling", advancing |-> moved, stopped |-> FALSE]

Least(m, n) == IF m < n THEN m ELSE n

\* emu_state: the emulator answers. The pauses between compile phases are brief.
TakeSample ==
  /\ sample = NoSample /\ game.phase # "none"
  /\ game.phase = "gap" => game.gap < MaxGap
  /\ \E moved \in Moved :
       /\ sample' = Answer(moved)
       /\ game' = [phase    |-> IF game.phase = "stalling" THEN "stalled" ELSE game.phase,
                   gap      |-> CASE game.phase = "compiling" -> 0
                                  [] game.phase = "gap"       -> game.gap + 1
                                  [] OTHER                    -> game.gap,
                   idle     |-> IF moved THEN 0 ELSE Least(game.idle + 1, FreezeTicks),
                   rendered |-> game.rendered]
       /\ poller' = [poller EXCEPT !.last = "this"]
  /\ UNCHANGED <<status, looked>>

\* emu_state fails: nothing runs, or the round trip does not come back.
NoSampleTaken ==
  /\ sample = NoSample
  /\ game.phase = "none" \/ Failing
  /\ sample' = NoAnswer
  /\ poller' = [poller EXCEPT !.last = "zero"]
  /\ UNCHANGED <<game, status, looked>>

\* Mutant of Ready: frames on the loading screen are enough.
ReadyWhileCompiling(look) == look.up /\ look.running /\ look.advancing

\* is_playable, and frames are advancing.
Ready(look) == look.up /\ look.running /\ look.compiled /\ look.advancing

ReadyRun == IF Ready(sample) THEN Least(poller.ready + 1, SAMPLE_BUFFER) ELSE 0
Stable   == ReadyRun = SAMPLE_BUFFER
\* ever_playable, which a launcher that runs nothing forgets first.
Ever     == (status.running /\ poller.ever) \/ Stable

\* Mutant of StallTicks: a frame that comes again does not start the count anew.
StallOn ==
  LET before == IF status.running THEN poller.stall ELSE 0
  IN  IF Ever /\ sample.running /\ ~sample.advancing
      THEN Least(before + 1, FreezeTicks) ELSE before

\* FreezeDetector::observe.
StallTicks ==
  LET before == IF status.running THEN poller.stall ELSE 0
  IN  IF Ever /\ sample.running /\ ~sample.advancing
      THEN Least(before + 1, FreezeTicks) ELSE 0

FrozenNow == StallTicks = FreezeTicks \/ (Ever /\ sample.frozen)

\* Mutant of Latch: a frozen game keeps the cover off and raises no flag.
LatchOnly ==
  [running  |-> status.running,
   playable |-> status.running /\ (status.playable \/ Stable),
   frozen   |-> status.frozen /\ FrozenNow]

Latch ==
  [running  |-> status.running,
   playable |-> status.running /\ (status.playable \/ Stable) /\ ~FrozenNow,
   frozen   |-> FrozenNow]

ApplySample ==
  /\ sample # NoSample
  /\ status' = Latch
  /\ poller' = [ready |-> IF status.running THEN ReadyRun ELSE 0,
                stall |-> StallTicks, ever |-> Ever,
                last  |-> IF status.running THEN poller.last ELSE "zero"]
  /\ looked' = (looked \/ (~status.running /\ sample.stopped))
  /\ sample' = NoSample
  /\ UNCHANGED game

Poll == TakeSample \/ NoSampleTaken \/ ApplySample

Next ==
  \/ EmulatorGoesOn \/ EmulatorEnds \/ Spawn \/ BootDirect \/ Quit \/ Recover
  \/ Poll

Spec == Init /\ [][Next]_pollerVars
-----------------------------------------------------------------------------
\* The cover is off only for a game that has rendered: never over a compile, a
\* pause between its phases or another game's playability, unless a game was
\* booted before the poller had seen the former one stopped.
CoverHolds ==
  status.running /\ status.playable /\ looked => game.rendered

\* A game is called frozen when its own frames have not moved for as many looks,
\* or the emulator has halted: what the supervisor kills does not play. Between
\* looks it may have gone on.
FreezeIsReal ==
  status.running /\ status.frozen /\ looked /\ sample = NoSample =>
    \/ game.idle = FreezeTicks
    \/ game.phase \in {"halted", "none"}

\* A game that hangs after it was shown does not stay on the screen: it is called
\* frozen, goes on, or is gone.
StandsStill == game.phase \in {"stalled", "halted"}
Hangs   == status.running /\ status.playable /\ looked /\ StandsStill
Noticed == status.frozen \/ ~status.running \/ ~StandsStill
HangIsNoticed == Hangs ~> Noticed
=============================================================================
