----------------------------- MODULE Lifecycle -----------------------------
(***************************************************************************)
(* The emulator's lifecycle: launching a game, quitting it, shutting the   *)
(* launcher down, opening RPCS3's settings, and the supervisor that boots  *)
(* a dead or frozen game again. All of them share RpcsLifecycle (behind    *)
(* one mutex) and LauncherStatus (behind another), and no handler holds    *)
(* either across an await: what was checked may no longer hold when the    *)
(* effect follows, seconds later.                                          *)
(*                                                                         *)
(* Which game runs is left out. In the lifecycle current and current_eboot *)
(* change together, as do rpcs3_running and current_game in the status, so *)
(* each pair is one Boolean. A process is known by who holds its handle;   *)
(* "processes" counts those that run. The portal is in module Portal.      *)
(***************************************************************************)
EXTENDS Integers, Sequences, FiniteSets

CONSTANTS
  Handler,      \* HTTP handlers in progress at once
  QueueCap,     \* capacity of the driver job channel
  MaxRespawns,  \* MAX_RESPAWNS: restarts of one recovery
  MaxWatchers,  \* bound: settings watchers at once
  MaxOrphans,   \* bound: shutdowns running on without their handler
  KillOnDrop,   \* dropping a process handle kills the process (Windows)
  Events        \* what this instance lets happen, a subset of EventKind

EventKind == {"boot", "exit", "freeze", "drop", "shutdown", "settings"}

ASSUME LifecycleAssumption ==
  /\ QueueCap \in Nat \ {0}
  /\ MaxRespawns \in Nat \ {0} /\ MaxWatchers \in Nat \ {0} /\ MaxOrphans \in Nat
  /\ KillOnDrop \in BOOLEAN
  /\ Events \subseteq EventKind
  /\ {"supervisor", "nobody"} \cap Handler = {}

Requester == Handler \cup {"supervisor", "nobody"}

VARIABLES
  life,      \* RpcsLifecycle; "gui": the settings window is open
  processes, \* how many RPCS3 processes run
  orphans,   \* running shutdowns of a process whose handler is gone
  status,    \* LauncherStatus
  shown,     \* the last frame: the launcher, closing over the game, the game
  handler,   \* the HTTP handlers; "proc": one holds a running process
  queue,     \* who asked for the BootDirect jobs in the channel
  worker,    \* the driver worker inside a BootDirect
  sup,       \* the supervisor
  farewell,  \* the detached task of /api/shutdown
  watchers,  \* settings watchers: polling, and about to clear the flag
  leftover   \* history: loading was left set by what cleared running

vars == <<life, processes, orphans, status, shown, handler, queue, worker, sup,
          farewell, watchers, leftover>>

HandlerPc == {"idle", "launching", "waiting", "booted", "failed",
              "covering", "killing", "opening", "opened"}
SupPc == {"watch", "look", "killing", "boot", "await", "booted", "failed", "giveup"}

\* Every variable has its type: in particular the job channel of
\* spawn_driver_worker never holds more than its capacity, and a recovery never
\* tries more often than MAX_RESPAWNS.
TypeOK ==
  /\ life \in [process : {"none", "alive", "dead"}, current : BOOLEAN, gui : BOOLEAN]
  /\ processes \in Nat /\ orphans \in 0 .. MaxOrphans
  /\ status \in [running : BOOLEAN, loading : BOOLEAN, switching : BOOLEAN,
                 cover : BOOLEAN, guiOpen : BOOLEAN, playable : BOOLEAN,
                 frozen : BOOLEAN, screen : {"Main", "Crashed", "Farewell"}]
  /\ shown \in {"no", "closing", "game"}
  /\ handler \in [Handler -> [pc : HandlerPc, proc : BOOLEAN]]
  /\ queue \in Seq(Requester) /\ Len(queue) <= QueueCap
  /\ worker \in [pc : {"idle", "booting", "up", "recorded"}, by : Requester, proc : BOOLEAN]
  /\ sup \in [pc : SupPc, tries : 0 .. MaxRespawns, game : BOOLEAN, proc : BOOLEAN]
  /\ farewell \in [pc : {"no", "covering", "taking", "killing", "done"}, proc : BOOLEAN]
  /\ watchers \in [watching : 0 .. MaxWatchers, clearing : 0 .. MaxWatchers]
  /\ leftover \in BOOLEAN

AtRest   == [pc |-> "idle", proc |-> FALSE]
Waiting  == [pc |-> "idle", by |-> "nobody", proc |-> FALSE]
Watching == [pc |-> "watch", tries |-> 0, game |-> FALSE, proc |-> FALSE]

Init ==
  /\ life = [process |-> "none", current |-> FALSE, gui |-> FALSE]
  /\ processes = 0 /\ orphans = 0
  /\ status = [running |-> FALSE, loading |-> FALSE, switching |-> FALSE,
               cover |-> FALSE, guiOpen |-> FALSE, playable |-> FALSE,
               frozen |-> FALSE, screen |-> "Main"]
  /\ shown = "no"
  /\ handler = [h \in Handler |-> AtRest]
  /\ queue = <<>>
  /\ worker = Waiting
  /\ sup = Watching
  /\ farewell = [pc |-> "no", proc |-> FALSE]
  /\ watchers = [watching |-> 0, clearing |-> 0]
  /\ leftover = FALSE
-----------------------------------------------------------------------------
(***************************************************************************)
(* Processes.                                                              *)
(***************************************************************************)
Bit(held) == IF held THEN 1 ELSE 0

\* "held": whether the handle in question is that of a running process.
Kill(held) == processes' = processes - Bit(held)

\* A handle is dropped without a shutdown.
Drop(held) == Kill(held /\ KillOnDrop)

Recorded == life.process = "alive"

\* A game crashes, is killed from outside, or the user closes the settings.
Exit ==
  /\ "exit" \in Events
  /\ Kill(TRUE)
  /\ \/ /\ Recorded
        /\ life' = [life EXCEPT !.process = "dead"]
        /\ UNCHANGED <<worker, handler>>
     \/ /\ life.gui
        /\ life' = [life EXCEPT !.gui = FALSE]
        /\ UNCHANGED <<worker, handler>>
     \/ /\ worker.proc
        /\ worker' = [worker EXCEPT !.proc = FALSE]
        /\ UNCHANGED <<life, handler>>
     \/ \E h \in Handler :
          /\ handler[h].pc = "opened" /\ handler[h].proc
          /\ handler' = [handler EXCEPT ![h] = [pc |-> "opened", proc |-> FALSE]]
          /\ UNCHANGED <<life, worker>>
  /\ UNCHANGED <<orphans, status, shown, queue, sup, farewell, watchers, leftover>>

\* A shutdown runs on a blocking thread and ends though its handler is gone.
OrphanEnds ==
  /\ orphans > 0
  /\ orphans' = orphans - 1
  /\ Kill(TRUE)
  /\ UNCHANGED <<life, status, shown, handler, queue, worker, sup, farewell, watchers, leftover>>

Goto(h, pc) == handler' = [handler EXCEPT ![h].pc = pc]
Finish(h)   == handler' = [handler EXCEPT ![h] = AtRest]
-----------------------------------------------------------------------------
(***************************************************************************)
(* launch_game. A guard clears loading_game when the handler ends in any   *)
(* way but a successful boot.                                              *)
(***************************************************************************)
Launch(h) ==
  /\ handler[h].pc = "idle"
  /\ ~life.current /\ ~life.gui
  /\ status' = [status EXCEPT !.loading = TRUE, !.switching = FALSE]
  /\ leftover' = FALSE
  /\ Goto(h, "launching")
  /\ UNCHANGED <<life, processes, orphans, shown, queue, worker, sup, farewell, watchers>>

\* Mutant of QueueBoot: the channel is unbounded.
QueueAlways(h) ==
  /\ handler[h].pc = "launching"
  /\ queue' = Append(queue, h)
  /\ Goto(h, "waiting")
  /\ UNCHANGED <<life, processes, orphans, status, shown, worker, sup, farewell, watchers, leftover>>

QueueBoot(h) ==
  /\ handler[h].pc = "launching"
  /\ Len(queue) < QueueCap
  /\ queue' = Append(queue, h)
  /\ Goto(h, "waiting")
  /\ UNCHANGED <<life, processes, orphans, status, shown, worker, sup, farewell, watchers, leftover>>

\* Mutant of LaunchFails: without the guard.
FailUnguarded(h) ==
  /\ handler[h].pc \in {"launching", "failed"}
  /\ Finish(h)
  /\ UNCHANGED <<life, processes, orphans, status, shown, queue, worker, sup, farewell, watchers, leftover>>

\* The game is not in the library, or the boot has failed.
LaunchFails(h) ==
  /\ handler[h].pc \in {"launching", "failed"}
  /\ status' = [status EXCEPT !.loading = FALSE]
  /\ Finish(h)
  /\ leftover' = FALSE
  /\ UNCHANGED <<life, processes, orphans, shown, queue, worker, sup, farewell, watchers>>

\* The guard is disarmed: the launcher clears loading_game when it reveals the game.
LaunchDone(h) ==
  /\ handler[h].pc = "booted"
  /\ Finish(h)
  /\ UNCHANGED <<life, processes, orphans, status, shown, queue, worker, sup, farewell, watchers, leftover>>
-----------------------------------------------------------------------------
(***************************************************************************)
(* quit_game: cover, 1.5 s, kill with no second look, clear the status.    *)
(***************************************************************************)
QuitGame(h) ==
  /\ handler[h].pc = "idle"
  /\ life.current
  /\ \E switch \in BOOLEAN :
       status' = IF switch THEN [status EXCEPT !.switching = TRUE]
                 ELSE [status EXCEPT !.cover = TRUE]
  /\ Goto(h, "covering")
  /\ UNCHANGED <<life, processes, orphans, shown, queue, worker, sup, farewell, watchers, leftover>>

\* Mutant of QuitKill: the process is taken and forgotten.
QuitForget(h) ==
  /\ handler[h].pc = "covering"
  /\ life' = [life EXCEPT !.process = "none", !.current = FALSE]
  /\ Goto(h, "killing")
  /\ UNCHANGED <<processes, orphans, status, shown, queue, worker, sup, farewell, watchers, leftover>>

QuitKill(h) ==
  /\ handler[h].pc = "covering"
  /\ life' = [life EXCEPT !.process = "none", !.current = FALSE]
  /\ handler' = [handler EXCEPT ![h] = [pc |-> "killing", proc |-> Recorded]]
  /\ UNCHANGED <<processes, orphans, status, shown, queue, worker, sup, farewell, watchers, leftover>>

QuitClear(h) ==
  /\ handler[h].pc = "killing"
  /\ Kill(handler[h].proc)
  /\ status' = [status EXCEPT !.running = FALSE, !.cover = FALSE]
  /\ leftover' = status.loading
  /\ Finish(h)
  /\ UNCHANGED <<life, orphans, shown, queue, worker, sup, farewell, watchers>>
-----------------------------------------------------------------------------
(***************************************************************************)
(* open_rpcs3_settings and its watcher.                                    *)
(***************************************************************************)
OpenSettings(h) ==
  /\ "settings" \in Events
  /\ handler[h].pc = "idle"
  /\ ~life.current /\ ~life.gui
  /\ Goto(h, "opening")
  /\ UNCHANGED <<life, processes, orphans, status, shown, queue, worker, sup, farewell, watchers, leftover>>

SpawnGui(h) ==
  /\ handler[h].pc = "opening"
  /\ \/ /\ processes' = processes + 1
        /\ handler' = [handler EXCEPT ![h] = [pc |-> "opened", proc |-> TRUE]]
     \/ /\ "boot" \in Events
        /\ Finish(h)
        /\ UNCHANGED processes
  /\ UNCHANGED <<life, orphans, status, shown, queue, worker, sup, farewell, watchers, leftover>>

\* The handle replaces that of another settings window, which is dropped.
RecordGui(h) ==
  /\ handler[h].pc = "opened"
  /\ watchers.watching < MaxWatchers
  /\ Drop(life.gui)
  /\ life' = [life EXCEPT !.gui = handler[h].proc]
  /\ status' = [status EXCEPT !.guiOpen = TRUE]
  /\ watchers' = [watchers EXCEPT !.watching = @ + 1]
  /\ Finish(h)
  /\ UNCHANGED <<orphans, shown, queue, worker, sup, farewell, leftover>>

\* The settings are found closed, or already reaped by another watcher.
Reap ==
  /\ watchers.watching > 0 /\ watchers.clearing < MaxWatchers
  /\ ~life.gui
  /\ watchers' = [watching |-> watchers.watching - 1, clearing |-> watchers.clearing + 1]
  /\ UNCHANGED <<life, processes, orphans, status, shown, handler, queue, worker, sup, farewell, leftover>>

\* Mutant of ReapedFlag: the flag is left to the next settings window.
ReapSilently ==
  /\ watchers.clearing > 0
  /\ watchers' = [watchers EXCEPT !.clearing = @ - 1]
  /\ UNCHANGED <<life, processes, orphans, status, shown, handler, queue, worker, sup, farewell, leftover>>

ReapedFlag ==
  /\ watchers.clearing > 0
  /\ status' = [status EXCEPT !.guiOpen = FALSE]
  /\ watchers' = [watchers EXCEPT !.clearing = @ - 1]
  /\ UNCHANGED <<life, processes, orphans, shown, handler, queue, worker, sup, farewell, leftover>>
-----------------------------------------------------------------------------
(***************************************************************************)
(* The phone hangs up: the server drops the handler where it waits. A boot *)
(* it has queued and a shutdown it has begun go on without it.             *)
(***************************************************************************)
Orphaned(h, by) == IF by = h THEN "nobody" ELSE by

\* Mutant of DropHandler: a shutdown is awaited in the handler and stops with it.
DropForget(h) ==
  /\ "drop" \in Events
  /\ handler[h].pc = "killing"
  /\ Finish(h)
  /\ UNCHANGED <<life, processes, orphans, status, shown, queue, worker, sup, farewell, watchers, leftover>>

DropHandler(h) ==
  /\ "drop" \in Events
  /\ handler[h].pc # "idle"
  /\ Finish(h)
  /\ IF handler[h].pc \in {"launching", "waiting", "booted", "failed"}
     THEN status' = [status EXCEPT !.loading = FALSE] /\ leftover' = FALSE
     ELSE UNCHANGED <<status, leftover>>
  /\ queue' = [i \in DOMAIN queue |-> Orphaned(h, queue[i])]
  /\ worker' = [worker EXCEPT !.by = Orphaned(h, @)]
  /\ \/ /\ handler[h].pc = "killing" /\ handler[h].proc
        /\ orphans < MaxOrphans
        /\ orphans' = orphans + 1
        /\ UNCHANGED processes
     \/ /\ handler[h].pc # "killing" \/ ~handler[h].proc
        /\ Drop(handler[h].proc)
        /\ UNCHANGED orphans
  /\ UNCHANGED <<life, shown, sup, farewell, watchers>>
-----------------------------------------------------------------------------
(***************************************************************************)
(* shutdown_launcher: Farewell at once, the rest in a detached task. The   *)
(* lifecycle's two fields are cleared under two locks.                     *)
(***************************************************************************)
Shutdown(h) ==
  /\ "shutdown" \in Events
  /\ handler[h].pc = "idle" /\ farewell.pc = "no"
  /\ status' = [status EXCEPT !.screen = "Farewell"]
  /\ farewell' = [farewell EXCEPT !.pc = "covering"]
  /\ UNCHANGED <<life, processes, orphans, shown, handler, queue, worker, sup, watchers, leftover>>

FarewellForget ==
  /\ farewell.pc = "covering"
  /\ life' = [life EXCEPT !.current = FALSE]
  /\ farewell' = [farewell EXCEPT !.pc = "taking"]
  /\ UNCHANGED <<processes, orphans, status, shown, handler, queue, worker, sup, watchers, leftover>>

FarewellKill ==
  /\ farewell.pc = "taking"
  /\ life' = [life EXCEPT !.process = "none"]
  /\ farewell' = [pc |-> "killing", proc |-> Recorded]
  /\ UNCHANGED <<processes, orphans, status, shown, handler, queue, worker, sup, watchers, leftover>>

FarewellClear ==
  /\ farewell.pc = "killing"
  /\ Kill(farewell.proc)
  /\ status' = [status EXCEPT !.running = FALSE]
  /\ leftover' = status.loading
  /\ farewell' = [pc |-> "done", proc |-> FALSE]
  /\ UNCHANGED <<life, orphans, shown, handler, queue, worker, sup, watchers>>
-----------------------------------------------------------------------------
(***************************************************************************)
(* BootDirect on the driver worker. The new emulator is up before the      *)
(* handle of the old one is dropped.                                       *)
(***************************************************************************)
\* The done channel: nothing happens when the requester is gone.
Ack(by, ok) ==
  LET pc == IF ok THEN "booted" ELSE "failed" IN
  /\ handler' = IF by \in Handler THEN [handler EXCEPT ![by].pc = pc] ELSE handler
  /\ sup' = IF by = "supervisor" THEN [sup EXCEPT !.pc = pc] ELSE sup

StartBoot ==
  /\ worker.pc = "idle" /\ queue # <<>>
  /\ queue' = Tail(queue)
  /\ \/ /\ processes' = processes + 1
        /\ worker' = [pc |-> "booting", by |-> Head(queue), proc |-> TRUE]
        /\ UNCHANGED <<handler, sup>>
     \/ /\ "boot" \in Events
        /\ Ack(Head(queue), FALSE)
        /\ UNCHANGED <<processes, worker>>
  /\ UNCHANGED <<life, orphans, status, shown, farewell, watchers, leftover>>

\* The process died, or was never playable in time: its handle is dropped.
BootFails ==
  /\ worker.pc = "booting"
  /\ "boot" \in Events \/ ~worker.proc
  /\ Drop(worker.proc)
  /\ worker' = Waiting
  /\ Ack(worker.by, FALSE)
  /\ UNCHANGED <<life, orphans, status, shown, queue, farewell, watchers, leftover>>

BootUp ==
  /\ worker.pc = "booting" /\ worker.proc
  /\ status' = [status EXCEPT !.running = TRUE]
  /\ worker' = [worker EXCEPT !.pc = "up"]
  /\ UNCHANGED <<life, processes, orphans, shown, handler, queue, sup, farewell, watchers, leftover>>

RecordBoot ==
  /\ worker.pc = "up"
  /\ Drop(Recorded)
  /\ life' = [life EXCEPT !.process = IF worker.proc THEN "alive" ELSE "dead",
                          !.current = TRUE]
  /\ worker' = [worker EXCEPT !.pc = "recorded", !.proc = FALSE]
  /\ UNCHANGED <<orphans, status, shown, handler, queue, sup, farewell, watchers, leftover>>

PublishBoot ==
  /\ worker.pc = "recorded"
  /\ status' = [status EXCEPT !.running = TRUE]
  /\ worker' = Waiting
  /\ Ack(worker.by, TRUE)
  /\ UNCHANGED <<life, processes, orphans, shown, queue, farewell, watchers, leftover>>
-----------------------------------------------------------------------------
(***************************************************************************)
(* The supervisor (spawn_crash_watchdog). The freeze flag is read before   *)
(* the lifecycle's lock is taken.                                          *)
(***************************************************************************)
TakeForRecovery ==
  /\ sup' = [pc |-> "killing", tries |-> 0, game |-> life.current, proc |-> Recorded]
  /\ life' = [life EXCEPT !.process = "none", !.current = FALSE]
  /\ UNCHANGED <<processes, orphans, status, shown, handler, queue, worker, farewell, watchers, leftover>>

NoticeCrash == sup.pc = "watch" /\ life.process = "dead" /\ TakeForRecovery

SeeFreeze ==
  /\ sup.pc = "watch" /\ status.frozen
  /\ sup' = [sup EXCEPT !.pc = "look"]
  /\ UNCHANGED <<life, processes, orphans, status, shown, handler, queue, worker, farewell, watchers, leftover>>

NoticeFreeze == sup.pc = "look" /\ TakeForRecovery

ResetStatus ==
  /\ sup.pc = "killing"
  /\ Kill(sup.proc)
  /\ status' = [status EXCEPT !.running = FALSE, !.playable = FALSE, !.frozen = FALSE,
                              !.loading = sup.game, !.screen = "Main"]
  /\ leftover' = FALSE
  /\ sup' = [sup EXCEPT !.pc = IF sup.game THEN "boot" ELSE "giveup", !.proc = FALSE]
  /\ UNCHANGED <<life, orphans, shown, handler, queue, worker, farewell, watchers>>

\* Mutant of Respawn: the attempts are not counted.
RespawnForever ==
  /\ \/ sup.pc = "boot" \/ sup.pc = "failed"
  /\ Len(queue) < QueueCap
  /\ queue' = Append(queue, "supervisor")
  /\ sup' = [sup EXCEPT !.pc = "await"]
  /\ UNCHANGED <<life, processes, orphans, status, shown, handler, worker, farewell, watchers, leftover>>

Respawn ==
  /\ \/ sup.pc = "boot"
     \/ sup.pc = "failed" /\ sup.tries < MaxRespawns
  /\ Len(queue) < QueueCap
  /\ queue' = Append(queue, "supervisor")
  /\ sup' = [sup EXCEPT !.pc = "await", !.tries = @ + 1]
  /\ UNCHANGED <<life, processes, orphans, status, shown, handler, worker, farewell, watchers, leftover>>

\* The figures are placed again; once playable, or after 15 s, the cover goes.
Recovered ==
  /\ sup.pc = "booted"
  /\ status' = [status EXCEPT !.loading = FALSE]
  /\ sup' = Watching
  /\ leftover' = FALSE
  /\ UNCHANGED <<life, processes, orphans, shown, handler, queue, worker, farewell, watchers>>

GiveUp ==
  /\ \/ sup.pc = "giveup"
     \/ sup.pc = "failed" /\ sup.tries = MaxRespawns
  /\ status' = [status EXCEPT !.loading = FALSE, !.screen = "Crashed"]
  /\ sup' = Watching
  /\ leftover' = FALSE
  /\ UNCHANGED <<life, processes, orphans, shown, handler, queue, worker, farewell, watchers>>
-----------------------------------------------------------------------------
(***************************************************************************)
(* The STATE poller: latches what the emulator that answers reports. Its   *)
(* sticky ever_playable is taken to be "playable or frozen", which it is   *)
(* but for a game that thaws and freezes anew before it is stable.         *)
(***************************************************************************)
SettingsWindows ==
  Bit(life.gui) + Cardinality({h \in Handler : handler[h].pc = "opened" /\ handler[h].proc})

Answers == status.running /\ processes > SettingsWindows

Latch(playable, frozen) == status' = [status EXCEPT !.playable = playable, !.frozen = frozen]

PollStopped == ~status.running /\ Latch(FALSE, FALSE)
PollReady   == Answers /\ Latch(TRUE, FALSE)
PollFrozen  == "freeze" \in Events /\ Answers /\ (status.playable \/ status.frozen) /\ Latch(FALSE, TRUE)
PollUnsure  == status.running /\ Latch(status.playable, FALSE)

Poll ==
  /\ PollStopped \/ PollReady \/ PollFrozen \/ PollUnsure
  /\ UNCHANGED <<life, processes, orphans, shown, handler, queue, worker, sup, farewell, watchers, leftover>>

(***************************************************************************)
(* A frame of the launcher. A playable game starts the closing animation;  *)
(* when it is over the game shows. loading_game is cleared while the game  *)
(* shows and by the first frame after it.                                  *)
(***************************************************************************)
GameShown == status.running /\ ~status.switching /\ ~status.cover /\ status.screen = "Main"
Returning == shown = "game" /\ status.screen = "Main" /\ (~status.running \/ status.cover)

NextShown ==
  IF GameShown /\ (shown # "no" \/ status.playable)
  THEN {"closing", "game"} \ (IF shown = "game" THEN {"closing"} ELSE {})
  ELSE {"no"}

Frame ==
  \E next \in NextShown :
    /\ shown' = next
    /\ status' = [status EXCEPT !.loading = @ /\ ~Returning /\ next # "game"]
    /\ leftover' = (leftover /\ ~Returning /\ next # "game")
    /\ UNCHANGED <<life, processes, orphans, handler, queue, worker, sup, farewell, watchers>>

\* The RESTART button of the Crashed screen.
Restart ==
  /\ status.screen = "Crashed"
  /\ status' = [status EXCEPT !.screen = "Main", !.running = FALSE]
  /\ leftover' = status.loading
  /\ UNCHANGED <<life, processes, orphans, shown, handler, queue, worker, sup, farewell, watchers>>
-----------------------------------------------------------------------------
Requests(h) == Launch(h) \/ QuitGame(h) \/ OpenSettings(h) \/ Shutdown(h)

Progress(h) ==
  \/ QueueBoot(h) \/ LaunchFails(h) \/ LaunchDone(h)
  \/ QuitKill(h) \/ QuitClear(h)
  \/ SpawnGui(h) \/ RecordGui(h)

Work == StartBoot \/ BootFails \/ BootUp \/ RecordBoot \/ PublishBoot

Supervise == NoticeCrash \/ SeeFreeze \/ NoticeFreeze \/ ResetStatus \/ Respawn \/ Recovered \/ GiveUp

Depart == FarewellForget \/ FarewellKill \/ FarewellClear

Watch == Reap \/ ReapedFlag

Next ==
  \/ \E h \in Handler : Requests(h) \/ Progress(h) \/ DropHandler(h)
  \/ Exit \/ OrphanEnds
  \/ Work \/ Supervise \/ Depart \/ Watch
  \/ Poll \/ Frame \/ Restart

Spec == Init /\ [][Next]_vars

\* Tasks that can go on do, and a shutdown ends with the process killed. A sender
\* that waits for room in the channel gets it in its turn. Phones, the person at
\* the TV and the emulator owe nothing.
Fairness ==
  /\ \A h \in Handler : WF_vars(Progress(h)) /\ SF_vars(QueueBoot(h))
  /\ WF_vars(Supervise) /\ SF_vars(Respawn)
  /\ WF_vars(Work) /\ WF_vars(Depart) /\ WF_vars(Watch) /\ WF_vars(OrphanEnds)

FairSpec == Spec /\ Fairness
-----------------------------------------------------------------------------
(***************************************************************************)
(* Properties.                                                             *)
(***************************************************************************)
\* No process is ever lost: each one that runs is recorded in the lifecycle, held
\* by the task that has spawned or taken it, or being shut down, whatever is
\* dropped, fails, dies or overlaps.
Holders == {h \in Handler : handler[h].proc}

Held ==
  Bit(Recorded) + Bit(life.gui) + Bit(worker.proc) + Bit(sup.proc) + Bit(farewell.proc)
    + Cardinality(Holders) + orphans

NoProcessIsLost == processes = Held

\* The LOADING surface has a reason: a launch, a boot or a recovery is in
\* progress or a game runs and is about to be revealed; or it was left over by a
\* quit, a shutdown or the RESTART button before the reveal.
Starting ==
  \/ \E h \in Handler : handler[h].pc \in {"launching", "waiting", "booted", "failed"}
  \/ queue # <<>> \/ worker.pc # "idle" \/ sup.pc # "watch"

LoadingHasReason == status.loading => Starting \/ status.running \/ leftover

\* After a quick quit the launcher "doesn't return to Main with a stale LOADING
\* badge pinned over the QR" (ui/mod.rs): LOADING shows only while a game starts
\* or runs.
NoStaleLoading == status.loading => Starting \/ status.running

\* A recovery of the supervisor ends, with the game back or with the crash screen,
\* though the channel is full and each new boot may fail or die.
RecoveryEnds == sup.pc # "watch" ~> sup.pc = "watch"

\* When the user closes the settings the launcher comes back: config_gui_open is
\* cleared, whichever of several watchers finds the window gone.
SettingsFlagEnds == status.guiOpen /\ ~life.gui ~> ~status.guiOpen \/ life.gui
=============================================================================
