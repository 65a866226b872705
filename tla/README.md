# Skylander portal controller: TLA+ models

This directory holds the formal models of the portal controller: TLA+ modules
translated from the Rust sources, the TLC configurations that check them on
small instances, and theorems checked by the TLA+ proof system.

## 1. The system

One Windows or macOS machine under the TV runs one binary: an HTTP/WebSocket
server (axum on tokio) and a full-screen launcher (eframe). Up to two phones
use it as a remote control. The server drives a patched RPCS3 emulator, which
emulates the "portal of power": eight slots into which toy figures, i.e. files,
are loaded.

| Component | State | Operations | Hard part | Modules |
|---|---|---|---|---|
| Portal mirror and handlers (`http.rs`, `state.rs`) | `AppState.portal`: eight slots `Empty`, `Loading`, `Loaded` with figure and owner | load, reset, clear, refresh; clean-up of a player's slots; Kaos swap | check-and-mark under the lock, job sent after it is released; handlers dropped at an `await` | `Portal` |
| Driver worker (`state.rs`) | job channel of 32, the job in hand | load, clear, refresh, boot, one at a time | the driver call is outside every lock, its result is written later; failed calls leave unknown states | `Portal`, `Lifecycle` |
| Portal driver (`rpcs3-control`) | the emulator's slots | load, clear, read | two drivers with different slot models; half-failed calls | `Portal` |
| Session registry and WebSocket tasks (`profiles.rs`, `http.rs`) | two seats, ghosts, eviction cooldown | register, evict, ghost, reclaim, expire, unlock, lock | every step takes the lock anew; reconnects race sweeps and evictions | `Sessions`, `Seats` |
| Emulator lifecycle (`http.rs`, `state.rs`) | `RpcsLifecycle`: process, current game, settings window; `LauncherStatus` | launch, quit, shutdown, settings, crash supervisor | checks and effects in different critical sections, seconds apart | `Lifecycle` |
| STATE poller (`state.rs`) | ready and stall counts, `ever_playable` | look at the emulator, latch | a look is applied after what it saw has changed | `Poller`, coarser in `Lifecycle` |
| Event fan-out (`http.rs`, `state.rs`) | broadcast channel, replay buffers | snapshot, subscribe, broadcast, replay | snapshot before subscribe, lag, order of events against writes | `Fanout` |
| Kaos (`kaos.rs`, `state.rs`) | per-session timers | choose, execute, taunt | chosen from a snapshot, executed later | `Portal`, `Fanout` |
| Profile store (`profiles.rs`) | SQLite rows with saved layouts, PIN lockout | create, delete, unlock, persist the layout | check, slow hash and record are three steps; the saved layout is a snapshot of everybody's slots | `Profiles`, `Lockouts`, `Enrolment` |
| Working copies (`working_copies.rs`, `sky_edit.rs`) | one file for each profile and figure | fork, reset, edit | plain copies, a shared temporary name, edits against loads | `WorkingCopy` |
| Figure file (`sky-parser`) | two regions of two mirrors with sequence bytes | parse, set gold, set experience, encrypt | wrap of the sequence, blocks never written, catalogue and tag that tell different generations | `FigureFile`, `FigureFormat` |
| Scanner (`nfc-reader`, `nfc.rs`, `indexer`, `main.rs`) | last tag, dumps on disk, library cards | poll, dump, write, announce, merge at start | 64 blocks read one by one while figures are swapped | `Scanner` |
| Set-up (`wizard.rs`, `config.rs`) | `config.json`, wizard page, running configuration | wizard, load with repairs, change a field | file rewritten in place, a death or an error in mid-write, two handlers | `Setup` |
| Launcher UI (`ui/`) | phase sequencer | frame, RESTART | a function of the launcher status, and one of its writers | `Lifecycle` |
| Phone (`phone/src`) | socket, timers, its view of portal, game and session, who is signed in, buttons being held | reconnect, TRY AGAIN, apply events, reload; unlock, SWITCH, MANAGE, resume; hold to act | hint of the former session, backoff, a handshake of several awaits, answers older than events, requests answered late, timers that outlive a press | `PhoneLink`, `Fanout`, `SignIn`, `HoldButton` |
| Signing, drawing, firewall, mDNS, watchdog, tools | | | stateless, pure, or platform I/O | none |

Phones call REST handlers and hold a WebSocket each. Handlers and WebSocket
tasks share `AppState`: the mirror, the registry and the lifecycle each behind
a mutex of its own. Everything that touches the emulator goes as a `DriverJob`
through one bounded channel to one worker. Changes are announced on a broadcast
channel. Background tasks tick: the supervisor, the ghost sweep, the Kaos timer,
the STATE poller.

`PROJECT.json` lists every component with its status, and every hazard at its
line.

## 2. Modules

| Module | Models |
|---|---|
| `Portal` | mirror, handlers, channel, worker, driver, emulator; quit, crash and recovery as far as they touch the portal |
| `Sessions` | registry, WebSocket tasks, ghost sweep, owners of what is on the portal |
| `Seats` | what the registry promises: the abstract specification that `Sessions` implements |
| `Lifecycle` | `RpcsLifecycle` and its processes, launch, quit, shutdown, settings, BootDirect, supervisor, launcher status, what a frame and a poll do to it |
| `Poller` | `spawn_state_poller` and `FreezeDetector` in full: one look, taken and later applied |
| `Fanout` | one phone's view of slot, game, profile and taunts |
| `PhoneLink` | the phone's sockets, timers, TRY AGAIN and the lost-connection overlay |
| `SignIn` | who is signed in: picker, PIN entry, SWITCH, MANAGE, Kaos switch and resume offer of one page, the handlers behind them, and the socket between |
| `HoldButton` | a button that acts when it is held, in the menu and in the reset dialog |
| `Profiles`, `Lockouts`, `Enrolment` | rows and saved layouts; PIN attempts; the limit on profiles |
| `WorkingCopy` | one profile's file of one figure under concurrent requests and crashes |
| `FigureFormat`, `FigureFile` | the contents of that file: mirrors, sequences, gold and experience; edits, resets and saves in sequence |
| `Scanner` | the NFC worker and the library that is made of its dumps |
| `Setup` | `config.json` over the life of an installation |
| `Parts` | the parts that share no state, side by side in one specification, see section 3 |
| `MCPortal`, `MCSessions`, `MCLifecycle`, `MCWorkingCopy`, `MCSignIn`, `MCHoldButton`, `MCParts` | values for TLC and symmetry |
| `MCLive` | the fair parts, see section 3 |
| `PortalProofs`, `SessionsProofs`, `LifecycleProofs` | theorems about the module of that name, see section 4 |
| `PhoneProofs` (`SignIn`, `Fanout`, `PhoneLink`), `FileProofs` (`WorkingCopy`, `FigureFile`), `ProfileStoreProofs` (`Lockouts`, `Enrolment`, `Profiles`), `SmallProofs` (`Setup`, `Scanner`, `HoldButton`, `Poller`) | theorems about those components, one by one |
| `PartsProofs` | the same results as theorems of `Parts` |

The modules are composed where the code shares state: `Portal` has the
registry's clean-ups as tasks that announce jobs, `Sessions` the portal as kinds
and owners, `Lifecycle` the poller's latch in one step, `Profiles` slots and
seats as coarse as the rows need. Operators named in a comment "Mutant of X"
are X with a plausible mistake; no specification uses them.

### Portal

| Variable | Code |
|---|---|
| `portal` | `AppState.portal` |
| `todo[t]` | jobs that task `t` has announced on the mirror and will send next: the code between the unlock and the `driver_tx.send` of a handler, of `clear_slots_for_profile`, of `execute_kaos_swap`, of `restore_portal_figures` |
| `queue` | the `mpsc` channel of `spawn_driver_worker` |
| `worker` | where `handle_job` stands: idle, about to re-read after a failure, or holding a result it has yet to write (`write`; `Keep` leaves a slot alone) |
| `emu`, `up` | the emulator's slots and whether it answers (external) |
| `current` | `RpcsLifecycle.current.is_some()` |
| `swap` | the Kaos swap chosen by `select_swap` and not yet executed |
| `rescue` | the supervisor: watching; noticed, i.e. it has taken `current` under the lifecycle's lock and has yet to look at the mirror under the portal's; resetting, booting, awaiting, restoring |
| `quit` | `quit_game`: before its sleep, after the kill |
| `stuck`, `bypassed` | history variables, see below |

A handler is two actions: the critical section that checks and marks the slot,
and `Send`. In between anything may happen, and with a full channel the handler
may be dropped (`DropRequest`), as axum does when the phone hangs up. A worker's
job is two or three: the driver call, for a failure the re-read, and the write.
A failed call may have had no effect, all of its effect, or have emptied the
slot; the UIA driver empties an occupied slot before it loads.

A file is a figure together with the owner of the working copy, or no owner for
the pack's own file; the same file cannot be open in two slots.

Some writers ignore the Loading mark by design or by oversight: a Kaos swap, a
refresh over jobs still queued, a restore by the supervisor, a quit or a reset
with jobs in flight, a re-read that fails and is taken as Empty. The history
variable `bypassed` collects the slots so written, until the slot is marked
anew with no job left; `stuck` collects the slots whose announced job was lost
before it reached the channel. They are not read by any action. Properties
exempt exactly these slots, so each says what holds as long as nobody goes past
the mark, and the writers that do are named in one place.

### Sessions

`seats` is the registry in order of `created_at`; `cooling` says that
`last_forced_evict_at` is less than a minute ago; `ws[c]` is where `handle_ws`
stands for connection `c`, with the session it serves; `sweep` holds the
profiles of expired ghosts not yet cleaned up; `portal` is reduced to kind and
owner. `handle_ws` is split at each point where it takes a lock: claim or
register, stamp the cooldown, announce the eviction, subscribe, read the
departing profile, ghost or remove. REST requests carry the session id the
phone was welcomed with and may be served after that session is gone; the
session then counts as locked, as `CurrentSession` has it.

`walkedOff` is a history variable: the profiles that left figures behind in one
of the ways that leave no ghost (evicted while live, locked or switched, a load
that landed after the clean-up).

### Lifecycle

| Variable | Code |
|---|---|
| `life` | `RpcsLifecycle`: `process` and whether it is alive, `current` (with `current_eboot`), `gui` for a `config_gui` whose window is open |
| `status` | `LauncherStatus`: `running` (with `current_game`), `loading`, `switching`, `cover`, `guiOpen`, `playable`, `frozen`, `screen` |
| `handler[h]` | where `launch_game`, `quit_game` or `open_rpcs3_settings` stands, and whether it holds a running process |
| `queue`, `worker` | the job channel with its BootDirect jobs, and the one in hand |
| `sup` | `spawn_crash_watchdog` |
| `farewell` | the detached task of `shutdown_launcher` |
| `watchers` | tasks of `spawn_config_gui_watcher`: polling, and about to clear the flag |
| `shown` | the launcher's last frame: launcher, closing animation, game (`was_in_game`) |
| `processes`, `orphans` | RPCS3 processes that run (external), and those of them a blocking shutdown will end though its handler is gone |
| `leftover` | history: `loading` was set when something cleared `running` |

Every critical section of either mutex is one action, and so is every stretch
between two awaits. A handler may be dropped wherever it waits
(`DropHandler`): the loading guard then clears `loading_game`, a queued boot and
a blocking shutdown go on. A process is identified by who holds its handle, so
"no process is lost" is an equation: `processes` is the number of holders. A
dropped handle kills its process on Windows (a job object) and does not on
macOS and Linux; `KillOnDrop` says which.

The closing of the launcher a few seconds after Farewell is not modelled: the
model lets tasks run on. Nor is the mock and the UIA driver's boot.

### Seats

A session is unborn, live, away or gone; at most `MaxSessions` are live or away.
`Sessions!SeatOf` is the refinement mapping: a registry entry is live or away, a
session that its task has served and that has no entry is gone. Every critical
section of `handle_ws`, the sweep and the requests maps to one step of `Seats`
or to none; an eviction, which the code does in one locked function, is one
step in both.

### Poller

A look (`sample`) is taken without a lock and applied to `status` later, and the
game goes on, ends or is replaced in between. `game` is the emulator: its phase,
looks since the last compile progress (`gap`) and since the last new frame
(`idle`). `poller` holds `ready_run`, `stall_ticks`, `ever_playable` and whose
frame count `last_frames` is; a count is told apart only by whether it has moved.
`looked` is a history variable: since the last emulator ended, the poller has
applied a look that found nothing.

### Fanout

`truth` counts the changes of a slot and of the game, `writer[w]` is an event
whose write is done and whose `broadcast` is not, `link` is the socket with its
receiver `rx` of the broadcast channel and the stage of `handle_ws`, `phone` what
the page holds. `off` (history) collects the topics of which an event went
amiss: sent while nobody listened, overtaken by a newer one, lost to lag or with
the socket; `excused` the taunts that met one of the mishaps named at
`TauntIsShownOnce`. So the properties say what a phone may rely on, and the
history names each hole.

### PhoneLink

A chain is a socket, or the timer that has replaced it. `connect_inner` opens
one, `onclose` arms a timer and makes it the one that TRY AGAIN can cancel.
Pressed while a socket is connecting, TRY AGAIN starts a second chain (`forked`).

### SignIn

`session` is the registry's seats with their profile, `page` the signals of the
phone, `picker` the profile grid, PIN entry or admin hub on the screen, `call[c]` a
request of the page with where its handler stands, `wire` the events on their way.
`socket` is the session that serves the page, how far `handle_ws` is with it, and the
profile it has told the page.

`handle_ws` is four actions, and between any two the handlers may act: `Connect` claims
or registers and sends Welcome; `TellProfile` reads the profile and sends it (one
action, as nobody else writes to the socket before `Subscribe`); `Prompt` sends the
resume offer, unless a ghost was reclaimed; `Subscribe` makes the page hear broadcasts.
`Send`, the broadcast of the handlers, reaches the page from then on only.

A handler is split where another can act in between: `set_profile`, the broadcast,
the resume prompt; `set_kaos_enabled` looks at one session after the other. A
request may be lost before or after the handler is done, or be dropped at an await;
its answer finds whatever screen is there by then (`busy` is the request for which
this PIN entry waits). `amiss` (history) says that what the page was told last is not
what its session has: an event was never sent, told of a profile that the session no
longer had, or was broadcast after the page was told and before `Subscribe`; the next
event the page hears, or a reconnect, mends it. SWITCH and MANAGE lock
the page only. The server's session stays signed in, so a Kaos toggle in the hub or a
reclaimed ghost signs the page in again: the model reaches that, and no
property excludes it.

### HoldButton

Every press puts a timer into `timers`, which lifting the finger does not take out;
`holding` and `fired` are the flags that all timers share, `rest` is the timer that a
firing arms. `Dialog` tells `ResetConfirmModal`, whose flags and timers outlive the
dialog, from an `ActionButton`, whose flags go with it. `held` and `spent` (history) are
how long the finger has been down, and whether its press has acted.

### Profiles, Lockouts, Enrolment

`persist_layout` takes a snapshot of the portal after each job and writes it to
the row of each signed-in profile, one after the other; `freed` remembers whose
clean-up emptied a slot and `story` whether its player is gone. `Lockouts` keeps
the four steps of `unlock_profile` apart: take the time, check, verify, record with
the instant at which the attempt began. `window` is any one instant, chosen at the
start and never read by the code's steps: `tested` counts the wrong PINs of the
lockout period that follows it, so that one counter speaks of every such period.
`Enrolment` keeps the count and the insert apart.

### WorkingCopy

The file is absent, torn (a copy cut short or running), the pack's, played,
edited, or mangled (whole, but computed from a torn one). A request resolves,
copies, marks the slot, reads, opens the temporary file, writes and renames in
steps of their own. `held` says that the emulator has the present file open, and
`into` where an edit's open file is now: still the temporary name, by another's
rename the working copy, or gone.

### FigureFile

`Parse`, `SetGold`, `SetXp` and `Encrypt` are operators on two regions of two
mirrors; `DistributeXp` and the level table are the code's. `Edit` calls them in
the order in which `edit_figure` does, `GameSaves` is external. A mirror that no
game has written stays blank when it is encrypted. A figure has two generations: the
catalogue's bounds the level and chooses the pools that an edit fills, the tag's chooses
those a reader counts. Either may be Unknown: scanned figures have no game in the
catalogue, and files of the pack may have no year in their variant. `ReadableLevel` is
the highest level that the reader can show for a tag.

### Scanner

`dump.from` is the set of tags whose blocks have been read into one dump: a dump
of more than one tag would be "mixed". `Merge` is the start's loop over the
dumps, in any order the directory may list them, written as a recursive function
of how many dumps it has met.

### Setup

`file` and `json` are `config.json`, `run` the configuration in memory, `edit` the
two handlers that change a field, `wizard` the pages. Every write truncates
first, and may be cut short from then on: by a death of the launcher (`Die`), or by an
error, which a handler answers with 500 (`WriteFails`) and which ends a start or the
wizard (`SaveFails`). A handler's write may fail before it has truncated the file, too,
and what it has written by the time it fails may lie over the other handler's text.
`cut` (history) says that the last write was cut short, `qr` (history) is the key on the
phones, `asked` the settings last acknowledged.

## 3. Runs

| Run | Instance | What it shows |
|---|---|---|
| `portal_core` | 1 slot, 2 requests, clean-up, Kaos; loads and resets fail, handlers are dropped, boot, crash, quit, recovery | `TypeOK`. `BusyIsExclusive`: a slot with a job is Loading and has one job. `LoadingIsBacked`: a Loading slot has a job, or is one of those whose job was lost. `MirrorIsTrue`: a settled slot shows what the emulator holds. `ClearsOnlyOwn`: a clean-up takes off its player's figures only |
| `sessions_seats` | 4 connections, 1 profile, 2 seats | `SeatsAreHeld`: a live seat has exactly one task to release it, a ghost none. `LoadedIsAnsweredFor`: an owner of a figure sits at the portal or is about to be cleaned up. `ImplementsSeats`: the refinement |
| `live` | fair; five parts | `SpinnerEnds`: every Loading slot that has its job settles. `GhostsEnd`, `Reconnects`, `HangIsNoticed` |
| `lifecycle_hands` | 2 requests; boots fail, handlers are dropped, shutdown | `TypeOK`. `NoProcessIsLost`: whatever fails or is dropped, each process that runs has a holder that ends it or hands it on. `LoadingHasReason`: LOADING shows while something starts or runs, or is left over from a quit before the reveal |
| `lifecycle_live` | fair, 1 request, crashes, freezes, failed boots, settings, 2 restarts | `RecoveryEnds`: a recovery ends with the game or the crash screen. `SettingsFlagEnds`: closed settings bring the launcher back |
| `parts` | eighteen instances of thirteen modules | one `TypesOK`, and the properties listed below |
| `portal_ipc` | violated | `MirrorIsTrue` with the IPC driver |
| `sessions_expiry` | violated | `LivePlayerKeepsFigures` |
| `lifecycle_loading` | violated | `NoStaleLoading` |
| `copy_atomic` | violated | `EditIsAtomic` |
| `signin_offer` | violated: 2 players, 1 request at a time, 1 socket | `OfferIsForPlayer` |
| `hold_early` | violated: a menu's button | `FullHold` |

**Unions.** Parts that share no state are checked by one run: `Parts` and `MCLive`
have a variable `part` that `Init` chooses and nothing changes, and `x1`, `x2`, ...
that hold the variables of the chosen part, by `INSTANCE ... WITH`. The state
space is the sum of the parts', not their product, and every property names
its part. The rest of the variables stay `Unused`. In `MCLive` the
fairness of each part is conditional on the part. The constants of a part of
`Parts` are the fields of a record (`OfSlots`, `OfFan`, ...), whose assumptions are
named in `Parts` and whose values are in `MCParts`: so the specification that TLC
checks on small instances is the one whose theorems `PartsProofs` has.

What `parts` checks:

| Part | Property |
|---|---|
| Portal, 2 slots, a player's figures and nobody's, loads, clears and reads fail | `MirrorIsTrue` |
| Portal, 1 slot, 2 figures, Kaos and a request, loads fail | `MirrorIsTrue`, here also when a swap races a request |
| Lockouts, 2 requests, 2 strikes | `GuessingIsSlow`: within any lockout period at most `LOCKOUT_STRIKES` wrong PINs for each request in flight and one for each two of them |
| Enrolment, 3 requests | `LimitIsSoft`: the limit is exceeded by the overlap less one, no more |
| Profiles, 1 profile on 2 devices | `LayoutOutlivesCleanUp`: a clean-up never reaches the layout its player is offered to resume |
| WorkingCopy, 2 requests, crashes | `TornStaysTorn`: no edit makes a whole-looking file of a torn one. `ProgressIsKept`: progress is overwritten on purpose only |
| FigureFile, 4 figures: a new Giant; a scanned one of Swap Force; one of Trap Team whose file has no year; one of Trap Team | `EditReadsBack`: what was edited is what is read, the level as far as the tag can show it |
| Setup on Windows, 2 keys, writes that fail | `KeySurvives`, `SettingsStick`. `TornForAReason`: a write that runs to its end is read back, unless handlers overlap |
| Scanner, 3 tags of 2 figures | `DumpIsOfOneFigure`, `OnceForEachTap`, `OneCardForEachKind` |
| Poller, looks may fail | `CoverHolds`: no game is revealed before it has rendered. `FreezeIsReal`: what is killed as frozen has stood still |
| Fanout, a channel of 1, one drop; 2 changes by 2 writers, or a change, 2 taunts and a restart | `ViewIsTrue`: the phone shows what the server has, but for what went amiss. `TauntIsShownOnce` |
| SignIn: 2 players with 2 requests at once over one socket; 1 player with 1 request over 2 sockets; 1 player while games are played | `SettledAgrees`: when all is quiet, page and session agree on the player, unless an unlock has overtaken what the page was told (`amiss`). `TriedOnce`: a wrong PIN is submitted once |
| HoldButton: the menu's, and the reset dialog for 2 figures | `ActsUnderFinger`: it acts under the finger and once for each press. `ClosesInTheEnd`: a dialog that has acted closes |
| PhoneLink, 2 chains of sockets | `LinkIsTended`: the page has a socket or a timer that will open one, one only unless TRY AGAIN has forked it, and no overlay over an open socket |

**Bounds.** `SlotCount` is 1 or 2 of 8: slots interact only through the channel, the
owner's clean-up, the file lock and the choice of a free slot, for which two
suffice. `portal_core` has a second figure for the Kaos swaps, which its constraint
`SwapsInPeace` follows only while the emulator runs, nothing is quit and no
other task has a job to send; a swap that races a request is a part of
`parts`. `QueueCap` is 1 of 32 (2 in `portal_ipc`): a full channel is then the
normal case rather than a rare one, and every handler that can wait for room
does. `MaxRespawns` is 1 or 2 of 3: the first, the last and, with 2, one attempt
in between differ. Two requests give every race of two phones; a third would
contend for the same mark. `MaxSessions` is the code's 2, and 4 connections
allow an eviction to be followed by a reclaim and another eviction. Runs with
`Faults` or `Events` name the environment events they allow, so that together they
cover all of them while each stays small. In `Lifecycle` one or two handlers serve
any number of requests one after the other; what one has left behind (a queued
boot, a shutdown) meets its next request; `MaxWatchers` and `MaxOrphans` are 1,
since each further one does what the first does. In `Fanout` the channel holds 1
of 64 events, so that lag is common, and the counters of changes, taunts,
switches, drops and restarts are bounded in the guards. `SEQUENCES` is 4 of 256:
newer and older are told by the successor, and the wrap comes after two saves of
each mirror. `LOCKOUT_DURATION` is 2 instants of 4, `SAMPLE_BUFFER` and
`FreezeTicks` 3 (2 in `live`), `Blocks` 2 of 64: first and later ones. `RETRY_THRESHOLD`
is 3, and two chains are enough for one to be beside the other. `SignIn` has up to two
requests and two sessions, for one to be late, and `WireCap` 1 or, over two
sockets, 2, less than what a handshake sends; a sender waits for room there, which the
real channel makes rare. A tick of
`HoldButton` is 300 ms: `HOLD` is 4 ticks (1200 ms), `LINGER` 3, `DISMISS` 5. `slots` of
`live` has one figure, one request and one clean-up. What is proved
(section 4) holds without these bounds.

Symmetry is used in the runs without liveness only, for requests, connections
and profiles, writers and tags (in `parts` for `a` and `b`, and for the two requests). `GhostsEnd` is stated for one connection, which
stands for each: nothing tells them apart. Deadlock is not an error where an
instance comes to its end because a bound is used up: connections used once
(`Sessions`), changes (`Fanout`), sessions (`SignIn`), and the parts with counters.

**Fairness.** Tokio polls every task that can go on, so the worker, the supervisor,
each WebSocket task, the sweep and the poller are weakly fair; a socket or timer
of the browser fires in the end (`Proceeds`). `Send` is strongly fair: a full
channel disables it again and again, and tokio's bounded channel hands out room
to waiting senders in their order; `QueueBoot` and `Respawn` are for the same
reason. Time passes: the cooldown elapses and ghosts age. No fairness is assumed
of phones, servers that come and go, disconnects, crashes, quits, or of a boot
that might succeed. `Reconnects` is conditional on a server that stays reachable
from some time on, and `HangIsNoticed` on looks that are answered (`Failing` is
FALSE there): each look that fails starts the freeze count anew.

## 4. Proofs

For every value of the constants that satisfies the modules' named assumptions,
TLAPS checks the theorems below. Each property that a passing run checks as a state
invariant or an action property is the statement of one of them.

Of the three large modules:

| Theorem | Assumptions besides the modules' own | Invariant |
|---|---|---|
| `PortalProofs!TypeCorrect` | none | `TypeOK` is inductive |
| `PortalProofs!BackedCorrect` (`LoadingIsBacked`) | none | `BackedInv` |
| `PortalProofs!ExclusiveCorrect` (`BusyIsExclusive`) | none | `ExclusiveInv` |
| `PortalProofs!MirrorCorrect` (`MirrorIsTrue`) | the UIA driver | `MirrorInv` |
| `PortalProofs!OwnersCorrect` (`ClearsOnlyOwn`) | the UIA driver | `OwnersInv` |
| `SessionsProofs!SeatsCorrect` (`SeatsAreHeld`) | none | `SeatsInv` |
| `SessionsProofs!AnsweredCorrect` (`LoadedIsAnsweredFor`) | none | itself, with `SeatsInv` |
| `SessionsProofs!SeatsImplemented` (`ImplementsSeats`) | none | `SeatsInv`; every step is a step of `Seats` or a stutter |
| `LifecycleProofs!TypeCorrect` | finitely many handlers | `IInv` |
| `LifecycleProofs!NoProcessIsLostCorrect` | the same, and `KillOnDrop` | `IInv` |
| `LifecycleProofs!LoadingHasReasonCorrect` | finitely many handlers | `Reason`, with `IInv` for the types |

Of the parts. The theorem about the component is in the module named, under an
assumption that it states; `PartsProofs` has it again as a theorem of `Parts`, from
the assumptions of `Parts` alone:

| Theorem about the component | In `PartsProofs` | Assumptions | Invariant |
|---|---|---|---|
| `PortalProofs!MirrorCorrect` | `MirrorCorrect` | the UIA driver, which both portals have | `MirrorInv` |
| `FileProofs!TornStaysTornCorrect` | `TornStaysTornCorrect` | none; with and without crashes | `TmpTornForAReason`, `NothingBad` |
| `FileProofs!ProgressIsKeptCorrect` | `ProgressIsKeptCorrect` | the same | `KeepInv` |
| `FileProofs!EditReadsBackCorrect` | `EditReadsBackCorrect` | well-formed files; any generation in the catalogue and any on the tag, or none | mirrors in order, and what an edit has just written |
| `ProfileStoreProofs!GuessingCorrect` | `GuessingIsSlowCorrect` | finitely many requests; strikes and period are positive | `RateInv` |
| `ProfileStoreProofs!LimitIsSoftCorrect` | `LimitIsSoftCorrect` | finitely many requests | itself, with the types |
| `ProfileStoreProofs!LayoutCorrect` | `LayoutCorrect` | "no profile" is not a profile | `LayoutInv` |
| `SmallProofs!KeyCorrect`, `SettingsCorrect`, `TornCorrect` | `KeyCorrect`, `SettingsCorrect`, `TornForAReasonCorrect` | keys are numbers | `SetupInv` |
| `SmallProofs!DumpIsOfOneFigureCorrect` | `DumpCorrect` | finitely many tags, the absent one is none of them | `ReadsOneFigure` |
| `SmallProofs!OnceForEachTapCorrect` | `OnceForEachTapCorrect` | the same | `TapIsFresh` |
| `SmallProofs!OneCardCorrect` | `OneCardCorrect` | the same | `GoodCards` of the merge, by induction |
| `SmallProofs!CoverHoldsCorrect`, `FreezeIsRealCorrect` | the same names | pauses between compile phases are shorter than `SAMPLE_BUFFER` | `SeenToStop`, `ReadyInGaps`, `StallsAreIdle` |
| `SmallProofs!ActsCorrect`, `ClosesCorrect` | `ActsUnderFingerCorrect`, `ClosesCorrect` | times are natural numbers | `HoldInv` |
| `PhoneProofs!SettledAgreesCorrect` | `SettledCorrect` | sessions are numbered, "no request" is none of the requests | `AgreeInv` |
| `PhoneProofs!TriedOnceCorrect` | `TriedOnceCorrect` | the same | `RefusalIsAwaited` |
| `PhoneProofs!ViewIsTrueCorrect` | `ViewIsTrueCorrect` | channel, replay buffer and registry have room for something, "no event" is none of the events | `ViewInv` |
| `PhoneProofs!TauntIsShownOnceCorrect` | `TauntCorrect` | the same | `TauntInv` |
| `PhoneProofs!TendedCorrect` | `LinkCorrect` | "no chain" is none of the chains | `LinkInv` |
| `FileProofs!WorkTypesCorrect`, `SmallProofs!ScanTypesCorrect`, ...: one for each component | `TypesCorrect` (`TypesOK`) | those above; a socket takes an event (`RoomToConnect`) | each component's, with its bounds |

**From the components to `Parts`.** An instance of a module of proofs has
definitions of its own, even where it instantiates the same model for the same
variables. So for each part a lemma `...Same` says that the two sets of definitions agree,
a lemma `...Run` that `Spec` either runs this part from start to end or has never to do
with it, and a lemma `...Types` that the part keeps to its types. From these a
component's theorem becomes one of `Parts` by propositional temporal logic.

Why the properties need a strengthening:

* `BackedCorrect`. A dropped handler loses its whole list of jobs, so the list must
  be known to have one job (`RequestsAreShort`); a Kaos swap sets the task's list,
  so that must be known to be empty (`SwapWaits`).
* `ExclusiveCorrect`. "One job" must be told for each of the places a job passes
  through, the tasks' lists, the channel and the worker's hand, and for any two of
  them (`ExclusiveInv`): a slot is freed only when its last job is applied.
* `MirrorCorrect`. A snapshot or a result is read before it is written, so what the
  worker is about to write must agree with the emulator at the time of writing
  (`MirrorShows`). Deaths and restarts take the files away under the mirror's eyes:
  an emulator that is down holds none (`EmulatorKnown`), nothing is claimed until the
  reset that follows has been done (`ResetDue`), and the recovery's own reboot, of
  which there is one at most, meets a recovery that waits for it (`RebootAwaited`). The theorem
  is about the UIA driver: for the IPC driver the property is false (`portal_ipc`).
* `OwnersCorrect`. A clear is sent after the mirror was read, so the owner the mirror
  shows must still be that of the file in the slot when the clear runs
  (`ClearsOwned`), which `ExclusiveInv` keeps from being changed by another job.
* `SeatsCorrect`. A connection names the session it mints, so nobody may serve that
  name, or have an entry under it, before (`Minted`). The proof sees the registry as
  three sets, the names with an entry, the live ones among them and those that a task
  serves; the lemmas on `Entries` say what changing, adding, replacing and removing
  an entry does to them, and three lemmas (`TakesOver`, `LetsGo`, `StaysOn`) cover
  all steps.
* `SeatsImplemented`. `SeatOf` in terms of the same sets: an arrival is `Join`,
  `TakeSeatOf` or `ComeBack`, a departure `StepAway` or `Leave`, the sweep gives up
  all stale ghosts at once (`GiveUp`), every other step is not seen. There are as
  many names as entries (`OneEach`), hence no more seats than `MaxSessions`.
* `NoProcessIsLostCorrect`. The count can be kept only when it is known who holds a
  process (`HandsAreKnown`): an answer of the worker moves a handler on, and that
  must be one that waits for it and holds nothing. Hence `JobsAreAwaited`: the
  requester of every boot in the channel and in hand waits, and no requester has
  two. The supervisor's attempts start at none (`SupType`). The lemmas
  `FreeStep` and `HandlerCount` do the arithmetic once, for steps that leave the
  handlers alone and for those of one handler. Without `KillOnDrop` the invariant
  still bounds the types, and the equation is lost: see below.
* `LoadingHasReasonCorrect`. A launch that is answered well no longer counts as its
  own reason (`Pending` leaves out "booted"), because the game that then runs is
  one; whatever ends the running game notes the left-over flag.
* `CoverHoldsCorrect` and `FreezeIsRealCorrect`. `ReadyInGaps` bounds the run of ready looks
  by the looks of the present pause, also while a look is in flight;
  `StallsAreIdle` bounds the stall count by the looks without a frame;
  `SeenToStop` says that nothing is left of a former game.
* `TornStaysTornCorrect`. A temporary file may be torn only while an edit writes it,
  after a failure or crash, or when nobody will rename it.
* `ProgressIsKeptCorrect`. `OvertakenAreBehind`: a request that has not been overtaken knows
  where the figure is, an edit that it is off the portal and a load's copy that there
  is no progress to lose; `FileIsThere`: whatever has the figure open, or is
  about to, has a file, so its arrival overtakes every other request.
* `OnceForEachTapCorrect`. A dump announces at its end what it read at its start, after
  polls and reopened readers: `TapIsFresh` says that what is being dumped, and what is on
  the pad that the next poll will find new, has not been announced since it was put
  there.
* `EditReadsBackCorrect`. Of two written mirrors one succeeds the other modulo
  `SEQUENCES`, so an edit knows which to write and a reader reads that one; and
  the pools that `DistributeXp` fills sum up to the threshold that is read as the
  level. A tag that counts fewer pools than the catalogue's generation fills counts them up to
  their caps, which are the thresholds of levels 10 and 15: the lemmas say so for each
  pair of generations, and for none.

* `GuessingCorrect`. A lockout counts from the start of the attempt that set it, so an
  attempt that began before the period can cut the lockout of the period short, and
  let a new round of strikes begin. Each such attempt does so once: `Rate` bounds the
  guesses by the attempts that are not from before (`Before`), by the strikes
  counted and the wrong guesses that are not recorded yet while no lockout covers the
  period, and by what is being verified while one does. The round after k attempts
  adds a strike for each of them at most, whence the half for each pair in the bound.
* `LayoutCorrect`. While a player is here, nothing that a clean-up of theirs touched is on
  the portal, in the snapshot that is about to be saved or in the row. Once they are
  gone nobody is signed in as them (`SeatsAreBound`), so that what can still reach the
  row is a save under way, from a snapshot of before (`CleanedUpWhenGone`).
* `KeyCorrect`, `SettingsCorrect`, `TornCorrect`. A handler writes a whole file that it read
  earlier. What it read had the key, and it changes one field of it
  (`HandlersAreHonest`); until somebody raced, one that has the file open is
  alone and started from what was acknowledged (`WritersAreAlone`); a
  start that repairs the file writes the settings it read (`SavesAsAsked`). An error
  leaves the file as it was or torn, never another whole one.
* `SettledAgreesCorrect`. In the middle of things the page may be wrong, but then
  something will tell it: the last answer or event under way to the page that names
  the player agrees with the session (`WillAgree`), or a handler has changed the session and has
  yet to send what it did (`ToBeTold`), or the exemption is noted. Before it is served
  the page will show what it was told (`AsTold`), so that a broadcast it does not hear
  goes amiss exactly if the session has another profile by then.
* `TriedOnceCorrect`. Wrong digits stay on the page only while the refusal of the
  request that was sent with them is awaited (`RefusalIsAwaited`).
* `ViewIsTrueCorrect`. Of a topic that may not be wrong either a writer has yet to send how
  it is now (`Pends`), or the last event under way that tells of it does, or none is under way and
  the phone shows it (`WillAgree`), from the moment the phone is told of the topic
  (`Follows`). An event that is read leaves the others, one that is sent becomes the last:
  the lemmas on `WillAgree` say what that does to it.
* `TauntIsShownOnceCorrect`. A taunt is at one place at most: held for one ghost, in the replay, in
  the queue or shown (`AtOnePlace`), and the moves between them are few (`Moves`). A taunt that is
  buffered and yet to be broadcast is not on its way, and one that has yet to come is
  nowhere.
* `TypesCorrect`. Most types are inductive or fall out of the invariants above. Bounds on
  what others fill are not: a ghost finds room in the registry because a session
  that is served has left a seat of its own among the `MaxSessions` (`FanRoom`); an
  event is sent to a session that exists, because a request that has bound or found a profile
  knows in which one (`SignInTypes`), and the welcome fits because
  the wire is new then; the emulator has a file open only of
  a figure that is on the portal or being taken off it (`Work!TypeOK`); no timer of a
  button outlasts what armed it (`IsTimely`); and the cards of the library are
  of tags, whatever the merge met first (`ScanTypes`).
* `OneCardCorrect`. The merge at a start is a loop over the dumps. That it keeps one card
  for a kind after each of them (`GoodCards`) is an induction over natural numbers; the library's
  induction theorem takes an operator as its parameter, which no prover here can
  instantiate, so the proof takes the least number at which the claim fails
  (`LeastNumber`, from the well-foundedness of the naturals).
* `TendedCorrect`. While nobody has forked the link one chain is not over, and a timer
  that is set is its own; `TRY AGAIN` cancels the timer it knows, which is that one.
* `ActsCorrect`, `ClosesCorrect`. Whatever timers are left, the flag they look at is set
  only for a press under the finger that has not acted, or when nothing is on the
  screen to act on (`PressIsHeld`).

The bounds `MaxClock`, `MaxKeys`, `MaxTaunts` and `MaxChanges` are any numbers in the
theorems.

Model-checked only: the four liveness properties of `live` and the two of
`lifecycle_live`, since liveness under fairness is out of the prover's reach. The
properties of the violated runs are false.

## 5. Findings and weak spots

The violated runs are the findings of `PROJECT.json`, each with the line of the
documentation it contradicts:

* `portal_ipc`: the worker records the slot that was asked for, the IPC driver's
  emulator uses its first free one.
* `sessions_expiry`: the expiry of one phone's ghost clears the figures of the same
  player's other phone.
* `lifecycle_loading`: a game quit before it was revealed leaves LOADING up.
* `copy_atomic`: two edits of a figure share the temporary file, and one renames what
  the other has truncated.
* `signin_offer`: the resume offer is kept by the page and not by the player, so the next
  player is offered the layout of the one before, and START FRESH clears the wrong one.
* `hold_early`: the timer of a press that was lifted acts during the next press, long
  before that has been held for the full time.

Properties that hold name the ways in which the code may slip, as exemptions or
history variables; a reader who changes the code should know these:

* A slot whose request failed after the mark (a failed reset, a handler dropped
  while the channel is full) stays Loading (`stuck`).
* An edit of a figure that no game has saved to is announced and lost:
  blocks that were never written stay zero (`Written` in `EditReadsBack`). An edit of
  a figure saved to once leaves the written mirror three ahead in its sequence, so that
  the blank one is read: no gold, and nothing in the first pool.
* A level that the catalogue allows may be more than the tag shows (`ReadableLevel`).
  `max_level_for` lets a figure of no known generation be set to level 20
  (sky-parser `lib.rs:645-654`), as every scanned figure is (indexer `lib.rs:197`), and a
  test's comment calls a tag without a year "permissive — sum all 3 slots" (2178); but
  `parse` counts the first pool only for such a tag, and two for Swap Force (1154-1163).
  An edit to level 20 is announced, and from then on the figure shows 10 or 15. The
  comment at 641 says that the cap "reflects what the parser at `parse` actually computes".
* Where dropping a handle does not kill (macOS, Linux) a boot that times out and a
  handle replaced by another leave a process nobody holds (`KillOnDrop`).
* A game booted before the poller has seen the former one stopped is revealed at
  once, by the former's playability (`looked`).
* A game that hangs before it was shown is never called frozen, and a look that
  fails starts the count anew (`HangIsNoticed`).
* The phone's backoff grows with every close and is not reset by a socket that
  opens; it still reconnects.
* TRY AGAIN during a connection attempt leaves two sockets or timers (`forked`).
* An event sent between a socket's snapshot and its subscription, an event
  overtaken by a newer one, or lag, leaves a phone's view stale until the next
  event of the topic (`off`). For the profile this means that an unlock answered late,
  on a session that a reconnecting page has just reclaimed, can leave the page signed in
  as one player and the session as another until the next unlock (`amiss`).
* Wrong PINs are counted after they were verified, and a lockout counts from the
  start of the attempt that set it: what bounds guessing is the strikes for each
  request in flight and one more for each two of them (with three requests and one
  strike TLC reaches that number), rather than the strikes. The smaller bound, the strikes for each
  request, holds for two requests and not for three. The profile limit is soft in
  the same way.
* Two handlers that overlap on `config.json` lose a setting (`raced`); a death, or a full
  disk, in mid-write leaves it unreadable (`cut`), and every start fails until setup is run again.

## 6. Not modelled

* Request signing and the HTTP plumbing: stateless apart from a constant key.
* Drawing, shaders, fonts, display modes and window handles: no protocol; they
  make up most of `ui/`, `badge.rs`, `vortex.rs`, `compositor.rs`.
* Firewall, mDNS, logging, paths, the emulator's own configuration files,
  `games.yml`: platform I/O.
* The connectivity watchdog: a function of elapsed time with one latch.
* The phone's portal, toy-box, figure and takeover screens: they show state that
  `Fanout` has and send requests that the server's modules receive. Toasts, overlays
  and `TakenOver` are not told apart. `SignIn` takes the lockout's answer as any refusal
  and leaves the creation and editing of profiles to `Enrolment` and `Profiles`; that
  `handle_ws` may fail to read the profile's row, and then says that nobody is signed in, is left out.
* Of the parser: cipher, checksums, nicknames, hats, quests, vehicles, traps and
  crystals, which edits copy; the indexer's walk and its parsing of names.
* argon2, PIN resets, figure usage; the per-session Kaos timers; `WindowSet` jobs;
  the launcher's phases before a game; which game runs.
* Tools and end-to-end tests, which are about two fifths of the sources' lines
  together with drawing and the parser's tables: the share of lines that the map
  covers stays small for that reason.

`Fanout` assumes that the server notices a phone's socket close before the next
one opens (`Sessions` has the other order), and has no liveness. `Poller` has one
emulator at a time. `Lifecycle` lets tasks run on after Farewell, and leaves out
the boot of the mock and the UIA driver.

What would come next: the parsers of the IPC protocol and of the firmware pack's
names as pure operators; a refinement of the fan-out by an abstract channel that
loses events, so that the histories `off` and `excused` become its nondeterminism.
