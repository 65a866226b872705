------------------------------- MODULE Portal -------------------------------
(***************************************************************************)
(* The portal core: the controller's mirror of the eight emulated portal   *)
(* slots (AppState.portal), the handlers that mark a slot Loading under    *)
(* the mirror's lock and then send a job, the bounded job channel, the one *)
(* driver worker that takes jobs in order, and the emulator behind it.     *)
(*                                                                         *)
(* A handler takes the lock, writes the mirror, releases it and only then  *)
(* sends its job, so "todo" holds what each task has announced but not yet *)
(* queued. The worker performs the driver call first and writes the mirror *)
(* afterwards, so "worker" holds a result that is not yet visible.         *)
(***************************************************************************)
EXTENDS Naturals, Sequences, FiniteSets

CONSTANTS
  SlotCount,   \* SLOT_COUNT: number of portal slots
  Figure,      \* figures of the library
  Recognised,  \* figures whose name, read back from the emulator, is matched
  Profile,     \* player profiles
  KaosEnabled, \* profiles that opted into Kaos swaps
  Request,     \* HTTP request handlers that can be in progress at once
  Janitor,     \* disconnect / ghost-expiry cleanups in progress at once
  QueueCap,    \* capacity of the driver job channel
  MaxRespawns, \* MAX_RESPAWNS: restarts of one recovery
  Driver,      \* "uia" loads into the slot it is told, "ipc" into a free one
  Faults,      \* environment events of this instance, a subset of FaultKind
  NoFigure, NoProfile, NoSwap, Keep

FaultKind == {"load", "clear", "read", "boot", "reset", "drop", "crash", "quit"}

ASSUME PortalAssumption ==
  /\ SlotCount \in Nat \ {0}
  /\ QueueCap \in Nat \ {0}
  /\ MaxRespawns \in Nat \ {0}
  /\ Recognised \subseteq Figure
  /\ KaosEnabled \subseteq Profile
  /\ Driver \in {"uia", "ipc"}
  /\ Faults \subseteq FaultKind
  /\ NoFigure \notin Figure
  /\ NoProfile \notin Profile
  /\ Request \cap Janitor = {}
  /\ {"kaos", "supervisor"} \cap (Request \cup Janitor) = {}

Slot  == 0 .. SlotCount - 1
Owner == Profile \cup {NoProfile}
Task  == Request \cup Janitor \cup {"kaos", "supervisor"}

(***************************************************************************)
(* Slot states. A cleared slot has neither figure nor owner.               *)
(***************************************************************************)
SlotState == [kind : {"Empty", "Loading", "Loaded"},
              fig : Figure \cup {NoFigure}, by : Owner]
Settled   == {st \in SlotState : st.kind # "Loading"}

Empty         == [kind |-> "Empty", fig |-> NoFigure, by |-> NoProfile]
Loading(f, p) == [kind |-> "Loading", fig |-> f, by |-> p]
Loaded(f, p)  == [kind |-> "Loaded", fig |-> f, by |-> p]
Clearing      == Loading(NoFigure, NoProfile)

\* "Keep" in what the worker writes leaves a slot alone: it is no slot state.
ASSUME KeepAssumption == Keep \notin SlotState

(***************************************************************************)
(* Driver jobs. "owner" of a clear names the profile on whose behalf it is *)
(* sent (a disconnect cleanup, a Kaos swap), NoProfile for a user's clear. *)
(* A job about the whole portal has no slot; the field is then 0. "reboot" *)
(* is the supervisor's BootDirect, "boot" that of /api/launch.             *)
(***************************************************************************)
SlotOp == {"load", "clear"}
Job == [op : {"load"}, slot : Slot, fig : Figure, owner : Owner]
         \cup [op : {"clear", "refresh", "boot", "reboot"}, slot : Slot,
                fig : {NoFigure}, owner : Owner]

LoadJob(s, f, p) == [op |-> "load", slot |-> s, fig |-> f, owner |-> p]
ClearJob(s, p)   == [op |-> "clear", slot |-> s, fig |-> NoFigure, owner |-> p]
WholeJob(op)     == [op |-> op, slot |-> 0, fig |-> NoFigure, owner |-> NoProfile]

For(job, s) == job.op \in SlotOp /\ job.slot = s

(***************************************************************************)
(* What the emulator holds in a slot: the opened file, which is a figure's *)
(* working copy of one profile, or the pack's own file.                    *)
(***************************************************************************)
File   == [fig : Figure, owner : Owner]
Vacant == [fig |-> NoFigure, owner |-> NoProfile]
NoFiles == [s \in Slot |-> Vacant]

VARIABLES
  portal,   \* the mirror: Slot -> SlotState
  todo,     \* jobs a task has announced on the mirror and not yet queued
  queue,    \* the driver job channel
  worker,   \* what the driver worker is doing
  emu,      \* the emulator's slots
  up,       \* the emulator runs and answers
  current,  \* RpcsLifecycle.current is set: a game is taken to be running
  swap,     \* the swap the Kaos tick has selected and not yet executed
  rescue,   \* the supervisor's recovery
  quit,     \* phase of a quit request
  stuck,    \* history: slots whose announced job was lost before the queue
  bypassed  \* history: slots written past the Loading mark, or blindly

vars == <<portal, todo, queue, worker, emu, up, current, swap, rescue, quit,
          stuck, bypassed>>
-----------------------------------------------------------------------------
NothingToWrite == [s \in Slot |-> Keep]
Idle == [pc |-> "idle", slot |-> 0, write |-> NothingToWrite]

Swap    == [slot : Slot, fig : Figure, by : Profile]
Rescued == [slot : Slot, fig : Figure, owner : Owner]
Watching == [pc |-> "watch", tries |-> 0, left |-> {}]

TypeOK ==
  /\ portal \in [Slot -> SlotState]
  /\ todo \in [Task -> Seq(Job)]
  /\ queue \in Seq(Job)
  /\ Len(queue) <= QueueCap
  /\ worker \in [pc : {"idle", "reread", "apply", "snapshot"}, slot : Slot,
                 write : [Slot -> Settled \cup {Keep}]]
  /\ emu \in [Slot -> File \cup {Vacant}]
  /\ up \in BOOLEAN /\ current \in BOOLEAN
  /\ swap \in Swap \cup {NoSwap}
  /\ rescue \in [pc : {"watch", "noticed", "reset", "boot", "await", "restore"},
                 tries : 0 .. MaxRespawns, left : SUBSET Rescued]
  /\ quit \in {"no", "covering", "killed"}
  /\ stuck \subseteq Slot /\ bypassed \subseteq Slot

Init ==
  /\ portal = [s \in Slot |-> Empty]
  /\ todo = [t \in Task |-> <<>>]
  /\ queue = <<WholeJob("refresh")>>   \* the worker's initial refresh
  /\ worker = Idle
  /\ emu = NoFiles
  /\ up = FALSE /\ current = FALSE
  /\ swap = NoSwap
  /\ rescue = Watching
  /\ quit = "no"
  /\ stuck = {} /\ bypassed = {}

Busy(s) == portal[s].kind = "Loading"

\* A job of s is announced, queued, or being performed by the worker.
Announced(s) == \E t \in Task : \E i \in DOMAIN todo[t] : For(todo[t][i], s)
Queued(s)    == \E i \in DOMAIN queue : For(queue[i], s)
Performing(s) ==
  \/ worker.pc = "reread" /\ worker.slot = s
  \/ worker.pc \in {"apply", "snapshot"} /\ worker.write[s] # Keep
InFlight(s) == Announced(s) \/ Queued(s) \/ Performing(s)
-----------------------------------------------------------------------------
\* Mutant of Mark: the back-pressure check is missing.
MarkUnchecked(s, st) ==
  /\ portal' = [portal EXCEPT ![s] = st]
  /\ stuck' = stuck \ {s}
  /\ bypassed' = IF InFlight(s) THEN bypassed ELSE bypassed \ {s}

(***************************************************************************)
(* The HTTP handlers. Each rejects a Loading slot with 429; otherwise it   *)
(* marks the slot Loading under the lock and has a job left to send. The   *)
(* mark makes the slot accountable again: a history entry from an earlier  *)
(* bypass is dropped once no job of the slot is left.                      *)
(***************************************************************************)
Mark(s, st) ==
  /\ ~Busy(s)
  /\ portal' = [portal EXCEPT ![s] = st]
  /\ stuck' = stuck \ {s}
  /\ bypassed' = IF InFlight(s) THEN bypassed ELSE bypassed \ {s}

Announce(t, jobs) ==
  /\ todo[t] = <<>>
  /\ todo' = [todo EXCEPT ![t] = jobs]

\* The session may be locked (owner NoProfile): the pack's file is loaded.
LoadSlot(r, s, f, p) ==
  /\ Mark(s, Loading(f, p))
  /\ Announce(r, <<LoadJob(s, f, p)>>)
  /\ UNCHANGED <<queue, worker, emu, up, current, swap, rescue, quit>>

\* The phone only offers a reset for an unlocked profile's figure.
ResetSlot(r, s, f, p) ==
  /\ p # NoProfile
  /\ Mark(s, Loading(f, p))
  /\ Announce(r, <<LoadJob(s, f, p)>>)
  /\ UNCHANGED <<queue, worker, emu, up, current, swap, rescue, quit>>

\* reset_to_fresh fails: the handler returns 500 with the slot still Loading.
ResetSlotFails(r, s, f, p) ==
  /\ "reset" \in Faults
  /\ p # NoProfile
  /\ todo[r] = <<>>
  /\ ~Busy(s)
  /\ portal' = [portal EXCEPT ![s] = Loading(f, p)]
  /\ stuck' = stuck \cup {s}
  /\ UNCHANGED <<todo, queue, worker, emu, up, current, swap, rescue, quit, bypassed>>

ClearSlot(r, s) ==
  /\ Mark(s, Clearing)
  /\ Announce(r, <<ClearJob(s, NoProfile)>>)
  /\ UNCHANGED <<queue, worker, emu, up, current, swap, rescue, quit>>

RefreshPortal(r) ==
  /\ Announce(r, <<WholeJob("refresh")>>)
  /\ UNCHANGED <<portal, queue, worker, emu, up, current, swap, rescue, quit,
                 stuck, bypassed>>

\* Mutant of Send: the channel is unbounded.
SendUnbounded(t) ==
  /\ todo[t] # <<>>
  /\ queue' = Append(queue, Head(todo[t]))
  /\ todo' = [todo EXCEPT ![t] = Tail(@)]
  /\ UNCHANGED <<portal, worker, emu, up, current, swap, rescue, quit, stuck, bypassed>>

\* The channel has room: the head of a task's jobs is queued.
Send(t) ==
  /\ todo[t] # <<>>
  /\ Len(queue) < QueueCap
  /\ queue' = Append(queue, Head(todo[t]))
  /\ todo' = [todo EXCEPT ![t] = Tail(@)]
  /\ UNCHANGED <<portal, worker, emu, up, current, swap, rescue, quit, stuck, bypassed>>

\* The phone disconnects while its handler waits for room in the channel: the
\* server drops the handler, and with it the job it had announced.
DropRequest(r) ==
  /\ "drop" \in Faults
  /\ todo[r] # <<>>
  /\ Len(queue) = QueueCap
  /\ todo' = [todo EXCEPT ![r] = <<>>]
  /\ stuck' = stuck \cup {s \in Slot : Busy(s) /\ For(Head(todo[r]), s)}
  /\ UNCHANGED <<portal, queue, worker, emu, up, current, swap, rescue, quit, bypassed>>
-----------------------------------------------------------------------------
\* Mutant of OwnedBy: whoever placed the figure.
LoadedSlots(p) == {s \in Slot : portal[s].kind = "Loaded"}

(***************************************************************************)
(* clear_slots_for_profile: the figures of a departing profile. Only       *)
(* Loaded slots are touched; all are marked under one lock, then a clear   *)
(* is sent for each, in slot order.                                        *)
(***************************************************************************)
OwnedBy(p) == {s \in Slot : portal[s].kind = "Loaded" /\ portal[s].by = p}

\* The slots of S in increasing order.
InOrder(S) ==
  {q \in [1 .. Cardinality(S) -> S] :
     /\ \A i, j \in 1 .. Cardinality(S) : i < j => q[i] < q[j]
     /\ \A s \in S : \E i \in 1 .. Cardinality(S) : q[i] = s}

ClearSlotsForProfile(j, p) ==
  LET S == OwnedBy(p) IN
  /\ S # {}
  /\ \E q \in InOrder(S) :
       Announce(j, [i \in 1 .. Cardinality(S) |-> ClearJob(q[i], p)])
  /\ portal' = [s \in Slot |-> IF s \in S THEN Clearing ELSE portal[s]]
  /\ stuck' = stuck \ S
  /\ bypassed' = bypassed \ {s \in S : ~InFlight(s)}
  /\ UNCHANGED <<queue, worker, emu, up, current, swap, rescue, quit>>

(***************************************************************************)
(* tick_kaos works on a copy of the mirror taken under the lock: one of    *)
(* the profile's Loaded figures and a library figure that is not placed.   *)
(***************************************************************************)
Placed == {portal[s].fig : s \in Slot}

SelectSwap(s, f, p) ==
  /\ swap = NoSwap
  /\ todo["kaos"] = <<>>
  /\ s \in OwnedBy(p)
  /\ portal[s].fig # NoFigure
  /\ f \notin Placed
  /\ swap' = [slot |-> s, fig |-> f, by |-> p]
  /\ UNCHANGED <<portal, todo, queue, worker, emu, up, current, rescue, quit,
                 stuck, bypassed>>

\* execute_kaos_swap marks the slot whatever it now holds, then clears and
\* loads it with two jobs.
ExecuteKaosSwap ==
  /\ swap # NoSwap
  /\ portal' = [portal EXCEPT ![swap.slot] = Loading(swap.fig, swap.by)]
  /\ todo' = [todo EXCEPT !["kaos"] = <<ClearJob(swap.slot, swap.by),
                                         LoadJob(swap.slot, swap.fig, swap.by)>>]
  /\ swap' = NoSwap
  /\ stuck' = stuck \ {swap.slot}
  /\ bypassed' = bypassed \cup {swap.slot}
  /\ UNCHANGED <<queue, worker, emu, up, current, rescue, quit>>

\* The replacement's working copy cannot be resolved: the swap is given up.
AbortKaosSwap ==
  /\ swap # NoSwap
  /\ swap' = NoSwap
  /\ UNCHANGED <<portal, todo, queue, worker, emu, up, current, rescue, quit,
                 stuck, bypassed>>
-----------------------------------------------------------------------------
(***************************************************************************)
(* The drivers. A call returns ok with the emulator changed, or fails: the *)
(* slot may then be untouched, emptied by the first half of a replacing    *)
(* load, or changed all the same when only the reply was lost. The         *)
(* emulator locks an opened file, so a file on the portal cannot be opened *)
(* again. The patched emulator assigns the first free slot and refuses to  *)
(* clear a vacant one.                                                     *)
(***************************************************************************)
Put(s, file) == [emu EXCEPT ![s] = file]

\* The slots that can receive a file: the named one, or the lowest vacant one.
Target(s) ==
  IF Driver = "uia" THEN {s}
  ELSE {x \in Slot : emu[x] = Vacant /\ \A y \in Slot : emu[y] = Vacant => x <= y}

\* Emulator states after a load that works, and after one that fails although
\* it could have worked; "uia" empties an occupied slot first.
LoadOk(s, file) ==
  {Put(x, file) : x \in {x \in Target(s) :
                           up /\ \A y \in Slot \ {x} : emu[y] # file}}

LoadFail(s, file) ==
  IF up /\ "load" \in Faults
  THEN {emu} \cup LoadOk(s, file) \cup (IF Driver = "uia" THEN {Put(s, Vacant)} ELSE {})
  ELSE IF LoadOk(s, file) # {} THEN {}
  ELSE IF up /\ Driver = "uia" THEN {Put(s, Vacant)} ELSE {emu}

ClearOk(s) ==
  IF up /\ (Driver = "uia" \/ emu[s] # Vacant) THEN {Put(s, Vacant)} ELSE {}

ClearFail(s) ==
  IF up /\ "clear" \in Faults THEN {emu, Put(s, Vacant)}
  ELSE IF ClearOk(s) = {} THEN {emu} ELSE {}

(***************************************************************************)
(* read_slots reports names without owners. reconcile_slot_names finds the *)
(* figure of a recognised name; the IPC driver reports the stem of the     *)
(* file, which for a working copy is not the figure's name.                *)
(***************************************************************************)
ReadBack(c) ==
  IF c = Vacant THEN Empty
  ELSE Loaded(IF c.fig \in Recognised /\ (Driver = "uia" \/ c.owner = NoProfile)
              THEN c.fig ELSE NoFigure, NoProfile)

\* What a read of the slots can return: nothing when it fails.
ReadOutcomes ==
  (IF up THEN {[s \in Slot |-> ReadBack(emu[s])]} ELSE {})
    \cup (IF ~up \/ "read" \in Faults THEN {NothingToWrite} ELSE {})
-----------------------------------------------------------------------------
(***************************************************************************)
(* The driver worker: one job at a time, the driver call outside every     *)
(* lock, its result written to the mirror in a later step.                 *)
(***************************************************************************)
Only(s, st)      == [NothingToWrite EXCEPT ![s] = st]
ToApply(s, st)   == [pc |-> "apply", slot |-> s, write |-> Only(s, st)]
ToSnapshot(w)    == [pc |-> "snapshot", slot |-> 0, write |-> w]
ToReread(s)      == [pc |-> "reread", slot |-> s, write |-> NothingToWrite]

Take(op) ==
  /\ worker.pc = "idle"
  /\ queue # <<>>
  /\ Head(queue).op = op
  /\ queue' = Tail(queue)

\* The worker records the figure at the slot the request named, whatever slot
\* the driver reports.
RunLoad ==
  /\ Take("load")
  /\ LET job == Head(queue)
         file == [fig |-> job.fig, owner |-> job.owner]
     IN  \/ /\ emu' \in LoadOk(job.slot, file)
            /\ worker' = ToApply(job.slot, Loaded(job.fig, job.owner))
         \/ /\ emu' \in LoadFail(job.slot, file)
            /\ worker' = ToReread(job.slot)
  /\ UNCHANGED <<portal, todo, up, current, swap, rescue, quit, stuck, bypassed>>

RunClear ==
  /\ Take("clear")
  /\ LET job == Head(queue)
     IN  \/ /\ emu' \in ClearOk(job.slot)
            /\ worker' = ToApply(job.slot, Empty)
         \/ /\ emu' \in ClearFail(job.slot)
            /\ worker' = ToReread(job.slot)
  /\ UNCHANGED <<portal, todo, up, current, swap, rescue, quit, stuck, bypassed>>

\* Mutant of RestoreAfterFailure: a failed call is taken to have changed nothing
\* but the mirror.
AssumeEmpty ==
  /\ worker.pc = "reread"
  /\ worker' = ToApply(worker.slot, Empty)
  /\ UNCHANGED <<portal, todo, queue, emu, up, current, swap, rescue, quit, stuck, bypassed>>

\* Mutant of RestoreAfterFailure: without a re-read the slot is left alone.
GiveUpSilently ==
  /\ worker.pc = "reread"
  /\ \E r \in ReadOutcomes :
       worker' = IF r = NothingToWrite THEN Idle ELSE ToApply(worker.slot, r[worker.slot])
  /\ UNCHANGED <<portal, todo, queue, emu, up, current, swap, rescue, quit, stuck, bypassed>>

\* restore_after_failure: the truth of the slot, Empty when it cannot be read.
RestoreAfterFailure ==
  /\ worker.pc = "reread"
  /\ \E r \in ReadOutcomes :
       \/ /\ r # NothingToWrite
          /\ worker' = ToApply(worker.slot, r[worker.slot])
          /\ UNCHANGED bypassed
       \/ /\ r = NothingToWrite
          /\ worker' = ToApply(worker.slot, Empty)
          /\ bypassed' = bypassed \cup {worker.slot}
  /\ UNCHANGED <<portal, todo, queue, emu, up, current, swap, rescue, quit, stuck>>

RunRefresh ==
  /\ Take("refresh")
  /\ \E r \in ReadOutcomes : worker' = ToSnapshot(r)
  /\ UNCHANGED <<portal, todo, emu, up, current, swap, rescue, quit, stuck, bypassed>>

Written == {s \in Slot : worker.write[s] # Keep}

\* set_and_broadcast, or the whole-portal write of a refresh; the latter also
\* overwrites slots that another job still has to settle.
ApplyResult ==
  /\ worker.pc \in {"apply", "snapshot"}
  /\ portal' = [s \in Slot |-> IF worker.write[s] = Keep THEN portal[s]
                                ELSE worker.write[s]]
  /\ worker' = Idle
  /\ stuck' = stuck \ Written
  /\ bypassed' = bypassed \cup {s \in Written : Announced(s) \/ Queued(s)}
  /\ UNCHANGED <<todo, queue, emu, up, current, swap, rescue, quit>>
-----------------------------------------------------------------------------
(***************************************************************************)
(* The emulator's life, as far as the portal depends on it. A boot runs on *)
(* the same worker, so jobs queued behind it reach a booted emulator.      *)
(***************************************************************************)
LaunchGame(r) ==
  /\ ~current
  /\ Announce(r, <<WholeJob("boot")>>)
  /\ UNCHANGED <<portal, queue, worker, emu, up, current, swap, rescue, quit,
                 stuck, bypassed>>

\* BootDirect: success replaces (and kills) whatever process was recorded, so
\* a second launch that was let through empties the portal of the first.
Boot(ok) ==
  \/ /\ ok
     /\ up' = TRUE /\ current' = TRUE /\ emu' = NoFiles
     /\ bypassed' = IF current THEN Slot ELSE bypassed
  \/ /\ ~ok /\ "boot" \in Faults
     /\ UNCHANGED <<up, current, emu, bypassed>>

RunBoot ==
  /\ Take("boot")
  /\ \E ok \in BOOLEAN : Boot(ok)
  /\ worker' = Idle
  /\ UNCHANGED <<portal, todo, swap, rescue, quit, stuck>>

RunReboot ==
  /\ Take("reboot")
  /\ \E ok \in BOOLEAN :
       /\ Boot(ok)
       /\ rescue' = IF ok THEN [rescue EXCEPT !.pc = "restore"]
                    ELSE IF rescue.tries < MaxRespawns
                    THEN [rescue EXCEPT !.pc = "boot"]
                    ELSE Watching
  /\ worker' = Idle
  /\ UNCHANGED <<portal, todo, swap, quit, stuck>>

\* RPCS3 dies, or hangs so that no driver call gets through any more.
Crash ==
  /\ "crash" \in Faults
  /\ up
  /\ up' = FALSE
  /\ emu' = NoFiles
  /\ UNCHANGED <<portal, todo, queue, worker, current, swap, rescue, quit,
                 stuck, bypassed>>

\* Both resets empty the mirror at once, Loading slots included.
ResetPortal ==
  /\ portal' = [s \in Slot |-> Empty]
  /\ stuck' = {}
  /\ bypassed' = bypassed \cup {s \in Slot : InFlight(s) \/ up}

QuitGame ==
  /\ "quit" \in Faults
  /\ quit = "no" /\ current
  /\ quit' = "covering"
  /\ UNCHANGED <<portal, todo, queue, worker, emu, up, current, swap, rescue,
                 stuck, bypassed>>

\* After the cover has landed, with no second look at what is running.
QuitKill ==
  /\ quit = "covering"
  /\ current' = FALSE
  /\ up' = FALSE /\ emu' = NoFiles
  /\ quit' = "killed"
  /\ UNCHANGED <<portal, todo, queue, worker, swap, rescue, stuck, bypassed>>

QuitReset ==
  /\ quit = "killed"
  /\ ResetPortal
  /\ quit' = "no"
  /\ UNCHANGED <<todo, queue, worker, emu, up, current, swap, rescue>>

\* The phone disconnects: the quit handler is dropped before the kill, or after
\* it (the kill itself goes on) with the mirror never reset.
DropQuit ==
  /\ "drop" \in Faults
  /\ quit # "no"
  /\ quit' = "no"
  /\ bypassed' = IF quit = "killed" THEN Slot ELSE bypassed
  /\ UNCHANGED <<portal, todo, queue, worker, emu, up, current, swap, rescue, stuck>>
-----------------------------------------------------------------------------
(***************************************************************************)
(* The supervisor (spawn_crash_watchdog): notices a dead emulator that     *)
(* nobody quit, remembers what was placed, resets the mirror, boots again  *)
(* through the worker and places the figures again.                        *)
(***************************************************************************)
PlacedFigures ==
  {[slot |-> s, fig |-> portal[s].fig, owner |-> portal[s].by] :
     s \in {x \in Slot : portal[x].kind = "Loaded" /\ portal[x].fig # NoFigure}}

NoticeCrash ==
  /\ rescue.pc = "watch"
  /\ todo["supervisor"] = <<>>
  /\ current /\ ~up
  /\ current' = FALSE
  /\ rescue' = [Watching EXCEPT !.pc = "noticed"]
  /\ UNCHANGED <<portal, todo, queue, worker, emu, up, swap, quit, stuck, bypassed>>

\* What is placed is remembered under the portal's lock, with the lifecycle's released.
RememberPlaced ==
  /\ rescue.pc = "noticed"
  /\ rescue' = [rescue EXCEPT !.pc = "reset", !.left = PlacedFigures]
  /\ UNCHANGED <<portal, todo, queue, worker, emu, up, current, swap, quit, stuck, bypassed>>

RescueReset ==
  /\ rescue.pc = "reset"
  /\ ResetPortal
  /\ rescue' = [rescue EXCEPT !.pc = "boot"]
  /\ UNCHANGED <<todo, queue, worker, emu, up, current, swap, quit>>

RescueBoot ==
  /\ rescue.pc = "boot" /\ rescue.tries < MaxRespawns
  /\ Len(queue) < QueueCap
  /\ queue' = Append(queue, WholeJob("reboot"))
  /\ rescue' = [rescue EXCEPT !.pc = "await", !.tries = @ + 1]
  /\ UNCHANGED <<portal, todo, worker, emu, up, current, swap, quit, stuck, bypassed>>

\* restore_portal_figures: the next slot in order. A figure without an owner has
\* no working copy and is skipped, as is one whose copy cannot be resolved; the
\* slot is marked whatever it now holds.
RestoreFigure ==
  /\ rescue.pc = "restore"
  /\ todo["supervisor"] = <<>>
  /\ \E x \in rescue.left :
       /\ \A y \in rescue.left : x.slot <= y.slot
       /\ rescue' = [rescue EXCEPT !.left = @ \ {x}]
       /\ \/ UNCHANGED <<portal, todo, stuck, bypassed>>
          \/ /\ x.owner # NoProfile
             /\ portal' = [portal EXCEPT ![x.slot] = Loading(x.fig, x.owner)]
             /\ todo' = [todo EXCEPT !["supervisor"] =
                           <<LoadJob(x.slot, x.fig, x.owner)>>]
             /\ stuck' = stuck \ {x.slot}
             /\ bypassed' = IF InFlight(x.slot) THEN bypassed \cup {x.slot}
                            ELSE bypassed \ {x.slot}
  /\ UNCHANGED <<queue, worker, emu, up, current, swap, quit>>

RestoreDone ==
  /\ rescue.pc = "restore"
  /\ todo["supervisor"] = <<>>
  /\ rescue.left = {}
  /\ rescue' = Watching
  /\ UNCHANGED <<portal, todo, queue, worker, emu, up, current, swap, quit,
                 stuck, bypassed>>
-----------------------------------------------------------------------------
Phones ==
  \E r \in Request :
    \/ \E s \in Slot :
         \/ ClearSlot(r, s)
         \/ \E f \in Figure, p \in Owner :
              LoadSlot(r, s, f, p) \/ ResetSlot(r, s, f, p) \/ ResetSlotFails(r, s, f, p)
    \/ RefreshPortal(r)
    \/ LaunchGame(r)
    \/ DropRequest(r)

Disconnects == \E j \in Janitor, p \in Profile : ClearSlotsForProfile(j, p)

Kaos ==
  \/ \E s \in Slot, f \in Figure, p \in KaosEnabled : SelectSwap(s, f, p)
  \/ ExecuteKaosSwap
  \/ AbortKaosSwap

Work == RunLoad \/ RunClear \/ RestoreAfterFailure \/ RunRefresh \/ ApplyResult
          \/ RunBoot \/ RunReboot

Quit == QuitGame \/ QuitKill \/ QuitReset \/ DropQuit

Rescue == NoticeCrash \/ RememberPlaced \/ RescueReset \/ RescueBoot
            \/ RestoreFigure \/ RestoreDone

Next ==
  \/ Phones
  \/ Disconnects
  \/ Kaos
  \/ \E t \in Task : Send(t)
  \/ Work
  \/ Crash
  \/ Quit
  \/ Rescue

Spec == Init /\ [][Next]_vars

\* Every task, the worker and the supervisor are tokio tasks: one that can go
\* on is polled again, and senders waiting for room in the channel are served
\* in their order. Phones, disconnects, crashes and quits owe nothing.
Fairness ==
  /\ \A t \in Task : SF_vars(Send(t))
  /\ WF_vars(Work)
  /\ WF_vars(Rescue)

FairSpec == Spec /\ Fairness
-----------------------------------------------------------------------------
(***************************************************************************)
(* Properties.                                                             *)
(***************************************************************************)
\* No spinner without a reason: a slot shown as Loading is accounted for by a
\* job that is announced, queued or being performed, or its job was lost in
\* one of the two ways the handlers have of losing it (a failed reset and a
\* handler dropped before it could send).
LoadingIsBacked ==
  \A s \in Slot : Busy(s) => InFlight(s) \/ s \in stuck

\* Why it holds after every step: a request has at most one job to lose, the
\* Kaos tick selects its next swap only when it has sent the jobs of the last.
RequestsAreShort == \A r \in Request : Len(todo[r]) <= 1
SwapWaits == swap # NoSwap => todo["kaos"] = <<>>
BackedInv == TypeOK /\ LoadingIsBacked /\ RequestsAreShort /\ SwapWaits

\* portal.rs: Loading means "A load or clear is in flight".
LoadingMeansInFlight == \A s \in Slot : Busy(s) => InFlight(s)

\* How many jobs a slot has before its mirror entry is settled.
JobsOf(s) ==
  Cardinality({x \in Task \X (1 .. SlotCount + 2) :
                 x[2] \in DOMAIN todo[x[1]] /\ For(todo[x[1]][x[2]], s)})
    + Cardinality({i \in DOMAIN queue : For(queue[i], s)})
    + (IF worker.pc # "snapshot" /\ Performing(s) THEN 1 ELSE 0)

\* The busy mark is a lock: unless something wrote past it, a slot with a job is
\* marked Loading and has no second job, whatever the handlers, cleanups and
\* the worker do in between.
BusyIsExclusive ==
  \A s \in Slot \ bypassed :
    /\ Announced(s) \/ Queued(s) => Busy(s)
    /\ JobsOf(s) <= 1

\* Why it holds after every step: the jobs of such a slot are one at most, wherever
\* it is on its way, and a task that announces a second one has marked the slot.
Working(s) == worker.pc # "snapshot" /\ Performing(s)
HasJob(s)  == Announced(s) \/ Queued(s) \/ Working(s)

OneAnnounced(s) ==
  \A t, u \in Task : \A i \in DOMAIN todo[t], k \in DOMAIN todo[u] :
    For(todo[t][i], s) /\ For(todo[u][k], s) => t = u /\ i = k
OneQueued(s) ==
  \A i, k \in DOMAIN queue : For(queue[i], s) /\ For(queue[k], s) => i = k
OneJob(s) ==
  /\ OneAnnounced(s) /\ OneQueued(s)
  /\ ~(Announced(s) /\ Queued(s))
  /\ ~(Announced(s) /\ Working(s))
  /\ ~(Queued(s) /\ Working(s))

ExclusiveInv ==
  /\ TypeOK
  /\ \A s \in Slot \ bypassed : OneJob(s) /\ (HasJob(s) => Busy(s))

\* The mirror tells the truth: while the emulator runs and no reset is due, a
\* settled slot that nothing wrote past shows what the emulator holds there
\* and, when it names an owner, the owner of that very file.
Shows(st, c) ==
  IF c = Vacant THEN st = Empty
  ELSE /\ st.kind = "Loaded"
       /\ st.fig \in {c.fig, NoFigure}
       /\ st.by \in {c.owner, NoProfile}

ResetDue == quit = "killed" \/ rescue.pc \in {"noticed", "reset"}

MirrorIsTrue ==
  up /\ ~ResetDue =>
    \A s \in Slot \ bypassed :
      ~Busy(s) /\ ~InFlight(s) => Shows(portal[s], emu[s])

\* Why it holds after every step: the worker is about to write the truth; one reset
\* is due for each death that ends a game; and only the supervisor's own restart,
\* one at a time, takes its recovery on.
MirrorShows ==
  (up \/ ~current) /\ ~ResetDue =>
    \A s \in Slot \ bypassed :
      /\ ~Busy(s) /\ ~InFlight(s) => Shows(portal[s], emu[s])
      /\ worker.pc \in {"apply", "snapshot"} /\ worker.write[s] # Keep =>
           Shows(worker.write[s], emu[s])

EmulatorKnown == (up => current) /\ (~up => emu = NoFiles)

RebootAwaited ==
  /\ \A i \in DOMAIN queue : queue[i].op = "reboot" => rescue.pc = "await"
  /\ \A i, k \in DOMAIN queue :
       queue[i].op = "reboot" /\ queue[k].op = "reboot" => i = k
  /\ \A t \in Task : \A i \in DOMAIN todo[t] : todo[t][i].op # "reboot"

MirrorInv == ExclusiveInv /\ MirrorShows /\ EmulatorKnown /\ RebootAwaited

\* A cleanup or a swap done on behalf of a player takes only that player's
\* figures off the portal.
ClearsOnlyOwnStep ==
  Len(queue') < Len(queue) =>
    LET job == Head(queue) IN
    job.op = "clear" /\ job.owner # NoProfile /\ job.slot \notin bypassed =>
      emu[job.slot] = Vacant \/ emu[job.slot].owner = job.owner

ClearsOnlyOwn == [][ClearsOnlyOwnStep]_vars

\* Why it holds after every step: an owner the mirror shows, or is about to show, is
\* the owner of the file, unless the worker is just changing that slot.
Owns(p, c) == c = Vacant \/ c.owner = p

OwnerShown ==
  \A s \in Slot :
    portal[s].kind = "Loaded" /\ portal[s].by # NoProfile /\ ~Working(s) =>
      Owns(portal[s].by, emu[s])

OwnerWritten ==
  worker.pc \in {"apply", "snapshot"} =>
    \A s \in Slot :
      worker.write[s] # Keep /\ worker.write[s].by # NoProfile =>
        worker.pc = "apply" /\ Owns(worker.write[s].by, emu[s])

MayClear(job) ==
  job.op = "clear" /\ job.owner # NoProfile /\ job.slot \notin bypassed =>
    Owns(job.owner, emu[job.slot])

ClearsOwned ==
  /\ \A t \in Task : \A i \in DOMAIN todo[t] : MayClear(todo[t][i])
  /\ \A i \in DOMAIN queue : MayClear(queue[i])

OwnersInv == ExclusiveInv /\ OwnerShown /\ OwnerWritten /\ ClearsOwned

\* Every spinner ends: a Loading slot settles, or is one whose job was lost.
SpinnerEnds == \A s \in Slot : Busy(s) /\ s \notin stuck ~> ~Busy(s) \/ s \in stuck
=============================================================================
