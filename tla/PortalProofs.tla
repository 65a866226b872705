---------------------------- MODULE PortalProofs ----------------------------
(***************************************************************************)
(* Theorems about the portal core, for every number of slots, figures,     *)
(* profiles, handlers and cleanups, every channel capacity, either driver  *)
(* and every set of environment events.                                    *)
(***************************************************************************)
EXTENDS Portal, FiniteSetTheorems, TLAPS

-----------------------------------------------------------------------------
(***************************************************************************)
(* The pieces a slot state, a job and a worker state are made of.          *)
(***************************************************************************)
\* A set of slots is finite, so a cleanup's job list has a length.
LEMMA SlotsFinite == \A S \in SUBSET Slot : Cardinality(S) \in Nat
<1>1. 0 \in Int /\ SlotCount - 1 \in Int
  BY PortalAssumption
<1>2. IsFiniteSet(Slot)
  BY <1>1, FS_Interval DEF Slot
<1>3. QED
  BY <1>2, FS_Subset, FS_CardinalityType

\* The constructors build well-typed slot states and jobs.
LEMMA ConstructorTypes ==
  /\ Empty \in Settled
  /\ Clearing \in SlotState
  /\ \A f \in Figure \cup {NoFigure}, p \in Owner :
       Loading(f, p) \in SlotState /\ Loaded(f, p) \in Settled
  /\ \A s \in Slot, f \in Figure, p \in Owner :
       LoadJob(s, f, p) \in Job /\ ClearJob(s, p) \in Job
  /\ \A s \in Slot, p \in Owner : ClearJob(s, p) \in Job
  /\ \A op \in {"refresh", "boot", "reboot"} : WholeJob(op) \in Job
  /\ \A c \in File \cup {Vacant} : ReadBack(c) \in Settled
BY PortalAssumption
   DEF Empty, Clearing, Loading, Loaded, Settled, SlotState, LoadJob, ClearJob,
       WholeJob, Job, SlotOp, Owner, Slot, ReadBack, File, Vacant

WorkerState == [pc : {"idle", "reread", "apply", "snapshot"}, slot : Slot,
                write : [Slot -> Settled \cup {Keep}]]

\* The worker's states, whatever it is about to write.
LEMMA WorkerTypes ==
  /\ Idle \in WorkerState
  /\ \A s \in Slot : ToReread(s) \in WorkerState
  /\ \A s \in Slot, st \in Settled : ToApply(s, st) \in WorkerState
  /\ \A w \in [Slot -> Settled \cup {Keep}] : ToSnapshot(w) \in WorkerState
BY PortalAssumption
   DEF Idle, ToReread, ToApply, ToSnapshot, Only, NothingToWrite, WorkerState, Slot

\* Every emulator state a driver call can leave behind.
LEMMA EmuTypes ==
  ASSUME emu \in [Slot -> File \cup {Vacant}],
         NEW s \in Slot, NEW file \in File
  PROVE  LoadOk(s, file) \cup LoadFail(s, file) \subseteq [Slot -> File \cup {Vacant}]
<1> DEFINE Emus == [Slot -> File \cup {Vacant}]
<1>1. \A x : \A c \in File \cup {Vacant} : Put(x, c) \in Emus
  BY DEF Put
<1>2. LoadOk(s, file) \subseteq Emus
  BY <1>1 DEF LoadOk
<1>3. LoadFail(s, file) \subseteq Emus
  BY <1>1, <1>2 DEF LoadFail
<1>4. QED
  BY <1>2, <1>3

LEMMA ClearTypes ==
  ASSUME emu \in [Slot -> File \cup {Vacant}], NEW s \in Slot
  PROVE  ClearOk(s) \cup ClearFail(s) \subseteq [Slot -> File \cup {Vacant}]
BY DEF ClearOk, ClearFail, Put

\* What a read of the slots returns can be written to the mirror.
LEMMA ReadTypes ==
  ASSUME emu \in [Slot -> File \cup {Vacant}]
  PROVE  /\ \A r \in ReadOutcomes : r \in [Slot -> Settled \cup {Keep}]
         /\ \A r \in ReadOutcomes : r # NothingToWrite =>
              \A s \in Slot : r[s] \in Settled
BY ConstructorTypes DEF ReadOutcomes, NothingToWrite

LEMMA TaskFacts ==
  /\ Request \subseteq Task /\ Janitor \subseteq Task
  /\ "kaos" \in Task /\ "supervisor" \in Task
BY DEF Task

\* The head and the rest of a job list.
LEMMA ListFacts ==
  \A q \in Seq(Job) : q # <<>> =>
    Head(q) \in Job /\ Tail(q) \in Seq(Job) /\ Len(Tail(q)) = Len(q) - 1
OBVIOUS

-----------------------------------------------------------------------------
(***************************************************************************)
(* Type correctness, one step per action.                                  *)
(***************************************************************************)
LEMMA TypeInit == Init => TypeOK
<1>1. Len(<<WholeJob("refresh")>>) = 1 /\ 1 <= QueueCap
  BY PortalAssumption
<1>2. WholeJob("refresh") \in Job /\ Empty \in SlotState
  BY ConstructorTypes DEF Settled
<1>3. Idle \in WorkerState
  BY WorkerTypes
<1>4. <<WholeJob("refresh")>> \in Seq(Job)
  BY <1>2
<1>5. Watching \in [pc : {"watch", "noticed", "reset", "boot", "await", "restore"},
                    tries : 0 .. MaxRespawns, left : SUBSET Rescued]
  BY PortalAssumption DEF Watching
<1>6. NoFiles \in [Slot -> File \cup {Vacant}]
  BY DEF NoFiles
<1>7. [t \in Task |-> <<>>] \in [Task -> Seq(Job)]
  OBVIOUS
<1>8. QED
  BY <1>1, <1>2, <1>3, <1>4, <1>5, <1>6, <1>7 DEF Init, TypeOK, WorkerState

LEMMA TypePhones == TypeOK /\ Phones => TypeOK'
<1> SUFFICES ASSUME TypeOK, Phones PROVE TypeOK'
  OBVIOUS
<1> PICK r \in Request :
      \/ \E s \in Slot :
           \/ ClearSlot(r, s)
           \/ \E f \in Figure, p \in Owner :
                LoadSlot(r, s, f, p) \/ ResetSlot(r, s, f, p) \/ ResetSlotFails(r, s, f, p)
      \/ RefreshPortal(r) \/ LaunchGame(r) \/ DropRequest(r)
  BY DEF Phones
<1> r \in Task
  BY TaskFacts
<1>1. ASSUME NEW s \in Slot, NEW st \in SlotState, NEW job \in Job,
             Mark(s, st), Announce(r, <<job>>),
             UNCHANGED <<queue, worker, emu, up, current, swap, rescue, quit>>
      PROVE  TypeOK'
  <2>1. portal' \in [Slot -> SlotState] /\ stuck' \subseteq Slot /\ bypassed' \subseteq Slot
    BY <1>1 DEF TypeOK, Mark
  <2>2. todo' \in [Task -> Seq(Job)]
    BY <1>1 DEF TypeOK, Announce
  <2>3. QED
    BY <1>1, <2>1, <2>2 DEF TypeOK
<1>2. ASSUME NEW s \in Slot, ClearSlot(r, s) PROVE TypeOK'
  <2>1. ClearJob(s, NoProfile) \in Job /\ Clearing \in SlotState
    BY ConstructorTypes DEF Owner
  <2>2. QED
    BY <1>1, <1>2, <2>1 DEF ClearSlot
<1>3. ASSUME NEW s \in Slot, NEW f \in Figure, NEW p \in Owner,
             LoadSlot(r, s, f, p) \/ ResetSlot(r, s, f, p)
      PROVE  TypeOK'
  <2>1. LoadJob(s, f, p) \in Job /\ Loading(f, p) \in SlotState
    BY ConstructorTypes
  <2>2. QED
    BY <1>1, <1>3, <2>1 DEF LoadSlot, ResetSlot
<1>4. ASSUME NEW s \in Slot, NEW f \in Figure, NEW p \in Owner,
             ResetSlotFails(r, s, f, p)
      PROVE  TypeOK'
  <2>1. Loading(f, p) \in SlotState
    BY ConstructorTypes
  <2>2. QED
    BY <1>4, <2>1 DEF ResetSlotFails, TypeOK
<1>5. ASSUME NEW op \in {"refresh", "boot"}, Announce(r, <<WholeJob(op)>>),
             UNCHANGED <<portal, queue, worker, emu, up, current, swap, rescue,
                         quit, stuck, bypassed>>
      PROVE  TypeOK'
  <2>1. WholeJob(op) \in Job
    BY ConstructorTypes
  <2>2. todo' \in [Task -> Seq(Job)]
    BY <1>5, <2>1 DEF TypeOK, Announce
  <2>3. QED
    BY <1>5, <2>2 DEF TypeOK
<1>6. CASE RefreshPortal(r)
  BY <1>5, <1>6 DEF RefreshPortal
<1>7. CASE LaunchGame(r)
  BY <1>5, <1>7 DEF LaunchGame
<1>8. CASE DropRequest(r)
  BY <1>8 DEF DropRequest, TypeOK
<1>9. QED
  BY <1>2, <1>3, <1>4, <1>6, <1>7, <1>8

LEMMA TypeDisconnects == TypeOK /\ Disconnects => TypeOK'
<1> SUFFICES ASSUME TypeOK, NEW j \in Janitor, NEW p \in Profile,
                    ClearSlotsForProfile(j, p)
             PROVE  TypeOK'
  BY DEF Disconnects
<1> DEFINE S == OwnedBy(p)
           n == Cardinality(S)
<1>1. S \in SUBSET Slot /\ n \in Nat
  BY SlotsFinite DEF OwnedBy
<1>2. PICK q \in InOrder(S) : Announce(j, [i \in 1 .. n |-> ClearJob(q[i], p)])
  BY DEF ClearSlotsForProfile
<1>3. \A i \in 1 .. n : ClearJob(q[i], p) \in Job
  BY <1>1, <1>2, ConstructorTypes DEF InOrder, Owner
<1>4. [i \in 1 .. n |-> ClearJob(q[i], p)] \in Seq(Job)
  BY <1>1, <1>3
<1>5. todo' \in [Task -> Seq(Job)]
  BY <1>2, <1>4 DEF Announce, TypeOK
<1>6. portal' \in [Slot -> SlotState]
  BY ConstructorTypes DEF ClearSlotsForProfile, TypeOK
<1>7. QED
  BY <1>5, <1>6 DEF ClearSlotsForProfile, TypeOK

LEMMA TypeKaos == TypeOK /\ Kaos => TypeOK'
<1> SUFFICES ASSUME TypeOK, Kaos PROVE TypeOK'
  OBVIOUS
<1>1. ASSUME NEW s \in Slot, NEW f \in Figure, NEW p \in KaosEnabled,
             SelectSwap(s, f, p)
      PROVE  TypeOK'
  <2>1. swap' \in Swap
    BY <1>1, PortalAssumption DEF SelectSwap, Swap
  <2>2. QED
    BY <1>1, <2>1 DEF SelectSwap, TypeOK
<1>2. CASE ExecuteKaosSwap
  <2>1. swap \in Swap
    BY <1>2 DEF ExecuteKaosSwap, TypeOK
  <2>2. swap.slot \in Slot /\ swap.fig \in Figure /\ swap.by \in Owner
    BY <2>1 DEF Swap, Owner
  <2>3. /\ Loading(swap.fig, swap.by) \in SlotState
        /\ ClearJob(swap.slot, swap.by) \in Job
        /\ LoadJob(swap.slot, swap.fig, swap.by) \in Job
    BY <2>2, ConstructorTypes
  <2>4. portal' \in [Slot -> SlotState]
    BY <1>2, <2>2, <2>3 DEF ExecuteKaosSwap, TypeOK
  <2> DEFINE jobs == <<ClearJob(swap.slot, swap.by),
                       LoadJob(swap.slot, swap.fig, swap.by)>>
  <2>a. jobs \in Seq(Job)
    BY <2>3
  <2>5. todo' \in [Task -> Seq(Job)]
    <3>1. todo' = [todo EXCEPT !["kaos"] = jobs]
      BY <1>2 DEF ExecuteKaosSwap
    <3> HIDE DEF jobs
    <3>2. QED
      BY <2>a, <3>1 DEF TypeOK
  <2>6. QED
    BY <1>2, <2>2, <2>4, <2>5 DEF ExecuteKaosSwap, TypeOK
<1>3. CASE AbortKaosSwap
  BY <1>3 DEF AbortKaosSwap, TypeOK
<1>4. QED
  BY <1>1, <1>2, <1>3 DEF Kaos

LEMMA TypeSend == ASSUME TypeOK, NEW t \in Task, Send(t) PROVE TypeOK'
<1>1. /\ todo[t] \in Seq(Job) /\ Head(todo[t]) \in Job
      /\ Tail(todo[t]) \in Seq(Job)
  BY ListFacts DEF Send, TypeOK
<1>2. todo' \in [Task -> Seq(Job)]
  BY <1>1 DEF Send, TypeOK
<1>3. queue' \in Seq(Job) /\ Len(queue') <= QueueCap
  BY <1>1, PortalAssumption DEF Send, TypeOK
<1>4. QED
  BY <1>2, <1>3 DEF Send, TypeOK

LEMMA TypeWork == TypeOK /\ Work => TypeOK'
<1> SUFFICES ASSUME TypeOK, Work PROVE TypeOK'
  OBVIOUS
<1>1. ASSUME NEW op, Take(op)
      PROVE  /\ Head(queue) \in Job
             /\ queue' \in Seq(Job) /\ Len(queue') <= QueueCap
  BY <1>1, ListFacts, PortalAssumption DEF Take, TypeOK
<1>2. CASE RunLoad
  <2> DEFINE job  == Head(queue)
             file == [fig |-> job.fig, owner |-> job.owner]
  <2>1. /\ job \in Job /\ job.op = "load"
        /\ queue' \in Seq(Job) /\ Len(queue') <= QueueCap
    BY <1>1, <1>2 DEF RunLoad, Take
  <2>2. job.slot \in Slot /\ job.fig \in Figure /\ job.owner \in Owner
    BY <2>1 DEF Job
  <2>3. /\ ToApply(job.slot, Loaded(job.fig, job.owner)) \in WorkerState
        /\ ToReread(job.slot) \in WorkerState
    BY <2>2, ConstructorTypes, WorkerTypes
  <2>4. worker' \in WorkerState
    BY <1>2, <2>3 DEF RunLoad
  <2>5. file \in File
    BY <2>2 DEF File
  <2>6. emu' \in LoadOk(job.slot, file) \cup LoadFail(job.slot, file)
    BY <1>2 DEF RunLoad
  <2>7. emu' \in [Slot -> File \cup {Vacant}]
    BY <2>2, <2>5, <2>6, EmuTypes DEF TypeOK
  <2>8. QED
    BY <1>2, <2>1, <2>4, <2>7 DEF RunLoad, TypeOK, WorkerState
<1>3. CASE RunClear
  <2> DEFINE job == Head(queue)
  <2>1. job \in Job /\ queue' \in Seq(Job) /\ Len(queue') <= QueueCap
    BY <1>1, <1>3 DEF RunClear
  <2>2. job.slot \in Slot
    BY <2>1 DEF Job
  <2>3. worker' \in WorkerState
    BY <1>3, <2>2, ConstructorTypes, WorkerTypes DEF RunClear
  <2>4. emu' \in ClearOk(job.slot) \cup ClearFail(job.slot)
    BY <1>3 DEF RunClear
  <2>5. emu' \in [Slot -> File \cup {Vacant}]
    <3>1. ClearOk(job.slot) \cup ClearFail(job.slot) \subseteq [Slot -> File \cup {Vacant}]
      BY <2>2, ClearTypes DEF TypeOK
    <3>2. QED
      BY <2>4, <3>1
  <2>6. QED
    BY <1>3, <2>1, <2>3, <2>5 DEF RunClear, TypeOK, WorkerState
<1>4. CASE RestoreAfterFailure
  <2>1. worker.slot \in Slot
    BY DEF TypeOK
  <2>2. worker' \in WorkerState
    BY <1>4, <2>1, ReadTypes, ConstructorTypes, WorkerTypes DEF RestoreAfterFailure, TypeOK
  <2>3. bypassed' \subseteq Slot
    BY <1>4, <2>1 DEF RestoreAfterFailure, TypeOK
  <2>4. QED
    BY <1>4, <2>2, <2>3 DEF RestoreAfterFailure, TypeOK, WorkerState
<1>5. CASE RunRefresh
  <2>1. queue' \in Seq(Job) /\ Len(queue') <= QueueCap
    BY <1>1, <1>5 DEF RunRefresh
  <2>2. worker' \in WorkerState
    BY <1>5, ReadTypes, WorkerTypes DEF RunRefresh, TypeOK
  <2>3. QED
    BY <1>5, <2>1, <2>2 DEF RunRefresh, TypeOK, WorkerState
<1>6. CASE ApplyResult
  <2>1. worker' \in WorkerState
    BY <1>6, WorkerTypes DEF ApplyResult
  <2>2. portal' \in [Slot -> SlotState]
    BY <1>6 DEF ApplyResult, TypeOK, Settled
  <2>3. stuck' \subseteq Slot /\ bypassed' \subseteq Slot
    BY <1>6 DEF ApplyResult, TypeOK, Written
  <2>4. QED
    BY <1>6, <2>1, <2>2, <2>3 DEF ApplyResult, TypeOK, WorkerState
<1>7. ASSUME NEW ok \in BOOLEAN, Boot(ok)
      PROVE  /\ up' \in BOOLEAN /\ current' \in BOOLEAN
             /\ emu' \in [Slot -> File \cup {Vacant}] /\ bypassed' \subseteq Slot
  BY <1>7 DEF Boot, TypeOK, NoFiles
<1>8. CASE RunBoot
  <2>1. queue' \in Seq(Job) /\ Len(queue') <= QueueCap
    BY <1>1, <1>8 DEF RunBoot
  <2>2. worker' \in WorkerState
    BY <1>8, WorkerTypes DEF RunBoot
  <2>3. QED
    BY <1>7, <1>8, <2>1, <2>2 DEF RunBoot, TypeOK, WorkerState
<1>9. CASE RunReboot
  <2>1. queue' \in Seq(Job) /\ Len(queue') <= QueueCap
    BY <1>1, <1>9 DEF RunReboot
  <2>2. worker' \in WorkerState
    BY <1>9, WorkerTypes DEF RunReboot
  <2>3. rescue' \in [pc : {"watch", "noticed", "reset", "boot", "await", "restore"},
                    tries : 0 .. MaxRespawns, left : SUBSET Rescued]
    <3>1. \/ rescue' = [rescue EXCEPT !.pc = "restore"]
          \/ rescue' = [rescue EXCEPT !.pc = "boot"]
          \/ rescue' = Watching
      BY <1>9 DEF RunReboot
    <3>2. CASE rescue' = [rescue EXCEPT !.pc = "restore"]
      BY <3>2 DEF TypeOK
    <3>3. CASE rescue' = [rescue EXCEPT !.pc = "boot"]
      BY <3>3 DEF TypeOK
    <3>4. CASE rescue' = Watching
      BY <3>4, PortalAssumption DEF Watching
    <3>5. QED
      BY <3>1, <3>2, <3>3, <3>4
  <2>4. QED
    BY <1>7, <1>9, <2>1, <2>2, <2>3 DEF RunReboot, TypeOK, WorkerState
<1>10. QED
  BY <1>2, <1>3, <1>4, <1>5, <1>6, <1>8, <1>9 DEF Work

LEMMA TypeCrashAndQuit == TypeOK /\ (Crash \/ Quit) => TypeOK'
<1> SUFFICES ASSUME TypeOK, Crash \/ Quit PROVE TypeOK'
  OBVIOUS
<1>1. NoFiles \in [Slot -> File \cup {Vacant}]
  BY DEF NoFiles
<1>2. ASSUME ResetPortal
      PROVE  /\ portal' \in [Slot -> SlotState]
             /\ stuck' \subseteq Slot /\ bypassed' \subseteq Slot
  BY <1>2, ConstructorTypes DEF ResetPortal, TypeOK, Settled
<1>3. QED
  BY <1>1, <1>2 DEF Crash, Quit, QuitGame, QuitKill, QuitReset, DropQuit, TypeOK

LEMMA TypeRescue == TypeOK /\ Rescue => TypeOK'
<1> SUFFICES ASSUME TypeOK, Rescue PROVE TypeOK'
  OBVIOUS
<1> DEFINE RescueState == [pc : {"watch", "noticed", "reset", "boot", "await", "restore"},
                           tries : 0 .. MaxRespawns, left : SUBSET Rescued]
<1>1. CASE NoticeCrash
  <2>1. rescue' \in RescueState
    BY <1>1, PortalAssumption DEF NoticeCrash, Watching
  <2>2. QED
    BY <1>1, <2>1 DEF NoticeCrash, TypeOK
<1>a. CASE RememberPlaced
  <2>1. PlacedFigures \in SUBSET Rescued
    BY <1>a DEF PlacedFigures, Rescued, TypeOK, SlotState
  <2>2. rescue' \in RescueState
    BY <1>a, <2>1 DEF RememberPlaced, TypeOK
  <2>3. QED
    BY <1>a, <2>2 DEF RememberPlaced, TypeOK
<1>2. CASE RescueReset
  <2>1. /\ portal' \in [Slot -> SlotState]
        /\ stuck' \subseteq Slot /\ bypassed' \subseteq Slot
    BY <1>2, ConstructorTypes DEF RescueReset, ResetPortal, TypeOK, Settled
  <2>2. QED
    BY <1>2, <2>1 DEF RescueReset, TypeOK
<1>3. CASE RescueBoot
  <2>1. WholeJob("reboot") \in Job
    BY ConstructorTypes
  <2>2. queue' \in Seq(Job) /\ Len(queue') <= QueueCap
    BY <1>3, <2>1, PortalAssumption DEF RescueBoot, TypeOK
  <2>3. rescue' \in RescueState
    <3>1. /\ rescue' = [rescue EXCEPT !.pc = "await", !.tries = rescue.tries + 1]
          /\ rescue.tries < MaxRespawns
      BY <1>3 DEF RescueBoot
    <3>2. rescue.tries + 1 \in 0 .. MaxRespawns
      BY <3>1, PortalAssumption DEF TypeOK
    <3>3. QED
      BY <3>1, <3>2 DEF TypeOK
  <2>4. QED
    BY <1>3, <2>2, <2>3 DEF RescueBoot, TypeOK
<1>4. CASE RestoreFigure
  <2>1. PICK x \in rescue.left :
          /\ rescue' = [rescue EXCEPT !.left = @ \ {x}]
          /\ \/ UNCHANGED <<portal, todo, stuck, bypassed>>
             \/ /\ portal' = [portal EXCEPT ![x.slot] = Loading(x.fig, x.owner)]
                /\ todo' = [todo EXCEPT !["supervisor"] =
                              <<LoadJob(x.slot, x.fig, x.owner)>>]
                /\ stuck' = stuck \ {x.slot}
                /\ bypassed' = IF InFlight(x.slot) THEN bypassed \cup {x.slot}
                               ELSE bypassed \ {x.slot}
    BY <1>4 DEF RestoreFigure
  <2>2. x.slot \in Slot /\ x.fig \in Figure /\ x.owner \in Owner
    BY <2>1 DEF TypeOK, Rescued
  <2>3. Loading(x.fig, x.owner) \in SlotState /\ LoadJob(x.slot, x.fig, x.owner) \in Job
    BY <2>2, ConstructorTypes
  <2>4. rescue' \in RescueState
    BY <2>1 DEF TypeOK
  <2>a. <<LoadJob(x.slot, x.fig, x.owner)>> \in Seq(Job)
    BY <2>3
  <2>b. portal' \in [Slot -> SlotState]
    BY <2>1, <2>3 DEF TypeOK
  <2> DEFINE jobs == <<LoadJob(x.slot, x.fig, x.owner)>>
  <2>c. todo' = todo \/ todo' = [todo EXCEPT !["supervisor"] = jobs]
    BY <2>1
  <2>d. jobs \in Seq(Job)
    BY <2>a
  <2>e. todo' \in [Task -> Seq(Job)]
    <3> HIDE DEF jobs
    <3>1. QED
      BY <2>c, <2>d DEF TypeOK
  <2>6. stuck' \subseteq Slot /\ bypassed' \subseteq Slot
    BY <2>1, <2>2 DEF TypeOK
  <2>7. QED
    BY <1>4, <2>4, <2>b, <2>e, <2>6 DEF RestoreFigure, TypeOK
<1>5. CASE RestoreDone
  BY <1>5, PortalAssumption DEF RestoreDone, TypeOK, Watching
<1>6. QED
  BY <1>1, <1>2, <1>3, <1>4, <1>5, <1>a DEF Rescue

LEMMA TypeNext == TypeOK /\ [Next]_vars => TypeOK'
<1> SUFFICES ASSUME TypeOK, [Next]_vars PROVE TypeOK'
  OBVIOUS
<1>1. CASE UNCHANGED vars
  BY <1>1 DEF TypeOK, vars
<1>2. QED
  BY <1>1, TypePhones, TypeDisconnects, TypeKaos, TypeSend, TypeWork,
     TypeCrashAndQuit, TypeRescue DEF Next

\* Every variable keeps its type: the mirror holds whole slot states, the
\* channel never exceeds its capacity, and the worker never has a Loading
\* state to write.
THEOREM TypeCorrect == Spec => []TypeOK
<1>1. QED
  BY TypeInit, TypeNext, PTL DEF Spec

-----------------------------------------------------------------------------
(***************************************************************************)
(* Every spinner is accounted for. BackedInv is the inductive invariant:   *)
(* beside LoadingIsBacked it says that a dropped request loses one job     *)
(* only, and that a Kaos swap never overwrites jobs of the previous one.   *)
(***************************************************************************)
LEMMA BackedInit == Init => BackedInv
<1> SUFFICES ASSUME Init PROVE BackedInv
  OBVIOUS
<1>1. TypeOK
  BY TypeInit
<1>2. LoadingIsBacked
  BY DEF Init, LoadingIsBacked, Busy, Empty
<1>3. RequestsAreShort /\ SwapWaits
  BY TaskFacts DEF Init, RequestsAreShort, SwapWaits
<1>4. QED
  BY <1>1, <1>2, <1>3 DEF BackedInv

\* A task without jobs that announces some loses nobody's announcement.
LEMMA AnnouncedGrows ==
  ASSUME todo \in [Task -> Seq(Job)], NEW t \in Task, todo[t] = <<>>,
         NEW jobs, todo' = [todo EXCEPT ![t] = jobs]
  PROVE  /\ \A s \in Slot : Announced(s) => Announced(s)'
         /\ \A s \in Slot : (\E i \in DOMAIN jobs : For(jobs[i], s)) => Announced(s)'
BY DEF Announced

\* A job that leaves the head of a list was the only one to go.
LEMMA HeadOrTail ==
  ASSUME NEW q \in Seq(Job), q # <<>>, NEW s \in Slot,
         NEW i \in DOMAIN q, For(q[i], s)
  PROVE  For(Head(q), s) \/ \E k \in DOMAIN Tail(q) : For(Tail(q)[k], s)
<1>1. CASE i = 1
  BY <1>1
<1>2. CASE i # 1
  <2>1. i - 1 \in DOMAIN Tail(q) /\ Tail(q)[i - 1] = q[i]
    BY <1>2
  <2>2. QED
    BY <2>1
<1>3. QED
  BY <1>1, <1>2

\* Adding a job to the channel keeps the ones queued before it.
LEMMA QueuedGrows ==
  ASSUME queue \in Seq(Job), NEW job \in Job, queue' = Append(queue, job)
  PROVE  /\ \A s \in Slot : Queued(s) => Queued(s)'
         /\ \A s \in Slot : For(job, s) => Queued(s)'
<1>1. ASSUME NEW s \in Slot, NEW i \in DOMAIN queue, For(queue[i], s)
      PROVE  Queued(s)'
  <2>1. i \in DOMAIN queue' /\ queue'[i] = queue[i]
    BY <1>1
  <2>2. QED
    BY <1>1, <2>1 DEF Queued
<1>2. ASSUME NEW s \in Slot, For(job, s) PROVE Queued(s)'
  <2>1. Len(queue) + 1 \in DOMAIN queue' /\ queue'[Len(queue) + 1] = job
    OBVIOUS
  <2>2. QED
    BY <1>2, <2>1 DEF Queued
<1>3. QED
  BY <1>1, <1>2 DEF Queued

\* Taking a job off the channel leaves every other one queued.
LEMMA QueuedTaken ==
  ASSUME queue \in Seq(Job), NEW op, Take(op), NEW s \in Slot, Queued(s)
  PROVE  Queued(s)' \/ For(Head(queue), s)
BY HeadOrTail DEF Take, Queued

\* A handler that marks a slot and announces the job it marked it for.
LEMMA BackedMark ==
  ASSUME BackedInv, NEW t \in Task, NEW s \in Slot, NEW st \in SlotState,
         NEW job \in Job, For(job, s),
         todo[t] = <<>>, todo' = [todo EXCEPT ![t] = <<job>>],
         portal' = [portal EXCEPT ![s] = st], stuck' = stuck \ {s},
         UNCHANGED <<queue, worker>>
  PROVE  LoadingIsBacked'
<1> SUFFICES ASSUME NEW x \in Slot, Busy(x)' PROVE InFlight(x)' \/ x \in stuck'
  BY DEF LoadingIsBacked
<1> DEFINE jobs == <<job>>
<1>1. /\ Announced(x) => Announced(x)'
      /\ (\E i \in DOMAIN jobs : For(jobs[i], x)) => Announced(x)'
  <2> todo' = [todo EXCEPT ![t] = jobs]
    OBVIOUS
  <2> HIDE DEF jobs
  <2> QED
    BY AnnouncedGrows DEF BackedInv, TypeOK
<1>2. CASE x = s
  <2>1. 1 \in DOMAIN jobs /\ jobs[1] = job
    OBVIOUS
  <2>2. QED
    BY <1>1, <1>2, <2>1 DEF InFlight
<1>3. CASE x # s
  <2>1. Busy(x) /\ (x \in stuck => x \in stuck')
    BY <1>3 DEF Busy, BackedInv, TypeOK
  <2>2. InFlight(x) \/ x \in stuck
    BY <2>1 DEF BackedInv, LoadingIsBacked
  <2>3. Queued(x) <=> Queued(x)'
    BY DEF Queued
  <2>4. Performing(x) <=> Performing(x)'
    BY DEF Performing
  <2>5. QED
    BY <1>1, <2>1, <2>2, <2>3, <2>4 DEF InFlight
<1>4. QED
  BY <1>2, <1>3

\* A step that leaves the mirror, the channel and the worker alone and loses no
\* announcement.
LEMMA BackedQuiet ==
  ASSUME BackedInv,
         \A s \in Slot : Announced(s) => Announced(s)',
         UNCHANGED <<portal, queue, worker, stuck>>
  PROVE  LoadingIsBacked'
BY DEF BackedInv, LoadingIsBacked, Busy, InFlight, Queued, Performing

LEMMA BackedPhones == BackedInv /\ Phones => LoadingIsBacked'
<1> SUFFICES ASSUME BackedInv, Phones PROVE LoadingIsBacked'
  OBVIOUS
<1> USE DEF BackedInv
<1> PICK r \in Request :
      \/ \E s \in Slot :
           \/ ClearSlot(r, s)
           \/ \E f \in Figure, p \in Owner :
                LoadSlot(r, s, f, p) \/ ResetSlot(r, s, f, p) \/ ResetSlotFails(r, s, f, p)
      \/ RefreshPortal(r) \/ LaunchGame(r) \/ DropRequest(r)
  BY DEF Phones
<1> r \in Task
  BY TaskFacts
<1>1. ASSUME NEW s \in Slot, ClearSlot(r, s) PROVE LoadingIsBacked'
  <2>1. ClearJob(s, NoProfile) \in Job /\ Clearing \in SlotState
    BY ConstructorTypes DEF Owner
  <2>2. For(ClearJob(s, NoProfile), s)
    BY DEF For, ClearJob, SlotOp
  <2>3. QED
    BY <1>1, <2>1, <2>2, BackedMark DEF ClearSlot, Mark, Announce
<1>2. ASSUME NEW s \in Slot, NEW f \in Figure, NEW p \in Owner,
             LoadSlot(r, s, f, p) \/ ResetSlot(r, s, f, p)
      PROVE  LoadingIsBacked'
  <2>1. LoadJob(s, f, p) \in Job /\ Loading(f, p) \in SlotState
    BY ConstructorTypes
  <2>2. For(LoadJob(s, f, p), s)
    BY DEF For, LoadJob, SlotOp
  <2>3. QED
    BY <1>2, <2>1, <2>2, BackedMark DEF LoadSlot, ResetSlot, Mark, Announce
<1>3. ASSUME NEW s \in Slot, NEW f \in Figure, NEW p \in Owner,
             ResetSlotFails(r, s, f, p)
      PROVE  LoadingIsBacked'
  BY <1>3 DEF ResetSlotFails, LoadingIsBacked, Busy, InFlight, Announced, Queued,
              Performing, TypeOK
<1>4. ASSUME NEW jobs, Announce(r, jobs), UNCHANGED <<portal, queue, worker, stuck>>
      PROVE  LoadingIsBacked'
  BY <1>4, AnnouncedGrows, BackedQuiet DEF Announce, TypeOK
<1>5. CASE RefreshPortal(r)
  BY <1>4, <1>5 DEF RefreshPortal
<1>6. CASE LaunchGame(r)
  BY <1>4, <1>6 DEF LaunchGame
<1>7. CASE DropRequest(r)
  <2> SUFFICES ASSUME NEW x \in Slot, Busy(x)' PROVE InFlight(x)' \/ x \in stuck'
    BY DEF LoadingIsBacked
  <2>1. Busy(x) /\ (InFlight(x) \/ x \in stuck)
    BY <1>7 DEF DropRequest, Busy, LoadingIsBacked
  <2>2. CASE x \in stuck \/ Queued(x) \/ Performing(x)
    BY <1>7, <2>2 DEF DropRequest, InFlight, Queued, Performing
  <2>3. CASE Announced(x)
    <3>1. PICK t \in Task : \E i \in DOMAIN todo[t] : For(todo[t][i], x)
      BY <2>3 DEF Announced
    <3>2. CASE t = r
      <4> DEFINE q == todo[r]
      <4>1. q \in Seq(Job) /\ q # <<>> /\ Len(q) <= 1
        BY <1>7 DEF DropRequest, TypeOK, RequestsAreShort
      <4>2. \E i \in DOMAIN q : For(q[i], x)
        BY <3>1, <3>2
      <4>a. For(Head(q), x)
        <5> HIDE DEF q
        <5>1. PICK i \in DOMAIN q : For(q[i], x)
          BY <4>2
        <5>2. i \in 1 .. Len(q) /\ Len(q) \in Nat
          BY <4>1, <5>1
        <5>3. i = 1 /\ Head(q) = q[1]
          BY <4>1, <5>2
        <5>4. QED
          BY <5>1, <5>3
      <4>3. QED
        BY <1>7, <2>1, <4>a DEF DropRequest
    <3>3. CASE t # r
      <4>1. todo'[t] = todo[t]
        BY <1>7, <3>3 DEF DropRequest, TypeOK
      <4>2. QED
        BY <3>1, <4>1 DEF InFlight, Announced
    <3>4. QED
      BY <3>2, <3>3
  <2>4. QED
    BY <2>1, <2>2, <2>3 DEF InFlight
<1>8. QED
  BY <1>1, <1>2, <1>3, <1>5, <1>6, <1>7

LEMMA BackedDisconnects == BackedInv /\ Disconnects => LoadingIsBacked'
<1> SUFFICES ASSUME BackedInv, NEW j \in Janitor, NEW p \in Profile,
                    ClearSlotsForProfile(j, p), NEW x \in Slot, Busy(x)'
             PROVE  InFlight(x)' \/ x \in stuck'
  BY DEF Disconnects, LoadingIsBacked
<1> USE DEF BackedInv
<1> DEFINE S == OwnedBy(p)
           n == Cardinality(S)
<1>1. PICK q \in InOrder(S) : Announce(j, [i \in 1 .. n |-> ClearJob(q[i], p)])
  BY DEF ClearSlotsForProfile
<1> DEFINE jobs == [i \in 1 .. n |-> ClearJob(q[i], p)]
<1>2. /\ Announced(x) => Announced(x)'
      /\ (\E i \in DOMAIN jobs : For(jobs[i], x)) => Announced(x)'
  <2>1. todo[j] = <<>> /\ todo' = [todo EXCEPT ![j] = jobs]
    BY <1>1 DEF Announce
  <2> HIDE DEF jobs
  <2>2. QED
    BY <2>1, AnnouncedGrows, TaskFacts DEF TypeOK
<1>3. CASE x \in S
  <2>1. PICK i \in 1 .. n : q[i] = x
    BY <1>1, <1>3 DEF InOrder
  <2>2. For(jobs[i], x)
    BY <2>1 DEF For, ClearJob, SlotOp
  <2>3. QED
    BY <1>2, <2>2 DEF InFlight
<1>4. CASE x \notin S
  <2>1. Busy(x) /\ (x \in stuck => x \in stuck')
    BY <1>4 DEF ClearSlotsForProfile, Busy
  <2>2. InFlight(x) \/ x \in stuck
    BY <2>1 DEF LoadingIsBacked
  <2>3. (Queued(x) => Queued(x)') /\ (Performing(x) => Performing(x)')
    BY DEF ClearSlotsForProfile, Queued, Performing
  <2>4. QED
    BY <1>2, <2>1, <2>2, <2>3 DEF InFlight
<1>5. QED
  BY <1>3, <1>4

LEMMA BackedKaos == BackedInv /\ Kaos => LoadingIsBacked'
<1> SUFFICES ASSUME BackedInv, Kaos PROVE LoadingIsBacked'
  OBVIOUS
<1> USE DEF BackedInv
<1>1. ASSUME NEW s \in Slot, NEW f \in Figure, NEW p \in KaosEnabled,
             SelectSwap(s, f, p)
      PROVE  LoadingIsBacked'
  BY <1>1, BackedQuiet DEF SelectSwap, Announced
<1>2. CASE AbortKaosSwap
  BY <1>2, BackedQuiet DEF AbortKaosSwap, Announced
<1>3. CASE ExecuteKaosSwap
  <2> DEFINE jobs == <<ClearJob(swap.slot, swap.by),
                       LoadJob(swap.slot, swap.fig, swap.by)>>
  <2> SUFFICES ASSUME NEW x \in Slot, Busy(x)' PROVE InFlight(x)' \/ x \in stuck'
    BY DEF LoadingIsBacked
  <2>1. todo["kaos"] = <<>> /\ todo' = [todo EXCEPT !["kaos"] = jobs]
    BY <1>3 DEF ExecuteKaosSwap, SwapWaits
  <2>2. /\ Announced(x) => Announced(x)'
        /\ (\E i \in DOMAIN jobs : For(jobs[i], x)) => Announced(x)'
    <3> HIDE DEF jobs
    <3>1. QED
      BY <2>1, AnnouncedGrows, TaskFacts DEF TypeOK
  <2>3. CASE x = swap.slot
    <3>1. 1 \in DOMAIN jobs /\ For(jobs[1], x)
      BY <2>3 DEF For, ClearJob, SlotOp
    <3>2. QED
      BY <2>2, <3>1 DEF InFlight
  <2>4. CASE x # swap.slot
    <3>1. Busy(x) /\ (x \in stuck => x \in stuck')
      BY <1>3, <2>4 DEF ExecuteKaosSwap, Busy, TypeOK
    <3>2. InFlight(x) \/ x \in stuck
      BY <3>1 DEF LoadingIsBacked
    <3>3. (Queued(x) => Queued(x)') /\ (Performing(x) => Performing(x)')
      BY <1>3 DEF ExecuteKaosSwap, Queued, Performing
    <3>4. QED
      BY <2>2, <3>1, <3>2, <3>3 DEF InFlight
  <2>5. QED
    BY <2>3, <2>4
<1>4. QED
  BY <1>1, <1>2, <1>3 DEF Kaos

LEMMA BackedSend ==
  ASSUME BackedInv, NEW t \in Task, Send(t)
  PROVE  LoadingIsBacked'
<1> USE DEF BackedInv
<1> SUFFICES ASSUME NEW x \in Slot, Busy(x)' PROVE InFlight(x)' \/ x \in stuck'
  BY DEF LoadingIsBacked
<1>1. Busy(x) /\ (InFlight(x) \/ x \in stuck)
  BY DEF Send, Busy, LoadingIsBacked
<1>2. /\ todo[t] \in Seq(Job) /\ todo[t] # <<>> /\ Head(todo[t]) \in Job
      /\ queue' = Append(queue, Head(todo[t]))
  BY ListFacts DEF Send, TypeOK
<1>3. (Queued(x) => Queued(x)') /\ (For(Head(todo[t]), x) => Queued(x)')
  BY <1>2, QueuedGrows DEF TypeOK
<1>4. Performing(x) => Performing(x)'
  BY DEF Send, Performing
<1>5. ASSUME Announced(x) PROVE InFlight(x)'
  <2>1. PICK u \in Task : \E i \in DOMAIN todo[u] : For(todo[u][i], x)
    BY <1>5 DEF Announced
  <2>2. CASE u # t
    <3>1. todo'[u] = todo[u]
      BY <2>2 DEF Send, TypeOK
    <3>2. QED
      BY <2>1, <3>1 DEF InFlight, Announced
  <2>3. CASE u = t
    <3>1. For(Head(todo[t]), x) \/ \E k \in DOMAIN Tail(todo[t]) : For(Tail(todo[t])[k], x)
      BY <1>2, <2>1, <2>3, HeadOrTail
    <3>2. todo'[t] = Tail(todo[t])
      BY DEF Send, TypeOK
    <3>3. QED
      BY <1>3, <3>1, <3>2 DEF InFlight, Announced
  <2>4. QED
    BY <2>2, <2>3
<1>6. QED
  BY <1>1, <1>3, <1>4, <1>5 DEF InFlight, Send

LEMMA BackedWork == BackedInv /\ Work => LoadingIsBacked'
<1> SUFFICES ASSUME BackedInv, Work, NEW x \in Slot, Busy(x)'
             PROVE  InFlight(x)' \/ x \in stuck'
  BY DEF LoadingIsBacked
<1> USE DEF BackedInv
<1>1. ASSUME NEW op, Take(op), UNCHANGED <<portal, todo, stuck>>,
             For(Head(queue), x) => Performing(x)'
      PROVE  InFlight(x)' \/ x \in stuck'
  <2>1. Busy(x) /\ (InFlight(x) \/ x \in stuck)
    BY <1>1 DEF Busy, LoadingIsBacked
  <2>2. ~Performing(x)
    BY <1>1 DEF Take, Performing
  <2>3. Queued(x) => Queued(x)' \/ For(Head(queue), x)
    BY <1>1, QueuedTaken DEF TypeOK
  <2>4. Announced(x) => Announced(x)'
    BY <1>1 DEF Announced
  <2>5. QED
    BY <1>1, <2>1, <2>2, <2>3, <2>4 DEF InFlight
<1>2. \A s \in Slot, st \in Settled :
        ToApply(s, st).write[s] # Keep /\ ToApply(s, st).pc = "apply"
  BY KeepAssumption DEF ToApply, Only, NothingToWrite, Settled
<1>3. ASSUME NEW op, Take(op) PROVE Head(queue) \in Job
  BY <1>3, ListFacts DEF Take, TypeOK
<1>4. CASE RunLoad
  <2> DEFINE job == Head(queue)
  <2>1. job \in Job /\ job.op = "load" /\ Take("load")
    BY <1>3, <1>4 DEF RunLoad, Take
  <2>2. job.slot \in Slot /\ Loaded(job.fig, job.owner) \in Settled
    BY <2>1, ConstructorTypes DEF Job
  <2>3. worker' = ToApply(job.slot, Loaded(job.fig, job.owner)) \/ worker' = ToReread(job.slot)
    BY <1>4 DEF RunLoad
  <2>4. For(job, x) => Performing(x)'
    BY <1>2, <2>2, <2>3 DEF For, Performing, ToReread
  <2>5. QED
    BY <1>1, <1>4, <2>1, <2>4 DEF RunLoad
<1>5. CASE RunClear
  <2> DEFINE job == Head(queue)
  <2>1. job \in Job /\ Take("clear")
    BY <1>3, <1>5 DEF RunClear
  <2>2. job.slot \in Slot /\ Empty \in Settled
    BY <2>1, ConstructorTypes DEF Job
  <2>3. worker' = ToApply(job.slot, Empty) \/ worker' = ToReread(job.slot)
    BY <1>5 DEF RunClear
  <2>4. For(job, x) => Performing(x)'
    BY <1>2, <2>2, <2>3 DEF For, Performing, ToReread
  <2>5. QED
    BY <1>1, <1>5, <2>1, <2>4 DEF RunClear
<1>6. CASE RestoreAfterFailure
  <2>1. Busy(x) /\ (InFlight(x) \/ x \in stuck)
    BY <1>6 DEF RestoreAfterFailure, Busy, LoadingIsBacked
  <2>2. worker.slot \in Slot /\ worker.pc = "reread"
    BY <1>6 DEF RestoreAfterFailure, TypeOK
  <2>3. \E st \in Settled : worker' = ToApply(worker.slot, st)
    BY <1>6, <2>2, ReadTypes, ConstructorTypes DEF RestoreAfterFailure, TypeOK
  <2>4. Performing(x) => Performing(x)'
    BY <1>2, <2>2, <2>3 DEF Performing
  <2>5. QED
    BY <1>6, <2>1, <2>4 DEF RestoreAfterFailure, InFlight, Announced, Queued
<1>7. ASSUME NEW op \in {"refresh", "boot", "reboot"}, Take(op)
      PROVE  ~For(Head(queue), x)
  BY <1>7 DEF Take, For, SlotOp
<1>8. CASE RunRefresh
  BY <1>1, <1>7, <1>8 DEF RunRefresh
<1>9. CASE RunBoot
  BY <1>1, <1>7, <1>9 DEF RunBoot
<1>10. CASE RunReboot
  BY <1>1, <1>7, <1>10 DEF RunReboot
<1>11. CASE ApplyResult
  <2>1. x \notin Written
    <3>1. SUFFICES ASSUME x \in Written PROVE FALSE
      OBVIOUS
    <3>2. portal'[x] = worker.write[x] /\ worker.write[x] \in Settled
      BY <1>11, <3>1 DEF ApplyResult, Written, TypeOK
    <3>3. QED
      BY <3>2 DEF Busy, Settled
  <2>2. worker.write[x] = Keep /\ Busy(x)
    BY <1>11, <2>1 DEF ApplyResult, Written, Busy
  <2>3. ~Performing(x)
    BY <1>11, <2>2 DEF ApplyResult, Performing
  <2>4. Announced(x) \/ Queued(x) \/ x \in stuck
    BY <2>2, <2>3 DEF LoadingIsBacked, InFlight
  <2>5. QED
    BY <1>11, <2>1, <2>4 DEF ApplyResult, InFlight, Announced, Queued
<1>12. QED
  BY <1>4, <1>5, <1>6, <1>8, <1>9, <1>10, <1>11 DEF Work

\* Nothing is left Loading by a reset of the mirror.
LEMMA BackedReset == ResetPortal => LoadingIsBacked'
BY DEF ResetPortal, LoadingIsBacked, Busy, Empty

LEMMA BackedCrashAndQuit == BackedInv /\ (Crash \/ Quit) => LoadingIsBacked'
<1> SUFFICES ASSUME BackedInv, Crash \/ Quit PROVE LoadingIsBacked'
  OBVIOUS
<1>1. CASE UNCHANGED <<portal, todo, queue, worker, stuck>>
  BY <1>1, BackedQuiet DEF Announced
<1>2. CASE QuitReset
  BY <1>2, BackedReset DEF QuitReset
<1>3. QED
  BY <1>1, <1>2 DEF Crash, Quit, QuitGame, QuitKill, DropQuit

LEMMA BackedRescue == BackedInv /\ Rescue => LoadingIsBacked'
<1> SUFFICES ASSUME BackedInv, Rescue PROVE LoadingIsBacked'
  OBVIOUS
<1> USE DEF BackedInv
<1>1. CASE UNCHANGED <<portal, todo, queue, worker, stuck>>
  BY <1>1, BackedQuiet DEF Announced
<1>2. CASE RescueReset
  BY <1>2, BackedReset DEF RescueReset
<1>3. CASE RescueBoot
  <2>1. WholeJob("reboot") \in Job
    BY ConstructorTypes
  <2>2. \A s \in Slot : Queued(s) => Queued(s)'
    BY <1>3, <2>1, QueuedGrows DEF RescueBoot, TypeOK
  <2>3. QED
    BY <1>3, <2>2 DEF RescueBoot, LoadingIsBacked, Busy, InFlight, Announced, Performing
<1>4. CASE RestoreFigure
  <2>1. PICK y \in rescue.left :
          \/ UNCHANGED <<portal, todo, stuck>>
          \/ /\ portal' = [portal EXCEPT ![y.slot] = Loading(y.fig, y.owner)]
             /\ todo' = [todo EXCEPT !["supervisor"] = <<LoadJob(y.slot, y.fig, y.owner)>>]
             /\ stuck' = stuck \ {y.slot}
    BY <1>4 DEF RestoreFigure
  <2>2. y.slot \in Slot /\ y.fig \in Figure /\ y.owner \in Owner
    BY <2>1 DEF TypeOK, Rescued
  <2>3. /\ Loading(y.fig, y.owner) \in SlotState
        /\ LoadJob(y.slot, y.fig, y.owner) \in Job
        /\ For(LoadJob(y.slot, y.fig, y.owner), y.slot)
    BY <2>2, ConstructorTypes DEF For, LoadJob, SlotOp
  <2>4. todo["supervisor"] = <<>> /\ UNCHANGED <<queue, worker>>
    BY <1>4 DEF RestoreFigure
  <2>5. CASE UNCHANGED <<portal, todo, stuck>>
    BY <2>4, <2>5, BackedQuiet DEF Announced
  <2>6. CASE ~UNCHANGED <<portal, todo, stuck>>
    BY <2>1, <2>2, <2>3, <2>4, <2>6, BackedMark, TaskFacts
  <2>7. QED
    BY <2>5, <2>6
<1>5. QED
  BY <1>1, <1>2, <1>3, <1>4 DEF Rescue, NoticeCrash, RememberPlaced, RestoreDone

\* Each request announces a single job, and only when it has none.
LEMMA ShortNext == BackedInv /\ [Next]_vars => RequestsAreShort'
<1> SUFFICES ASSUME BackedInv, [Next]_vars, NEW r \in Request
             PROVE  Len(todo'[r]) <= 1
  BY DEF RequestsAreShort
<1> USE DEF BackedInv
<1>1. r \in Task /\ todo[r] \in Seq(Job) /\ Len(todo[r]) <= 1
  BY TaskFacts DEF TypeOK, RequestsAreShort
<1>2. CASE todo'[r] = todo[r]
  BY <1>1, <1>2
<1>3. ASSUME NEW t \in Task, NEW jobs, t # r, todo' = [todo EXCEPT ![t] = jobs]
      PROVE  todo'[r] = todo[r]
  BY <1>1, <1>3 DEF TypeOK
<1>4. CASE Phones
  <2> PICK u \in Request :
        \/ \E s \in Slot :
             \/ ClearSlot(u, s)
             \/ \E f \in Figure, p \in Owner :
                  LoadSlot(u, s, f, p) \/ ResetSlot(u, s, f, p) \/ ResetSlotFails(u, s, f, p)
        \/ RefreshPortal(u) \/ LaunchGame(u) \/ DropRequest(u)
    BY <1>4 DEF Phones
  <2>1. \/ todo' = todo
        \/ todo' = [todo EXCEPT ![u] = <<>>]
        \/ \E job : todo' = [todo EXCEPT ![u] = <<job>>]
    BY DEF ClearSlot, LoadSlot, ResetSlot, ResetSlotFails, RefreshPortal, LaunchGame,
           DropRequest, Announce
  <2>2. CASE u = r
    <3>1. CASE todo' = todo
      BY <1>2, <3>1
    <3>2. CASE todo' = [todo EXCEPT ![u] = <<>>]
      <4>1. todo'[r] = <<>>
        BY <1>1, <2>2, <3>2 DEF TypeOK
      <4>2. QED
        BY <4>1
    <3>3. ASSUME NEW job, todo' = [todo EXCEPT ![u] = <<job>>] PROVE Len(todo'[r]) <= 1
      <4>1. todo'[r] = <<job>>
        BY <1>1, <2>2, <3>3 DEF TypeOK
      <4>2. Len(<<job>>) = 1
        OBVIOUS
      <4>3. QED
        BY <4>1, <4>2
    <3>4. QED
      BY <2>1, <3>1, <3>2, <3>3
  <2>3. CASE u # r
    BY <1>2, <1>3, <2>1, <2>3, TaskFacts
  <2>4. QED
    BY <2>2, <2>3
<1>5. CASE Disconnects
  <2>1. PICK j \in Janitor : \E jobs : todo' = [todo EXCEPT ![j] = jobs]
    BY <1>5 DEF Disconnects, ClearSlotsForProfile, Announce
  <2>2. j # r
    BY PortalAssumption
  <2>3. QED
    BY <1>2, <1>3, <2>1, <2>2, TaskFacts
<1>6. CASE Kaos
  <2>1. todo' = todo \/ \E jobs : todo' = [todo EXCEPT !["kaos"] = jobs]
    BY <1>6 DEF Kaos, SelectSwap, ExecuteKaosSwap, AbortKaosSwap
  <2>2. "kaos" # r
    BY PortalAssumption
  <2>3. QED
    BY <1>2, <1>3, <2>1, <2>2, TaskFacts
<1>7. ASSUME NEW t \in Task, Send(t) PROVE Len(todo'[r]) <= 1
  <2>1. CASE t = r
    <3>1. todo'[r] = Tail(todo[r]) /\ todo[r] # <<>>
      BY <1>7, <2>1 DEF Send, TypeOK
    <3>2. QED
      BY <1>1, <3>1, ListFacts
  <2>2. CASE t # r
    BY <1>2, <1>3, <1>7, <2>2 DEF Send
  <2>3. QED
    BY <2>1, <2>2
<1>8. CASE Work \/ Crash \/ Quit \/ UNCHANGED vars
  BY <1>2, <1>8 DEF Work, RunLoad, RunClear, RestoreAfterFailure, RunRefresh, ApplyResult,
     RunBoot, RunReboot, Crash, Quit, QuitGame, QuitKill, QuitReset, DropQuit, vars
<1>9. CASE Rescue
  <2>1. todo' = todo \/ \E jobs : todo' = [todo EXCEPT !["supervisor"] = jobs]
    BY <1>9 DEF Rescue, NoticeCrash, RememberPlaced, RescueReset, RescueBoot,
                RestoreFigure, RestoreDone
  <2>2. "supervisor" # r
    BY PortalAssumption
  <2>3. QED
    BY <1>2, <1>3, <2>1, <2>2, TaskFacts
<1>10. QED
  BY <1>4, <1>5, <1>6, <1>7, <1>8, <1>9 DEF Next

\* Only the Kaos tick announces Kaos jobs, when it takes the selected swap.
LEMMA SwapNext == BackedInv /\ [Next]_vars => SwapWaits'
<1> SUFFICES ASSUME BackedInv, [Next]_vars, swap' # NoSwap PROVE todo'["kaos"] = <<>>
  BY DEF SwapWaits
<1> USE DEF BackedInv
<1>1. CASE Kaos
  BY <1>1 DEF Kaos, SelectSwap, ExecuteKaosSwap, AbortKaosSwap
<1>2. ASSUME swap' = swap PROVE todo["kaos"] = <<>>
  BY <1>2 DEF SwapWaits
<1>3. ASSUME swap' = swap, NEW t \in Task, NEW jobs, t # "kaos",
             todo' = [todo EXCEPT ![t] = jobs]
      PROVE  todo'["kaos"] = <<>>
  BY <1>2, <1>3, TaskFacts DEF TypeOK
<1>4. \A t \in Request \cup Janitor : t # "kaos"
  BY PortalAssumption
<1>5. CASE Phones
  <2>1. PICK r \in Request : todo' = todo \/ \E jobs : todo' = [todo EXCEPT ![r] = jobs]
    BY <1>5 DEF Phones, ClearSlot, LoadSlot, ResetSlot, ResetSlotFails, RefreshPortal,
                LaunchGame, DropRequest, Announce
  <2>2. swap' = swap
    BY <1>5 DEF Phones, ClearSlot, LoadSlot, ResetSlot, ResetSlotFails, RefreshPortal,
                LaunchGame, DropRequest
  <2>3. QED
    BY <1>2, <1>3, <1>4, <2>1, <2>2, TaskFacts
<1>6. CASE Disconnects
  <2>1. PICK j \in Janitor : \E jobs : todo' = [todo EXCEPT ![j] = jobs]
    BY <1>6 DEF Disconnects, ClearSlotsForProfile, Announce
  <2>2. swap' = swap
    BY <1>6 DEF Disconnects, ClearSlotsForProfile
  <2>3. QED
    BY <1>3, <1>4, <2>1, <2>2, TaskFacts
<1>7. ASSUME NEW t \in Task, Send(t) PROVE todo'["kaos"] = <<>>
  <2>1. swap' = swap /\ todo[t] # <<>>
    BY <1>7 DEF Send
  <2>2. t # "kaos"
    BY <1>2, <2>1
  <2>3. QED
    BY <1>3, <1>7, <2>1, <2>2 DEF Send
<1>8. CASE Work \/ Crash \/ Quit \/ UNCHANGED vars
  <2>1. todo' = todo /\ swap' = swap
    BY <1>8 DEF Work, RunLoad, RunClear, RestoreAfterFailure, RunRefresh, ApplyResult,
       RunBoot, RunReboot, Crash, Quit, QuitGame, QuitKill, QuitReset, DropQuit, vars
  <2>2. QED
    BY <1>2, <2>1
<1>9. CASE Rescue
  <2>1. todo' = todo \/ \E jobs : todo' = [todo EXCEPT !["supervisor"] = jobs]
    BY <1>9 DEF Rescue, NoticeCrash, RememberPlaced, RescueReset, RescueBoot,
                RestoreFigure, RestoreDone
  <2>2. swap' = swap
    BY <1>9 DEF Rescue, NoticeCrash, RememberPlaced, RescueReset, RescueBoot,
                RestoreFigure, RestoreDone
  <2>3. "supervisor" # "kaos"
    OBVIOUS
  <2>4. QED
    BY <1>2, <1>3, <2>1, <2>2, <2>3, TaskFacts
<1>10. QED
  BY <1>1, <1>5, <1>6, <1>7, <1>8, <1>9 DEF Next

LEMMA BackedNext == BackedInv /\ [Next]_vars => BackedInv'
<1> SUFFICES ASSUME BackedInv, [Next]_vars PROVE BackedInv'
  OBVIOUS
<1>1. TypeOK'
  BY TypeNext DEF BackedInv
<1>2. CASE UNCHANGED vars
  BY <1>2 DEF BackedInv, LoadingIsBacked, Busy, InFlight, Announced, Queued, Performing,
              vars, RequestsAreShort, SwapWaits, TypeOK
<1>3. CASE Next
  <2>1. LoadingIsBacked'
    BY <1>3, BackedPhones, BackedDisconnects, BackedKaos, BackedSend, BackedWork,
       BackedCrashAndQuit, BackedRescue DEF Next
  <2>2. QED
    BY <1>1, <2>1, ShortNext, SwapNext DEF BackedInv
<1>4. QED
  BY <1>2, <1>3

\* No spinner without a reason, for every instance: a slot the phones see as
\* Loading has a job announced, queued or being performed, or lost it to a failed
\* reset or a dropped handler.
THEOREM BackedCorrect == Spec => []LoadingIsBacked
<1>1. BackedInv => LoadingIsBacked
  BY DEF BackedInv
<1>2. QED
  BY <1>1, BackedInit, BackedNext, PTL DEF Spec
-----------------------------------------------------------------------------
(***************************************************************************)
(* The busy mark is a lock. Every step of a slot's job is one of a few     *)
(* moves: it is announced, queued, taken, or written back.                 *)
(***************************************************************************)
\* What the tail of a list and a longer list hold.
LEMMA TailFacts ==
  ASSUME NEW q \in Seq(Job), q # <<>>
  PROVE  /\ Head(q) = q[1] /\ 1 \in DOMAIN q
         /\ \A k \in DOMAIN Tail(q) : k + 1 \in DOMAIN q /\ Tail(q)[k] = q[k + 1]
                                        /\ k \in Nat /\ k + 1 # 1
OBVIOUS

LEMMA AppendFacts ==
  ASSUME NEW q \in Seq(Job), NEW job \in Job, NEW i \in DOMAIN Append(q, job)
  PROVE  \/ i \in DOMAIN q /\ Append(q, job)[i] = q[i]
         \/ i = Len(q) + 1 /\ Append(q, job)[i] = job
OBVIOUS

\* A step that leaves every job where it is, or ends the worker's.
LEMMA JobsStay ==
  ASSUME UNCHANGED <<todo, queue>>, NEW x \in Slot, Working(x)' => Working(x), OneJob(x)
  PROVE  OneJob(x)' /\ (HasJob(x)' => HasJob(x))
BY DEF OneJob, OneAnnounced, OneQueued, Announced, Queued, HasJob

\* A step that loses jobs a task has announced.
LEMMA JobsDropped ==
  ASSUME TypeOK, NEW t \in Task, todo' = [todo EXCEPT ![t] = <<>>],
         UNCHANGED <<queue, worker>>, NEW x \in Slot, OneJob(x)
  PROVE  OneJob(x)' /\ (HasJob(x)' => HasJob(x))
<1>1. \A u \in Task : todo'[u] = IF u = t THEN <<>> ELSE todo[u]
  BY DEF TypeOK
<1>2. OneAnnounced(x)' /\ (Announced(x)' => Announced(x))
  BY <1>1 DEF OneJob, OneAnnounced, Announced
<1>3. OneQueued(x)' /\ (Queued(x)' <=> Queued(x)) /\ (Working(x)' <=> Working(x))
  BY DEF OneJob, OneQueued, Queued, Working, Performing
<1>4. QED
  BY <1>2, <1>3 DEF OneJob, HasJob

\* A task without jobs announces jobs of other slots.
LEMMA OthersAnnounced ==
  ASSUME TypeOK, NEW t \in Task, todo[t] = <<>>, NEW jobs,
         todo' = [todo EXCEPT ![t] = jobs], UNCHANGED <<queue, worker>>,
         NEW x \in Slot, \A i \in DOMAIN jobs : ~For(jobs[i], x), OneJob(x)
  PROVE  OneJob(x)' /\ (HasJob(x)' <=> HasJob(x))
<1>1. \A u \in Task : todo'[u] = IF u = t THEN jobs ELSE todo[u]
  BY DEF TypeOK
<1>2. OneAnnounced(x)'
  BY <1>1 DEF OneJob, OneAnnounced
<1>3. Announced(x)' <=> Announced(x)
  BY <1>1 DEF Announced
<1>4. OneQueued(x)' /\ (Queued(x)' <=> Queued(x)) /\ (Working(x)' <=> Working(x))
  BY DEF OneJob, OneQueued, Queued, Working, Performing
<1>5. QED
  BY <1>2, <1>3, <1>4 DEF OneJob, HasJob

\* A task without jobs announces the first job of a slot that has none.
LEMMA FirstAnnounced ==
  ASSUME TypeOK, NEW t \in Task, todo[t] = <<>>, NEW jobs,
         todo' = [todo EXCEPT ![t] = jobs], UNCHANGED <<queue, worker>>,
         NEW x \in Slot, ~HasJob(x),
         \A i, k \in DOMAIN jobs : For(jobs[i], x) /\ For(jobs[k], x) => i = k
  PROVE  OneJob(x)'
<1>1. \A u \in Task : todo'[u] = IF u = t THEN jobs ELSE todo[u]
  BY DEF TypeOK
<1>2. \A u \in Task : \A i \in DOMAIN todo[u] : ~For(todo[u][i], x)
  BY DEF HasJob, Announced
<1>3. OneAnnounced(x)'
  BY <1>1, <1>2 DEF OneAnnounced
<1>4. ~Queued(x)' /\ ~Working(x)' /\ OneQueued(x)'
  BY DEF HasJob, OneQueued, Queued, Working, Performing
<1>5. QED
  BY <1>3, <1>4 DEF OneJob

\* The head of a task's jobs moves into the channel.
LEMMA JobSent ==
  ASSUME TypeOK, NEW t \in Task, Send(t), NEW x \in Slot, OneJob(x)
  PROVE  OneJob(x)' /\ (HasJob(x)' => HasJob(x))
<1> DEFINE q == todo[t]
           h == Head(q)
<1>1. /\ q \in Seq(Job) /\ q # <<>> /\ h \in Job
      /\ queue \in Seq(Job) /\ queue' = Append(queue, h)
      /\ todo' = [todo EXCEPT ![t] = Tail(q)]
      /\ worker' = worker
  BY ListFacts DEF Send, TypeOK
<1>2. /\ Head(q) = q[1] /\ 1 \in DOMAIN q
      /\ \A k \in DOMAIN Tail(q) : k + 1 \in DOMAIN q /\ Tail(q)[k] = q[k + 1]
                                     /\ k \in Nat /\ k + 1 # 1
  BY <1>1, TailFacts
<1>3. \A i \in DOMAIN queue' : \/ i \in DOMAIN queue /\ queue'[i] = queue[i]
                               \/ i = Len(queue) + 1 /\ queue'[i] = h
  BY <1>1, AppendFacts
<1>4. \A u \in Task : todo'[u] = IF u = t THEN Tail(q) ELSE todo[u]
  BY <1>1 DEF TypeOK
<1>5. Working(x)' <=> Working(x)
  BY <1>1 DEF Working, Performing
<1> HIDE DEF q, h
<1>6. Announced(x)' => Announced(x)
  <2> SUFFICES ASSUME NEW u \in Task, NEW i \in DOMAIN todo'[u], For(todo'[u][i], x)
               PROVE  Announced(x)
    BY Zenon DEF Announced
  <2>1. CASE u = t
    <3>1. i + 1 \in DOMAIN todo[t] /\ For(todo[t][i + 1], x)
      BY <1>2, <1>4, <2>1 DEF q
    <3>2. QED
      BY <3>1, Zenon DEF Announced
  <2>2. CASE u # t
    <3>1. i \in DOMAIN todo[u] /\ For(todo[u][i], x)
      BY <1>4, <2>2
    <3>2. QED
      BY <3>1, Zenon DEF Announced
  <2>3. QED
    BY <2>1, <2>2
<1>7. OneAnnounced(x)'
  <2> SUFFICES ASSUME NEW u \in Task, NEW v \in Task,
                      NEW i \in DOMAIN todo'[u], NEW k \in DOMAIN todo'[v],
                      For(todo'[u][i], x), For(todo'[v][k], x)
               PROVE  u = v /\ i = k
    BY DEF OneAnnounced
  <2> OneAnnounced(x)
    BY DEF OneJob
  <2>1. CASE u = t /\ v = t
    <3>1. /\ i + 1 \in DOMAIN todo[t] /\ For(todo[t][i + 1], x) /\ i \in Nat
          /\ k + 1 \in DOMAIN todo[t] /\ For(todo[t][k + 1], x) /\ k \in Nat
      BY <1>2, <1>4, <2>1 DEF q
    <3>2. i + 1 = k + 1
      BY <3>1 DEF OneAnnounced
    <3>3. QED
      BY <2>1, <3>1, <3>2
  <2>2. CASE u # t /\ v # t
    BY <1>4, <2>2 DEF OneAnnounced
  <2>3. CASE u = t /\ v # t
    BY <1>2, <1>4, <2>3 DEF OneAnnounced, q
  <2>4. CASE u # t /\ v = t
    BY <1>2, <1>4, <2>4 DEF OneAnnounced, q
  <2>5. QED
    BY <2>1, <2>2, <2>3, <2>4
<1>8. CASE For(h, x)
  <2>1. Announced(x) /\ OneAnnounced(x) /\ ~Queued(x) /\ ~Working(x)
    BY <1>2, <1>8 DEF Announced, OneJob, q, h
  <2>2. ~Announced(x)'
    <3> SUFFICES ASSUME NEW u \in Task, NEW i \in DOMAIN todo'[u], For(todo'[u][i], x)
                 PROVE  FALSE
      BY DEF Announced
    <3>1. CASE u = t
      <4>1. i + 1 \in DOMAIN todo[t] /\ For(todo[t][i + 1], x) /\ i + 1 # 1
        BY <1>2, <1>4, <3>1 DEF q
      <4>2. 1 \in DOMAIN todo[t] /\ For(todo[t][1], x)
        BY <1>2, <1>8 DEF q, h
      <4>3. QED
        BY <2>1, <4>1, <4>2 DEF OneAnnounced
    <3>2. CASE u # t
      BY <1>2, <1>4, <1>8, <2>1, <3>2 DEF OneAnnounced, q, h
    <3>3. QED
      BY <3>1, <3>2
  <2>3. OneQueued(x)'
    BY <1>3, <2>1 DEF OneQueued, Queued
  <2>4. QED
    BY <1>5, <1>7, <2>1, <2>2, <2>3 DEF OneJob, HasJob
<1>9. CASE ~For(h, x)
  <2>1. OneQueued(x)' /\ (Queued(x)' => Queued(x))
    BY <1>3, <1>9 DEF OneJob, OneQueued, Queued
  <2>2. QED
    BY <1>5, <1>6, <1>7, <2>1 DEF OneJob, HasJob
<1>10. QED
  BY <1>8, <1>9

\* The worker takes the head of the channel.
LEMMA JobTaken ==
  ASSUME TypeOK, NEW op, Take(op), todo' = todo, NEW x \in Slot, OneJob(x),
         Working(x)' => For(Head(queue), x)
  PROVE  OneJob(x)' /\ (HasJob(x)' => HasJob(x))
<1>1. /\ queue \in Seq(Job) /\ queue # <<>> /\ queue' = Tail(queue) /\ worker.pc = "idle"
  BY DEF Take, TypeOK
<1>2. /\ Head(queue) = queue[1] /\ 1 \in DOMAIN queue
      /\ \A k \in DOMAIN Tail(queue) :
           k + 1 \in DOMAIN queue /\ Tail(queue)[k] = queue[k + 1] /\ k \in Nat /\ k + 1 # 1
  BY <1>1, TailFacts
<1>3. OneAnnounced(x)' /\ (Announced(x)' <=> Announced(x))
  BY DEF OneJob, OneAnnounced, Announced
<1>4. OneQueued(x)' /\ (Queued(x)' => Queued(x))
  <2>1. Queued(x)' => Queued(x)
    BY <1>1, <1>2 DEF Queued
  <2>2. ASSUME NEW i \in DOMAIN queue', NEW k \in DOMAIN queue',
               For(queue'[i], x), For(queue'[k], x)
        PROVE  i = k
    <3>1. i + 1 = k + 1
      BY <1>1, <1>2, <2>2 DEF OneJob, OneQueued
    <3>2. QED
      BY <1>1, <1>2, <3>1
  <2>3. QED
    BY <2>1, <2>2 DEF OneQueued
<1>5. CASE For(Head(queue), x)
  <2>1. Queued(x)
    BY <1>2, <1>5 DEF Queued
  <2>2. ~Queued(x)'
    BY <1>1, <1>2, <1>5 DEF OneJob, OneQueued, Queued
  <2>3. QED
    BY <1>3, <1>4, <2>1, <2>2 DEF OneJob, HasJob
<1>6. CASE ~For(Head(queue), x)
  BY <1>3, <1>4, <1>6 DEF OneJob, HasJob
<1>7. QED
  BY <1>5, <1>6

\* What ExclusiveInv says of one slot.
Exclusive(x) == OneJob(x) /\ (HasJob(x) => Busy(x))

\* A slot that keeps its mark, or has no job left.
LEMMA StaysExclusive ==
  ASSUME ExclusiveInv, NEW x \in Slot \ bypassed,
         OneJob(x)', HasJob(x)' => HasJob(x), HasJob(x)' /\ Busy(x) => Busy(x)'
  PROVE  Exclusive(x)'
BY DEF ExclusiveInv, Exclusive

\* A task announces jobs: of other slots, or the only one of a slot that it marks.
LEMMA ExclusiveAnnounce ==
  ASSUME ExclusiveInv, NEW t \in Task, NEW jobs, todo[t] = <<>>,
         todo' = [todo EXCEPT ![t] = jobs], UNCHANGED <<queue, worker>>,
         NEW x \in Slot,
         \A i, k \in DOMAIN jobs : For(jobs[i], x) /\ For(jobs[k], x) => i = k,
         \/ /\ \A i \in DOMAIN jobs : ~For(jobs[i], x)
            /\ x \notin bypassed /\ (Busy(x) => Busy(x)')
         \/ Busy(x)' /\ (~InFlight(x) \/ (~Busy(x) /\ x \notin bypassed))
  PROVE  Exclusive(x)'
<1>1. TypeOK
  BY DEF ExclusiveInv
<1>2. CASE /\ \A i \in DOMAIN jobs : ~For(jobs[i], x)
           /\ x \notin bypassed /\ (Busy(x) => Busy(x)')
  <2>1. OneJob(x)
    BY <1>2 DEF ExclusiveInv
  <2>2. QED
    BY <1>1, <1>2, <2>1, OthersAnnounced, StaysExclusive
<1>3. CASE Busy(x)' /\ (~InFlight(x) \/ (~Busy(x) /\ x \notin bypassed))
  <2>1. ~HasJob(x)
    BY <1>3 DEF ExclusiveInv, HasJob, InFlight, Working
  <2>2. QED
    BY <1>1, <1>3, <2>1, FirstAnnounced DEF Exclusive
<1>4. QED
  BY <1>2, <1>3

\* A list of one job of s.
LEMMA SingleJob ==
  ASSUME NEW job, NEW s \in Slot, NEW x \in Slot, For(job, s)
  PROVE  /\ \A i, k \in DOMAIN <<job>> : For(<<job>>[i], x) /\ For(<<job>>[k], x) => i = k
         /\ x # s => \A i \in DOMAIN <<job>> : ~For(<<job>>[i], x)
BY DEF For

\* A handler marks a slot and announces its job.
LEMMA ExclusiveMark ==
  ASSUME ExclusiveInv, NEW t \in Task, NEW s \in Slot, NEW st \in SlotState,
         st.kind = "Loading", Mark(s, st), NEW job, For(job, s), Announce(t, <<job>>),
         UNCHANGED <<queue, worker>>, NEW x \in Slot \ bypassed'
  PROVE  Exclusive(x)'
<1>1. portal' = [portal EXCEPT ![s] = st] /\ ~Busy(s) /\ portal \in [Slot -> SlotState]
  BY DEF Mark, ExclusiveInv, TypeOK
<1> DEFINE jobs == <<job>>
<1>2. todo[t] = <<>> /\ todo' = [todo EXCEPT ![t] = jobs]
  BY DEF Announce
<1>3. /\ \A i, k \in DOMAIN jobs : For(jobs[i], x) /\ For(jobs[k], x) => i = k
      /\ x # s => \A i \in DOMAIN jobs : ~For(jobs[i], x)
  BY SingleJob
<1> HIDE DEF jobs
<1>4. CASE x = s
  <2>1. Busy(x)'
    BY <1>1, <1>4 DEF Busy
  <2>2. ~InFlight(x) \/ x \notin bypassed
    BY <1>4 DEF Mark
  <2>3. QED
    BY <1>1, <1>2, <1>3, <1>4, <2>1, <2>2, ExclusiveAnnounce
<1>5. CASE x # s
  <2>1. x \notin bypassed /\ (Busy(x) => Busy(x)')
    BY <1>1, <1>5 DEF Mark, Busy
  <2>2. QED
    BY <1>2, <1>3, <1>5, <2>1, ExclusiveAnnounce
<1>6. QED
  BY <1>4, <1>5

\* A step that leaves every job, and every mark on a slot that has one, where it is.
LEMMA ExclusiveQuiet ==
  ASSUME ExclusiveInv, UNCHANGED <<todo, queue, worker>>,
         NEW x \in Slot \ bypassed, HasJob(x) /\ Busy(x) => Busy(x)'
  PROVE  Exclusive(x)'
<1>1. Working(x)' <=> Working(x)
  BY DEF Working, Performing
<1>2. OneJob(x)
  BY DEF ExclusiveInv
<1>3. QED
  BY <1>1, <1>2, JobsStay, StaysExclusive

LEMMA ExclusivePhones ==
  ASSUME ExclusiveInv, Phones, NEW x \in Slot \ bypassed' PROVE Exclusive(x)'
<1> PICK r \in Request :
      \/ \E s \in Slot :
           \/ ClearSlot(r, s)
           \/ \E f \in Figure, p \in Owner :
                LoadSlot(r, s, f, p) \/ ResetSlot(r, s, f, p) \/ ResetSlotFails(r, s, f, p)
      \/ RefreshPortal(r) \/ LaunchGame(r) \/ DropRequest(r)
  BY DEF Phones
<1> r \in Task /\ TypeOK
  BY TaskFacts DEF ExclusiveInv
<1>1. ASSUME NEW s \in Slot, ClearSlot(r, s) PROVE Exclusive(x)'
  <2>1. Clearing \in SlotState /\ Clearing.kind = "Loading" /\ For(ClearJob(s, NoProfile), s)
    BY ConstructorTypes DEF Clearing, Loading, For, ClearJob, SlotOp
  <2>2. QED
    BY <1>1, <2>1, ExclusiveMark DEF ClearSlot
<1>2. ASSUME NEW s \in Slot, NEW f \in Figure, NEW p \in Owner,
             LoadSlot(r, s, f, p) \/ ResetSlot(r, s, f, p)
      PROVE  Exclusive(x)'
  <2>1. /\ Loading(f, p) \in SlotState /\ Loading(f, p).kind = "Loading"
        /\ For(LoadJob(s, f, p), s)
    BY ConstructorTypes DEF Loading, For, LoadJob, SlotOp
  <2>2. QED
    BY <1>2, <2>1, ExclusiveMark DEF LoadSlot, ResetSlot
<1>3. ASSUME NEW s \in Slot, NEW f \in Figure, NEW p \in Owner,
             ResetSlotFails(r, s, f, p)
      PROVE  Exclusive(x)'
  <2>1. x \notin bypassed /\ (Busy(x) => Busy(x)')
    BY <1>3 DEF ResetSlotFails, Busy, Loading, TypeOK
  <2>2. QED
    BY <1>3, <2>1, ExclusiveQuiet DEF ResetSlotFails
<1>4. ASSUME NEW op \in {"refresh", "boot"}, Announce(r, <<WholeJob(op)>>),
             UNCHANGED <<portal, queue, worker, bypassed>>
      PROVE  Exclusive(x)'
  <2> DEFINE jobs == <<WholeJob(op)>>
  <2>1. \A i \in DOMAIN jobs : ~For(jobs[i], x)
    BY DEF For, WholeJob, SlotOp
  <2>2. todo[r] = <<>> /\ todo' = [todo EXCEPT ![r] = jobs]
    BY <1>4 DEF Announce
  <2>3. x \notin bypassed /\ (Busy(x) => Busy(x)')
    BY <1>4 DEF Busy
  <2> HIDE DEF jobs
  <2>4. QED
    BY <1>4, <2>1, <2>2, <2>3, ExclusiveAnnounce
<1>5. CASE RefreshPortal(r) \/ LaunchGame(r)
  BY <1>4, <1>5 DEF RefreshPortal, LaunchGame
<1>6. CASE DropRequest(r)
  <2>1. /\ todo' = [todo EXCEPT ![r] = <<>>]
        /\ x \notin bypassed /\ (Busy(x) => Busy(x)')
    BY <1>6 DEF DropRequest, Busy
  <2>2. OneJob(x)
    BY <2>1 DEF ExclusiveInv
  <2>3. QED
    BY <1>6, <2>1, <2>2, JobsDropped, StaysExclusive DEF DropRequest
<1>7. QED
  BY <1>1, <1>2, <1>3, <1>5, <1>6

LEMMA ExclusiveDisconnects ==
  ASSUME ExclusiveInv, Disconnects, NEW x \in Slot \ bypassed' PROVE Exclusive(x)'
<1> PICK j \in Janitor, p \in Profile : ClearSlotsForProfile(j, p)
  BY DEF Disconnects
<1> DEFINE S == OwnedBy(p)
           n == Cardinality(S)
<1>1. PICK q \in InOrder(S) : Announce(j, [i \in 1 .. n |-> ClearJob(q[i], p)])
  BY DEF ClearSlotsForProfile
<1> DEFINE jobs == [i \in 1 .. n |-> ClearJob(q[i], p)]
<1>2. /\ j \in Task /\ todo[j] = <<>> /\ todo' = [todo EXCEPT ![j] = jobs]
      /\ UNCHANGED <<queue, worker>>
  BY <1>1, TaskFacts DEF Announce, ClearSlotsForProfile
<1>3. n \in Nat /\ q \in [1 .. n -> S]
  BY <1>1, SlotsFinite DEF InOrder, OwnedBy
<1>4. \A i \in 1 .. n : For(jobs[i], x) <=> q[i] = x
  BY DEF For, ClearJob, SlotOp
<1>5. \A i, k \in DOMAIN jobs : For(jobs[i], x) /\ For(jobs[k], x) => i = k
  <2>1. \A i, k \in 1 .. n : i < k => q[i] < q[k]
    BY <1>1 DEF InOrder
  <2>2. x \in Int /\ DOMAIN jobs = 1 .. n
    BY PortalAssumption DEF Slot
  <2>3. QED
    BY <1>3, <1>4, <2>1, <2>2
<1> HIDE DEF jobs
<1>6. CASE x \in S
  <2>1. Busy(x)'
    BY <1>6 DEF ClearSlotsForProfile, Busy, Clearing, Loading
  <2>2. ~InFlight(x) \/ (x \notin bypassed /\ ~Busy(x))
    BY <1>6 DEF ClearSlotsForProfile, OwnedBy, Busy
  <2>3. QED
    BY <1>2, <1>5, <2>1, <2>2, ExclusiveAnnounce
<1>7. CASE x \notin S
  <2>1. x \notin bypassed /\ (Busy(x) => Busy(x)')
    BY <1>7 DEF ClearSlotsForProfile, Busy
  <2>2. \A i \in DOMAIN jobs : ~For(jobs[i], x)
    BY <1>3, <1>4, <1>7 DEF jobs
  <2>3. QED
    BY <1>2, <1>5, <2>1, <2>2, ExclusiveAnnounce
<1>8. QED
  BY <1>6, <1>7

\* A swap writes past the mark, so that its own slot is among the bypassed ones.
LEMMA ExclusiveKaos ==
  ASSUME ExclusiveInv, SwapWaits, Kaos, NEW x \in Slot \ bypassed' PROVE Exclusive(x)'
<1>1. CASE UNCHANGED <<portal, todo, queue, worker, bypassed>>
  BY <1>1, ExclusiveQuiet DEF Busy
<1>2. CASE ExecuteKaosSwap
  <2> DEFINE jobs == <<ClearJob(swap.slot, swap.by), LoadJob(swap.slot, swap.fig, swap.by)>>
  <2>1. x \notin bypassed /\ x # swap.slot
    BY <1>2 DEF ExecuteKaosSwap
  <2>2. \A i \in DOMAIN jobs : ~For(jobs[i], x)
    BY <2>1 DEF For, ClearJob, LoadJob
  <2>3. todo["kaos"] = <<>> /\ todo' = [todo EXCEPT !["kaos"] = jobs]
    BY <1>2 DEF ExecuteKaosSwap, SwapWaits
  <2>4. Busy(x) => Busy(x)'
    BY <1>2, <2>1 DEF ExecuteKaosSwap, Busy, ExclusiveInv, TypeOK
  <2> HIDE DEF jobs
  <2>5. QED
    BY <1>2, <2>1, <2>2, <2>3, <2>4, TaskFacts, ExclusiveAnnounce DEF ExecuteKaosSwap
<1>3. QED
  BY <1>1, <1>2 DEF Kaos, SelectSwap, AbortKaosSwap

LEMMA ExclusiveSend ==
  ASSUME ExclusiveInv, NEW t \in Task, Send(t), NEW x \in Slot \ bypassed'
  PROVE  Exclusive(x)'
<1>1. x \notin bypassed /\ (Busy(x) => Busy(x)') /\ TypeOK
  BY DEF Send, Busy, ExclusiveInv
<1>2. OneJob(x)
  BY <1>1 DEF ExclusiveInv
<1>3. QED
  BY <1>1, <1>2, JobSent, StaysExclusive

\* The slot the worker is on, before and after it has a result.
LEMMA WorkingFacts ==
  /\ \A s, x \in Slot, st \in Settled :
       worker' = ToApply(s, st) => (Working(x)' <=> x = s) /\ (Performing(x)' <=> x = s)
  /\ \A s, x \in Slot :
       worker' = ToReread(s) => (Working(x)' <=> x = s) /\ (Performing(x)' <=> x = s)
  /\ \A w : \A x \in Slot : worker' = ToSnapshot(w) => ~Working(x)'
  /\ \A x \in Slot : worker' = Idle => ~Working(x)' /\ ~Performing(x)'
BY KeepAssumption
   DEF Working, Performing, ToApply, ToReread, ToSnapshot, Idle, Only, NothingToWrite, Settled

\* What the worker may take, and what it then has in hand.
LEMMA TakenJob ==
  ASSUME TypeOK, NEW op, Take(op)
  PROVE  /\ Head(queue) \in Job /\ Head(queue).slot \in Slot /\ Head(queue).op = op
         /\ op \in SlotOp => \A x \in Slot : For(Head(queue), x) <=> x = Head(queue).slot
         /\ op \notin SlotOp => \A x \in Slot : ~For(Head(queue), x)
<1>1. Head(queue) \in Job
  BY ListFacts DEF Take, TypeOK
<1>2. QED
  BY <1>1 DEF Take, Job, For

\* The worker takes a job and leaves the mirror alone.
LEMMA ExclusiveTake ==
  ASSUME ExclusiveInv, NEW op, Take(op), UNCHANGED <<portal, todo>>,
         NEW x \in Slot \ bypassed, Working(x)' => For(Head(queue), x)
  PROVE  Exclusive(x)'
<1>1. TypeOK /\ OneJob(x) /\ (Busy(x) => Busy(x)')
  BY DEF ExclusiveInv, Busy
<1>2. QED
  BY <1>1, JobTaken, StaysExclusive

LEMMA ExclusiveWork ==
  ASSUME ExclusiveInv, Work, NEW x \in Slot \ bypassed' PROVE Exclusive(x)'
<1> TypeOK
  BY DEF ExclusiveInv
<1> DEFINE job == Head(queue)
<1>1. CASE RunLoad
  <2>1. job \in Job /\ job.op = "load" /\ job.slot \in Slot /\ (For(job, x) <=> x = job.slot)
    BY <1>1, TakenJob DEF RunLoad, SlotOp
  <2>2. Loaded(job.fig, job.owner) \in Settled
    BY <2>1, ConstructorTypes DEF Job
  <2>3. worker' = ToApply(job.slot, Loaded(job.fig, job.owner)) \/ worker' = ToReread(job.slot)
    BY <1>1 DEF RunLoad
  <2>4. Working(x)' => For(job, x)
    BY <2>1, <2>2, <2>3, WorkingFacts
  <2>5. QED
    BY <1>1, <2>4, ExclusiveTake DEF RunLoad
<1>2. CASE RunClear
  <2>1. job.slot \in Slot /\ (For(job, x) <=> x = job.slot)
    BY <1>2, TakenJob DEF RunClear, SlotOp
  <2>2. worker' = ToApply(job.slot, Empty) \/ worker' = ToReread(job.slot)
    BY <1>2 DEF RunClear
  <2>3. Working(x)' => For(job, x)
    BY <2>1, <2>2, WorkingFacts, ConstructorTypes
  <2>4. QED
    BY <1>2, <2>3, ExclusiveTake DEF RunClear
<1>3. CASE RunRefresh
  <2>1. ~Working(x)'
    BY <1>3, WorkingFacts DEF RunRefresh
  <2>2. QED
    BY <1>3, <2>1, ExclusiveTake DEF RunRefresh
<1>4. ASSUME NEW op, Take(op), UNCHANGED <<portal, todo>>, worker' = Idle,
             x \notin bypassed
      PROVE  Exclusive(x)'
  BY <1>4, WorkingFacts, ExclusiveTake
<1>5. CASE RunBoot
  BY <1>4, <1>5 DEF RunBoot, Boot
<1>6. CASE RunReboot
  BY <1>4, <1>6 DEF RunReboot, Boot
<1>7. CASE RestoreAfterFailure
  <2>1. worker.slot \in Slot /\ worker.pc = "reread" /\ x \notin bypassed
    BY <1>7 DEF RestoreAfterFailure, TypeOK
  <2>2. \E st \in Settled : worker' = ToApply(worker.slot, st)
    BY <1>7, <2>1, ReadTypes, ConstructorTypes DEF RestoreAfterFailure, TypeOK
  <2>3. Working(x)' => Working(x)
    BY <2>1, <2>2, WorkingFacts DEF Working, Performing
  <2>4. OneJob(x) /\ (Busy(x) => Busy(x)')
    BY <1>7, <2>1 DEF ExclusiveInv, RestoreAfterFailure, Busy
  <2>5. QED
    BY <1>7, <2>1, <2>3, <2>4, JobsStay, StaysExclusive DEF RestoreAfterFailure
<1>8. CASE ApplyResult
  <2>1. ~Working(x)' /\ x \notin bypassed
    BY <1>8, WorkingFacts DEF ApplyResult
  <2>2. OneJob(x)
    BY <2>1 DEF ExclusiveInv
  <2>3. OneJob(x)' /\ (HasJob(x)' => HasJob(x))
    BY <1>8, <2>1, <2>2, JobsStay DEF ApplyResult
  <2>4. HasJob(x)' /\ Busy(x) => Busy(x)'
    <3>1. CASE x \in Written
      <4>1. ~Announced(x) /\ ~Queued(x)
        BY <1>8, <3>1 DEF ApplyResult
      <4>2. QED
        BY <1>8, <2>1, <4>1 DEF HasJob, Announced, Queued, ApplyResult
    <3>2. CASE x \notin Written
      BY <1>8, <3>2 DEF ApplyResult, Written, Busy
    <3>3. QED
      BY <3>1, <3>2
  <2>5. QED
    BY <2>1, <2>3, <2>4, StaysExclusive
<1>9. QED
  BY <1>1, <1>2, <1>3, <1>5, <1>6, <1>7, <1>8 DEF Work

\* A reset of the mirror makes every slot that has a job a bypassed one.
LEMMA ExclusiveReset ==
  ASSUME ExclusiveInv, ResetPortal, UNCHANGED <<todo, queue, worker>>,
         NEW x \in Slot \ bypassed'
  PROVE  Exclusive(x)'
<1>1. x \notin bypassed /\ ~InFlight(x)
  BY DEF ResetPortal
<1>2. ~HasJob(x)
  BY <1>1 DEF HasJob, InFlight, Working
<1>3. QED
  BY <1>1, <1>2, ExclusiveQuiet

LEMMA ExclusiveCrashAndQuit ==
  ASSUME ExclusiveInv, Crash \/ Quit, NEW x \in Slot \ bypassed' PROVE Exclusive(x)'
<1>1. CASE QuitReset
  BY <1>1, ExclusiveReset DEF QuitReset
<1>2. CASE Crash \/ QuitGame \/ QuitKill \/ DropQuit
  <2>1. x \notin bypassed /\ UNCHANGED <<portal, todo, queue, worker>>
    BY <1>2 DEF Crash, QuitGame, QuitKill, DropQuit
  <2>2. QED
    BY <2>1, ExclusiveQuiet DEF Busy
<1>3. QED
  BY <1>1, <1>2 DEF Quit

\* A job about the whole portal joins the channel.
LEMMA ExclusiveAppend ==
  ASSUME ExclusiveInv, NEW op \in {"refresh", "boot", "reboot"},
         queue' = Append(queue, WholeJob(op)), UNCHANGED <<portal, todo, worker>>,
         NEW x \in Slot \ bypassed
  PROVE  Exclusive(x)'
<1>1. TypeOK /\ OneJob(x)
  BY DEF ExclusiveInv
<1>2. WholeJob(op) \in Job /\ ~For(WholeJob(op), x)
  BY ConstructorTypes DEF For, WholeJob, SlotOp
<1>3. \A i \in DOMAIN queue' : \/ i \in DOMAIN queue /\ queue'[i] = queue[i]
                               \/ queue'[i] = WholeJob(op)
  BY <1>1, <1>2, AppendFacts DEF TypeOK
<1>4. OneQueued(x)' /\ (Queued(x)' => Queued(x))
  BY <1>1, <1>2, <1>3 DEF OneJob, OneQueued, Queued
<1>5. /\ OneAnnounced(x)' /\ (Announced(x)' <=> Announced(x))
      /\ (Working(x)' <=> Working(x)) /\ (Busy(x) => Busy(x)')
  BY <1>1 DEF OneJob, OneAnnounced, Announced, Working, Performing, Busy
<1>6. QED
  BY <1>1, <1>4, <1>5, StaysExclusive DEF OneJob, HasJob

LEMMA ExclusiveRescue ==
  ASSUME ExclusiveInv, Rescue, NEW x \in Slot \ bypassed' PROVE Exclusive(x)'
<1> TypeOK
  BY DEF ExclusiveInv
<1>1. CASE UNCHANGED <<portal, todo, queue, worker, bypassed>>
  BY <1>1, ExclusiveQuiet DEF Busy
<1>2. CASE RescueReset
  BY <1>2, ExclusiveReset DEF RescueReset
<1>3. CASE RescueBoot
  BY <1>3, ExclusiveAppend DEF RescueBoot
<1>4. CASE RestoreFigure
  <2>1. PICK y \in rescue.left :
          \/ UNCHANGED <<portal, todo, bypassed>>
          \/ /\ portal' = [portal EXCEPT ![y.slot] = Loading(y.fig, y.owner)]
             /\ todo' = [todo EXCEPT !["supervisor"] = <<LoadJob(y.slot, y.fig, y.owner)>>]
             /\ bypassed' = IF InFlight(y.slot) THEN bypassed \cup {y.slot}
                            ELSE bypassed \ {y.slot}
    BY <1>4 DEF RestoreFigure
  <2>2. y.slot \in Slot /\ todo["supervisor"] = <<>> /\ UNCHANGED <<queue, worker>>
    BY <1>4, <2>1 DEF RestoreFigure, TypeOK, Rescued
  <2>3. CASE UNCHANGED <<portal, todo, bypassed>>
    BY <2>2, <2>3, ExclusiveQuiet DEF Busy
  <2>4. CASE ~UNCHANGED <<portal, todo, bypassed>>
    <3> DEFINE job == LoadJob(y.slot, y.fig, y.owner)
               jobs == <<job>>
    <3>1. /\ portal' = [portal EXCEPT ![y.slot] = Loading(y.fig, y.owner)]
          /\ todo' = [todo EXCEPT !["supervisor"] = jobs]
          /\ bypassed' = IF InFlight(y.slot) THEN bypassed \cup {y.slot}
                         ELSE bypassed \ {y.slot}
      BY <2>1, <2>4
    <3>2. For(job, y.slot)
      BY DEF For, LoadJob, SlotOp
    <3>3. /\ \A i, k \in DOMAIN jobs : For(jobs[i], x) /\ For(jobs[k], x) => i = k
          /\ x # y.slot => \A i \in DOMAIN jobs : ~For(jobs[i], x)
      BY <2>2, <3>2, SingleJob
    <3> HIDE DEF job, jobs
    <3>4. CASE x = y.slot
      <4>1. Busy(x)' /\ ~InFlight(x)
        BY <3>1, <3>4 DEF Busy, Loading, TypeOK
      <4>2. QED
        BY <2>2, <3>1, <3>3, <4>1, TaskFacts, ExclusiveAnnounce
    <3>5. CASE x # y.slot
      <4>1. x \notin bypassed /\ (Busy(x) => Busy(x)')
        BY <2>2, <3>1, <3>5 DEF Busy, TypeOK
      <4>2. QED
        BY <2>2, <3>1, <3>3, <3>5, <4>1, TaskFacts, ExclusiveAnnounce
    <3>6. QED
      BY <3>4, <3>5
  <2>5. QED
    BY <2>3, <2>4
<1>5. QED
  BY <1>1, <1>2, <1>3, <1>4 DEF Rescue, NoticeCrash, RememberPlaced, RestoreDone

LEMMA ExclusiveInit == Init => ExclusiveInv
<1> SUFFICES ASSUME Init PROVE ExclusiveInv
  OBVIOUS
<1>1. TypeOK
  BY TypeInit
<1>2. \A s \in Slot : ~Announced(s) /\ OneAnnounced(s)
  BY DEF Init, Announced, OneAnnounced
<1>3. \A i \in DOMAIN queue : i = 1 /\ queue[i] = WholeJob("refresh")
  BY DEF Init
<1>4. \A s \in Slot : ~Queued(s) /\ OneQueued(s)
  BY <1>3 DEF Queued, OneQueued, For, WholeJob, SlotOp
<1>5. \A s \in Slot : ~Working(s)
  BY DEF Init, Idle, Working, Performing
<1>6. QED
  BY <1>1, <1>2, <1>4, <1>5 DEF ExclusiveInv, OneJob, HasJob

LEMMA ExclusiveNext == ExclusiveInv /\ SwapWaits /\ [Next]_vars => ExclusiveInv'
<1> SUFFICES ASSUME ExclusiveInv, SwapWaits, [Next]_vars PROVE ExclusiveInv'
  OBVIOUS
<1>1. TypeOK'
  BY TypeNext DEF ExclusiveInv
<1>2. ASSUME NEW x \in Slot \ bypassed' PROVE Exclusive(x)'
  <2>1. CASE UNCHANGED vars
    BY <2>1, ExclusiveQuiet DEF vars, Busy
  <2>2. CASE Next
    BY <2>2, ExclusivePhones, ExclusiveDisconnects, ExclusiveKaos, ExclusiveSend,
       ExclusiveWork, ExclusiveCrashAndQuit, ExclusiveRescue DEF Next
  <2>3. QED
    BY <2>1, <2>2
<1>3. QED
  BY <1>1, <1>2 DEF ExclusiveInv, Exclusive

\* A finite set of things that are all the same has one at most.
LEMMA OneOrNone ==
  ASSUME NEW S, \A a, b \in S : a = b
  PROVE  Cardinality(S) = IF S = {} THEN 0 ELSE 1
<1>1. CASE S = {}
  BY <1>1, FS_EmptySet
<1>2. CASE S # {}
  <2>1. PICK a \in S : S = {a}
    BY <1>2
  <2>2. QED
    BY <2>1, FS_Singleton
<1>3. QED
  BY <1>1, <1>2

LEMMA ExclusiveMeans == ExclusiveInv => BusyIsExclusive
<1> SUFFICES ASSUME ExclusiveInv, NEW s \in Slot \ bypassed
             PROVE  (Announced(s) \/ Queued(s) => Busy(s)) /\ JobsOf(s) <= 1
  BY DEF BusyIsExclusive
<1> DEFINE A == {x \in Task \X (1 .. SlotCount + 2) :
                   x[2] \in DOMAIN todo[x[1]] /\ For(todo[x[1]][x[2]], s)}
           Q == {i \in DOMAIN queue : For(queue[i], s)}
           w == IF worker.pc # "snapshot" /\ Performing(s) THEN 1 ELSE 0
<1>1. OneJob(s) /\ (HasJob(s) => Busy(s))
  BY DEF ExclusiveInv
<1>2. \A a, b \in A : a = b
  <2> SUFFICES ASSUME NEW a \in A, NEW b \in A PROVE a = b
    OBVIOUS
  <2>1. a = <<a[1], a[2]>> /\ b = <<b[1], b[2]>>
    OBVIOUS
  <2>2. a[1] = b[1] /\ a[2] = b[2]
    BY <1>1 DEF OneJob, OneAnnounced
  <2>3. QED
    BY <2>1, <2>2
<1>3. \A i, k \in Q : i = k
  BY <1>1 DEF OneJob, OneQueued
<1>4. Cardinality(A) = (IF A = {} THEN 0 ELSE 1) /\ Cardinality(Q) = (IF Q = {} THEN 0 ELSE 1)
  <2> HIDE DEF A, Q
  <2> QED
    BY <1>2, <1>3, OneOrNone
<1>5. (A # {} => Announced(s)) /\ (Q # {} => Queued(s)) /\ (w = 1 => Working(s))
  BY DEF Announced, Queued, Working
<1>6. JobsOf(s) = Cardinality(A) + Cardinality(Q) + w
  BY DEF JobsOf
<1>7. w \in {0, 1}
  OBVIOUS
<1> HIDE DEF A, Q, w
<1>8. JobsOf(s) <= 1
  BY <1>1, <1>4, <1>5, <1>6, <1>7 DEF OneJob
<1>9. QED
  BY <1>1, <1>8 DEF HasJob

\* The busy mark is a lock, for every instance: a slot that nothing wrote past has
\* one job at most, and is marked while it has one.
THEOREM ExclusiveCorrect == Spec => []BusyIsExclusive
<1>1. BackedInv => SwapWaits
  BY DEF BackedInv
<1>2. QED
  BY <1>1, BackedInit, BackedNext, ExclusiveInit, ExclusiveNext, ExclusiveMeans, PTL DEF Spec
-----------------------------------------------------------------------------
(***************************************************************************)
(* The mirror tells the truth, with the driver that loads into the slot it *)
(* is told. While a slot is settled and no job of it is left, nothing but  *)
(* the worker changes what the emulator holds there.                       *)
(***************************************************************************)
\* What MirrorShows says of one slot, and when it says so.
Known == (up \/ ~current) /\ ~ResetDue
Shown(x) ==
  /\ ~Busy(x) /\ ~InFlight(x) => Shows(portal[x], emu[x])
  /\ worker.pc \in {"apply", "snapshot"} /\ worker.write[x] # Keep =>
       Shows(worker.write[x], emu[x])

\* What a load leaves behind: one changed slot at most, nothing without an emulator.
LEMMA LoadChanges ==
  ASSUME Driver = "uia", emu \in [Slot -> File \cup {Vacant}],
         NEW s \in Slot, NEW file \in File
  PROVE  /\ \A e \in LoadOk(s, file) : up /\ e = [emu EXCEPT ![s] = file]
         /\ \A e \in LoadFail(s, file) :
              /\ \A x \in Slot : x # s => e[x] = emu[x]
              /\ e[s] \in {emu[s], file, Vacant}
              /\ ~up => e = emu
<1>1. \A e \in LoadOk(s, file) : up /\ e = [emu EXCEPT ![s] = file]
  BY DEF LoadOk, Target, Put
<1>2. \A e \in LoadFail(s, file) :
        \/ e = emu
        \/ up /\ (e = [emu EXCEPT ![s] = file] \/ e = [emu EXCEPT ![s] = Vacant])
  BY <1>1 DEF LoadFail, Put
<1>3. QED
  BY <1>1, <1>2

LEMMA ClearChanges ==
  ASSUME emu \in [Slot -> File \cup {Vacant}], NEW s \in Slot
  PROVE  /\ \A e \in ClearOk(s) : up /\ e = [emu EXCEPT ![s] = Vacant]
         /\ \A e \in ClearFail(s) :
              /\ \A x \in Slot : x # s => e[x] = emu[x]
              /\ e[s] \in {emu[s], Vacant}
              /\ ~up => e = emu
<1>1. \A e \in ClearOk(s) : up /\ e = [emu EXCEPT ![s] = Vacant]
  BY DEF ClearOk, Put
<1>2. \A e \in ClearFail(s) : e = emu \/ (up /\ e = [emu EXCEPT ![s] = Vacant])
  BY <1>1 DEF ClearFail, Put
<1>3. QED
  BY <1>1, <1>2

\* The emulator runs only while a game is taken to be running, and a dead one holds
\* nothing.
LEMMA EmulatorNext ==
  ASSUME Driver = "uia", TypeOK, EmulatorKnown, [Next]_vars PROVE EmulatorKnown'
<1>1. CASE UNCHANGED <<emu, up, current>>
  BY <1>1 DEF EmulatorKnown, NoFiles
<1>2. ASSUME NEW op, Take(op), op \in SlotOp PROVE Head(queue) \in Job /\ Head(queue).op = op
  BY <1>2, TakenJob
<1>3. CASE RunLoad
  <2> DEFINE job == Head(queue)
             file == [fig |-> job.fig, owner |-> job.owner]
  <2>1. job.slot \in Slot /\ file \in File
    BY <1>2, <1>3 DEF RunLoad, SlotOp, Job, File
  <2>2. emu' \in LoadOk(job.slot, file) \cup LoadFail(job.slot, file)
    BY <1>3 DEF RunLoad
  <2> HIDE DEF file
  <2>3. up \/ emu' = emu
    BY <2>1, <2>2, LoadChanges DEF TypeOK
  <2>4. QED
    BY <1>3, <2>3 DEF RunLoad, EmulatorKnown, NoFiles
<1>4. CASE RunClear
  <2> DEFINE job == Head(queue)
  <2>1. job.slot \in Slot
    BY <1>2, <1>4 DEF RunClear, SlotOp, Job
  <2>2. emu' \in ClearOk(job.slot) \cup ClearFail(job.slot)
    BY <1>4 DEF RunClear
  <2>3. up \/ emu' = emu
    BY <2>1, <2>2, ClearChanges DEF TypeOK
  <2>4. QED
    BY <1>4, <2>3 DEF RunClear, EmulatorKnown, NoFiles
<1>5. ASSUME NEW ok \in BOOLEAN, Boot(ok) PROVE EmulatorKnown'
  BY <1>5 DEF Boot, EmulatorKnown, NoFiles
<1>6. CASE RunBoot \/ RunReboot
  BY <1>5, <1>6 DEF RunBoot, RunReboot
<1>7. CASE Crash \/ QuitKill \/ NoticeCrash \/ RememberPlaced
  BY <1>7 DEF Crash, QuitKill, NoticeCrash, RememberPlaced, EmulatorKnown, NoFiles
<1>8. CASE Phones
  BY <1>1, <1>8 DEF Phones, ClearSlot, LoadSlot, ResetSlot, ResetSlotFails, RefreshPortal,
                    LaunchGame, DropRequest
<1>9. CASE Disconnects \/ Kaos \/ \E t \in Task : Send(t)
  BY <1>1, <1>9 DEF Disconnects, ClearSlotsForProfile, Kaos, SelectSwap, ExecuteKaosSwap,
                    AbortKaosSwap, Send
<1>10. CASE Work
  BY <1>1, <1>3, <1>4, <1>6, <1>10
     DEF Work, RestoreAfterFailure, RunRefresh, ApplyResult
<1>11. CASE Quit \/ Rescue
  BY <1>1, <1>7, <1>11 DEF Quit, QuitGame, QuitReset, DropQuit, Rescue, RescueReset,
                           RescueBoot, RestoreFigure, RestoreDone
<1>12. CASE UNCHANGED vars
  BY <1>1, <1>12 DEF vars
<1>13. QED
  BY <1>7, <1>8, <1>9, <1>10, <1>11, <1>12 DEF Next

\* The supervisor's job is told from all others.
LEMMA NoReboot ==
  /\ \A s, f, p : LoadJob(s, f, p).op # "reboot" /\ ClearJob(s, p).op # "reboot"
  /\ \A op \in {"refresh", "boot"} : WholeJob(op).op # "reboot"
BY DEF LoadJob, ClearJob, WholeJob

LEMMA RebootNeverAnnounced ==
  ASSUME TypeOK, RebootAwaited, [Next]_vars
  PROVE  \A t \in Task : \A i \in DOMAIN todo'[t] : todo'[t][i].op # "reboot"
<1> DEFINE Goal == \A t \in Task : \A i \in DOMAIN todo'[t] : todo'[t][i].op # "reboot"
<1>1. CASE todo' = todo
  BY <1>1 DEF RebootAwaited
<1>2. ASSUME NEW t \in Task, NEW jobs, todo' = [todo EXCEPT ![t] = jobs],
             \A i \in DOMAIN jobs : jobs[i].op # "reboot"
      PROVE  Goal
  BY <1>2 DEF RebootAwaited, TypeOK
<1>3. ASSUME NEW t \in Task, NEW job, todo' = [todo EXCEPT ![t] = <<job>>],
             job.op # "reboot"
      PROVE  Goal
  <2> DEFINE jobs == <<job>>
  <2>1. todo' = [todo EXCEPT ![t] = jobs] /\ \A i \in DOMAIN jobs : jobs[i].op # "reboot"
    BY <1>3
  <2> HIDE DEF jobs
  <2>2. QED
    BY <1>2, <2>1
<1>4. ASSUME NEW t \in Task, todo' = [todo EXCEPT ![t] = <<>>] PROVE Goal
  BY <1>4 DEF RebootAwaited, TypeOK
<1>5. CASE Phones
  <2>1. PICK r \in Request :
          \/ todo' = todo
          \/ todo' = [todo EXCEPT ![r] = <<>>]
          \/ \E job : todo' = [todo EXCEPT ![r] = <<job>>] /\ job.op # "reboot"
    BY <1>5, NoReboot
       DEF Phones, ClearSlot, LoadSlot, ResetSlot, ResetSlotFails, RefreshPortal,
           LaunchGame, DropRequest, Announce
  <2>2. QED
    BY <1>1, <1>3, <1>4, <2>1, TaskFacts
<1>6. CASE Disconnects
  <2>1. PICK j \in Janitor, p \in Profile : ClearSlotsForProfile(j, p)
    BY <1>6 DEF Disconnects
  <2> DEFINE n == Cardinality(OwnedBy(p))
  <2>2. PICK q \in InOrder(OwnedBy(p)) : Announce(j, [i \in 1 .. n |-> ClearJob(q[i], p)])
    BY <2>1 DEF ClearSlotsForProfile
  <2> DEFINE jobs == [i \in 1 .. n |-> ClearJob(q[i], p)]
  <2>3. todo' = [todo EXCEPT ![j] = jobs] /\ \A i \in DOMAIN jobs : jobs[i].op # "reboot"
    BY <2>2 DEF Announce, ClearJob
  <2> HIDE DEF jobs
  <2>4. QED
    BY <1>2, <2>3, TaskFacts
<1>7. CASE Kaos
  <2> DEFINE jobs == <<ClearJob(swap.slot, swap.by), LoadJob(swap.slot, swap.fig, swap.by)>>
  <2>1. todo' = todo \/ todo' = [todo EXCEPT !["kaos"] = jobs]
    BY <1>7 DEF Kaos, SelectSwap, ExecuteKaosSwap, AbortKaosSwap
  <2>2. \A i \in DOMAIN jobs : jobs[i].op # "reboot"
    BY NoReboot
  <2> HIDE DEF jobs
  <2>3. QED
    BY <1>1, <1>2, <2>1, <2>2, TaskFacts
<1>8. ASSUME NEW t \in Task, Send(t) PROVE Goal
  <2> DEFINE q == todo[t]
  <2>1. q \in Seq(Job) /\ q # <<>> /\ todo' = [todo EXCEPT ![t] = Tail(q)]
    BY <1>8 DEF Send, TypeOK
  <2>2. \A k \in DOMAIN Tail(q) : k + 1 \in DOMAIN q /\ Tail(q)[k] = q[k + 1]
    BY <2>1, TailFacts
  <2>3. \A i \in DOMAIN q : q[i].op # "reboot"
    BY DEF RebootAwaited
  <2> DEFINE jobs == Tail(q)
  <2>4. \A i \in DOMAIN jobs : jobs[i].op # "reboot"
    BY <2>2, <2>3
  <2>5. todo' = [todo EXCEPT ![t] = jobs]
    BY <2>1
  <2> HIDE DEF q, jobs
  <2>6. QED
    BY <1>2, <2>4, <2>5
<1>9. CASE Work \/ Crash \/ Quit \/ UNCHANGED vars
  <2>1. todo' = todo
    BY <1>9 DEF Work, RunLoad, RunClear, RestoreAfterFailure, RunRefresh, ApplyResult,
       RunBoot, RunReboot, Crash, Quit, QuitGame, QuitKill, QuitReset, DropQuit, vars
  <2>2. QED
    BY <1>1, <2>1
<1>10. CASE Rescue
  <2>1. \/ todo' = todo
        \/ \E job : todo' = [todo EXCEPT !["supervisor"] = <<job>>] /\ job.op # "reboot"
    BY <1>10, NoReboot
       DEF Rescue, NoticeCrash, RememberPlaced, RescueReset, RescueBoot,
           RestoreFigure, RestoreDone
  <2>2. QED
    BY <1>1, <1>3, <2>1, TaskFacts
<1>11. QED
  BY <1>5, <1>6, <1>7, <1>8, <1>9, <1>10 DEF Next

\* Reboot jobs in the channel and the recovery that waits for one.
Awaited ==
  /\ \A i \in DOMAIN queue : queue[i].op = "reboot" => rescue.pc = "await"
  /\ \A i, k \in DOMAIN queue : queue[i].op = "reboot" /\ queue[k].op = "reboot" => i = k

LEMMA RebootNext ==
  ASSUME TypeOK, RebootAwaited, [Next]_vars PROVE RebootAwaited'
<1> SUFFICES Awaited'
  BY RebootNeverAnnounced DEF RebootAwaited, Awaited
<1> USE DEF Awaited
<1>0. Awaited /\ queue \in Seq(Job)
  BY DEF RebootAwaited, TypeOK
<1>1. CASE queue' = queue /\ (rescue'.pc = rescue.pc \/ rescue.pc # "await")
  BY <1>0, <1>1
<1>2. ASSUME NEW job \in Job, queue' = Append(queue, job), job.op # "reboot",
             rescue' = rescue
      PROVE  Awaited'
  <2>1. \A i \in DOMAIN queue' : \/ i \in DOMAIN queue /\ queue'[i] = queue[i]
                                 \/ queue'[i] = job
    BY <1>0, <1>2, AppendFacts
  <2>2. QED
    BY <1>0, <1>2, <2>1
<1>3. ASSUME NEW op, Take(op) PROVE
        /\ op # "reboot" /\ rescue' = rescue => Awaited'
        /\ op = "reboot" => Awaited'
  <2>1. queue # <<>> /\ queue' = Tail(queue) /\ Head(queue).op = op
    BY <1>3 DEF Take
  <2>2. /\ Head(queue) = queue[1] /\ 1 \in DOMAIN queue
        /\ \A k \in DOMAIN queue' :
             k + 1 \in DOMAIN queue /\ queue'[k] = queue[k + 1] /\ k \in Nat /\ k + 1 # 1
    BY <1>0, <2>1, TailFacts
  <2>3. \A i, k \in DOMAIN queue' :
          queue'[i].op = "reboot" /\ queue'[k].op = "reboot" => i = k
    <3> SUFFICES ASSUME NEW i \in DOMAIN queue', NEW k \in DOMAIN queue',
                        queue'[i].op = "reboot", queue'[k].op = "reboot"
                 PROVE  i = k
      OBVIOUS
    <3>1. i + 1 = k + 1 /\ i \in Nat /\ k \in Nat
      BY <1>0, <2>2
    <3>2. QED
      BY <3>1
  <2>4. CASE op = "reboot"
    <3>1. \A i \in DOMAIN queue' : queue'[i].op # "reboot"
      BY <1>0, <2>1, <2>2, <2>4
    <3>2. QED
      BY <2>3, <3>1
  <2>5. QED
    BY <1>0, <2>2, <2>3, <2>4
<1>4. CASE Phones \/ Disconnects \/ Kaos
  <2>1. queue' = queue /\ rescue' = rescue
    BY <1>4 DEF Phones, ClearSlot, LoadSlot, ResetSlot, ResetSlotFails, RefreshPortal,
                LaunchGame, DropRequest, Disconnects, ClearSlotsForProfile, Kaos,
                SelectSwap, ExecuteKaosSwap, AbortKaosSwap
  <2>2. QED
    BY <1>1, <2>1
<1>5. ASSUME NEW t \in Task, Send(t) PROVE Awaited'
  <2>1. todo[t] \in Seq(Job) /\ todo[t] # <<>>
    BY <1>5 DEF Send, TypeOK
  <2>2. Head(todo[t]) = todo[t][1] /\ 1 \in DOMAIN todo[t] /\ Head(todo[t]) \in Job
    BY <2>1, TailFacts, ListFacts
  <2>3. Head(todo[t]).op # "reboot"
    BY <2>2 DEF RebootAwaited
  <2>4. QED
    BY <1>2, <1>5, <2>2, <2>3 DEF Send
<1>6. CASE Work
  <2>1. CASE RunLoad \/ RunClear \/ RunRefresh \/ RunBoot
    BY <1>3, <2>1 DEF RunLoad, RunClear, RunRefresh, RunBoot
  <2>2. CASE RunReboot
    BY <1>3, <2>2 DEF RunReboot
  <2>3. CASE RestoreAfterFailure \/ ApplyResult
    BY <1>1, <2>3 DEF RestoreAfterFailure, ApplyResult
  <2>4. QED
    BY <1>6, <2>1, <2>2, <2>3 DEF Work
<1>7. CASE Crash \/ Quit \/ UNCHANGED vars
  <2>1. queue' = queue /\ rescue' = rescue
    BY <1>7 DEF Crash, Quit, QuitGame, QuitKill, QuitReset, DropQuit, vars
  <2>2. QED
    BY <1>1, <2>1
<1>8. CASE Rescue
  <2>1. CASE NoticeCrash \/ RememberPlaced \/ RescueReset \/ RestoreFigure \/ RestoreDone
    <3>1. queue' = queue /\ rescue.pc # "await"
      BY <2>1 DEF NoticeCrash, RememberPlaced, RescueReset, RestoreFigure, RestoreDone
    <3>2. QED
      BY <1>1, <3>1
  <2>2. CASE RescueBoot
    <3> DEFINE job == WholeJob("reboot")
    <3>1. queue' = Append(queue, job) /\ rescue.pc = "boot" /\ rescue'.pc = "await"
      BY <2>2 DEF RescueBoot, TypeOK
    <3>2. \A i \in DOMAIN queue' : \/ i \in DOMAIN queue /\ queue'[i] = queue[i]
                                   \/ i = Len(queue) + 1 /\ queue'[i] = job
      BY <1>0, <3>1, AppendFacts, ConstructorTypes
    <3>3. \A i \in DOMAIN queue : queue[i].op # "reboot"
      BY <1>0, <3>1
    <3>4. QED
      BY <3>1, <3>2, <3>3
  <2>3. QED
    BY <1>8, <2>1, <2>2 DEF Rescue
<1>9. QED
  BY <1>4, <1>5, <1>6, <1>7, <1>8 DEF Next

\* A step that leaves the worker and a slot's file alone, and its mirror entry too
\* or marks it.
LEMMA ShownQuiet ==
  ASSUME ExclusiveInv, MirrorShows, Known, NEW x \in Slot \ bypassed,
         worker' = worker, emu'[x] = emu[x], portal'[x] = portal[x] \/ Busy(x)'
  PROVE  Shown(x)'
<1>1. Shown(x)
  BY DEF MirrorShows, Known, Shown
<1>2. Performing(x)' <=> Performing(x)
  BY DEF Performing
<1>3. ~Busy(x) /\ InFlight(x) => Performing(x)
  BY DEF ExclusiveInv, HasJob, InFlight
<1>4. QED
  BY <1>1, <1>2, <1>3 DEF Shown, Busy, InFlight

\* A slot that is marked while no job of it is left.
LEMMA ShownMarked ==
  ASSUME NEW x \in Slot, ~InFlight(x), worker' = worker, Busy(x)'
  PROVE  Shown(x)'
BY DEF InFlight, Performing, Shown

\* A step of the tasks: what they write is a mark on a slot.
LEMMA ShownTasks ==
  ASSUME ExclusiveInv, MirrorShows, UNCHANGED <<worker, emu, up, current, quit>>,
         (rescue'.pc \in {"noticed", "reset"}) <=> (rescue.pc \in {"noticed", "reset"}),
         Known', NEW x \in Slot,
         \/ x \notin bypassed /\ (portal'[x] = portal[x] \/ Busy(x)')
         \/ ~InFlight(x) /\ Busy(x)'
  PROVE  Shown(x)'
<1>1. Known
  BY DEF Known, ResetDue
<1>2. QED
  BY <1>1, ShownQuiet, ShownMarked

LEMMA ShownPhones ==
  ASSUME ExclusiveInv, MirrorShows, Phones, Known', NEW x \in Slot \ bypassed'
  PROVE  Shown(x)'
<1> PICK r \in Request :
      \/ \E s \in Slot :
           \/ ClearSlot(r, s)
           \/ \E f \in Figure, p \in Owner :
                LoadSlot(r, s, f, p) \/ ResetSlot(r, s, f, p) \/ ResetSlotFails(r, s, f, p)
      \/ RefreshPortal(r) \/ LaunchGame(r) \/ DropRequest(r)
  BY DEF Phones
<1> TypeOK
  BY DEF ExclusiveInv
<1>1. ASSUME NEW s \in Slot, NEW st \in SlotState, st.kind = "Loading", Mark(s, st),
             UNCHANGED <<worker, emu, up, current, quit, rescue>>
      PROVE  Shown(x)'
  <2>1. x = s => Busy(x)' /\ (~InFlight(x) \/ x \notin bypassed)
    BY <1>1 DEF Mark, Busy, TypeOK
  <2>2. x # s => portal'[x] = portal[x] /\ x \notin bypassed
    BY <1>1 DEF Mark, TypeOK
  <2>3. QED
    BY <1>1, <2>1, <2>2, ShownTasks
<1>2. \A f \in Figure \cup {NoFigure}, p \in Owner :
        Loading(f, p) \in SlotState /\ Loading(f, p).kind = "Loading"
  BY ConstructorTypes DEF Loading
<1>3. CASE \E s \in Slot : ClearSlot(r, s)
  BY <1>1, <1>2, <1>3 DEF ClearSlot, Clearing, Owner
<1>4. ASSUME NEW s \in Slot, NEW f \in Figure, NEW p \in Owner,
             LoadSlot(r, s, f, p) \/ ResetSlot(r, s, f, p)
      PROVE  Shown(x)'
  BY <1>1, <1>2, <1>4 DEF LoadSlot, ResetSlot
<1>5. ASSUME NEW s \in Slot, NEW f \in Figure, NEW p \in Owner, ResetSlotFails(r, s, f, p)
      PROVE  Shown(x)'
  <2>1. portal'[x] = portal[x] \/ Busy(x)'
    BY <1>2, <1>5 DEF ResetSlotFails, Busy, TypeOK
  <2>2. QED
    BY <1>5, <2>1, ShownTasks DEF ResetSlotFails
<1>6. CASE RefreshPortal(r) \/ LaunchGame(r) \/ DropRequest(r)
  BY <1>6, ShownTasks DEF RefreshPortal, LaunchGame, DropRequest
<1>7. QED
  BY <1>3, <1>4, <1>5, <1>6

LEMMA ShownOtherTasks ==
  ASSUME ExclusiveInv, MirrorShows, Known', NEW x \in Slot \ bypassed',
         Disconnects \/ Kaos \/ \E t \in Task : Send(t)
  PROVE  Shown(x)'
<1> TypeOK
  BY DEF ExclusiveInv
<1>1. CASE Disconnects
  <2>1. PICK j \in Janitor, p \in Profile : ClearSlotsForProfile(j, p)
    BY <1>1 DEF Disconnects
  <2>2. x \in OwnedBy(p) => Busy(x)' /\ (~InFlight(x) \/ x \notin bypassed)
    BY <2>1 DEF ClearSlotsForProfile, Busy, Clearing, Loading
  <2>3. x \notin OwnedBy(p) => portal'[x] = portal[x] /\ x \notin bypassed
    BY <2>1 DEF ClearSlotsForProfile
  <2>4. QED
    BY <2>1, <2>2, <2>3, ShownTasks DEF ClearSlotsForProfile
<1>2. CASE Kaos
  <2>1. x \notin bypassed /\ portal'[x] = portal[x]
    BY <1>2 DEF Kaos, SelectSwap, ExecuteKaosSwap, AbortKaosSwap, TypeOK
  <2>2. QED
    BY <1>2, <2>1, ShownTasks DEF Kaos, SelectSwap, ExecuteKaosSwap, AbortKaosSwap
<1>3. ASSUME NEW t \in Task, Send(t) PROVE Shown(x)'
  BY <1>3, ShownTasks DEF Send
<1>4. QED
  BY <1>1, <1>2, <1>3

\* What is read back from a slot shows what it holds.
LEMMA ReadShows ==
  ASSUME TypeOK, NEW r \in ReadOutcomes, r # NothingToWrite, NEW x \in Slot
  PROVE  Shows(r[x], emu[x])
<1>1. r[x] = ReadBack(emu[x])
  BY DEF ReadOutcomes
<1>2. ReadBack(Vacant) = Empty
  BY DEF ReadBack
<1>3. emu[x] # Vacant =>
        /\ ReadBack(emu[x]).kind = "Loaded" /\ ReadBack(emu[x]).by = NoProfile
        /\ ReadBack(emu[x]).fig \in {emu[x].fig, NoFigure}
  BY DEF ReadBack, Loaded
<1>4. QED
  BY <1>1, <1>2, <1>3 DEF Shows

\* The worker takes a job of another slot, or leaves the truth to write.
LEMMA ShownTaken ==
  ASSUME ExclusiveInv, MirrorShows, Known, NEW op, Take(op), UNCHANGED <<portal, todo>>,
         NEW x \in Slot \ bypassed,
         ~For(Head(queue), x) => emu'[x] = emu[x],
         worker'.pc \in {"apply", "snapshot"} /\ worker'.write[x] # Keep =>
           Shows(worker'.write[x], emu'[x])
  PROVE  Shown(x)'
<1>1. ~Busy(x) => ~Announced(x) /\ ~Queued(x)
  BY DEF ExclusiveInv, HasJob
<1>2. For(Head(queue), x) => Queued(x)
  <2>1. queue \in Seq(Job) /\ queue # <<>>
    BY DEF ExclusiveInv, TypeOK, Take
  <2>2. QED
    BY <2>1, TailFacts DEF Queued
<1>3. ~Performing(x)
  BY DEF Take, Performing
<1>4. ~Busy(x) => Shows(portal[x], emu[x])
  BY <1>1, <1>3 DEF MirrorShows, Known, InFlight
<1>5. QED
  BY <1>1, <1>2, <1>4 DEF Shown, Busy

LEMMA ShownLoad ==
  ASSUME Driver = "uia", ExclusiveInv, MirrorShows, RunLoad, Known',
         NEW x \in Slot \ bypassed'
  PROVE  Shown(x)'
<1> DEFINE job == Head(queue)
           file == [fig |-> job.fig, owner |-> job.owner]
<1>1. TypeOK /\ Known /\ x \notin bypassed
  BY DEF ExclusiveInv, RunLoad, Known, ResetDue
<1>2. job \in Job /\ job.op = "load" /\ job.slot \in Slot /\ (For(job, x) <=> x = job.slot)
  BY <1>1, TakenJob DEF RunLoad, SlotOp
<1>3. file \in File /\ job.fig \in Figure /\ file.fig = job.fig /\ file.owner = job.owner
  BY <1>2 DEF Job, File
<1>4. file # Vacant
  BY <1>3, PortalAssumption DEF Vacant
<1>5. \/ emu' \in LoadOk(job.slot, file) /\ worker' = ToApply(job.slot, Loaded(job.fig, job.owner))
      \/ emu' \in LoadFail(job.slot, file) /\ worker' = ToReread(job.slot)
  BY DEF RunLoad
<1>6. Shows(Loaded(job.fig, job.owner), file)
  BY <1>3, <1>4 DEF Shows, Loaded
<1> HIDE DEF file, job
<1>7. /\ x # job.slot => emu'[x] = emu[x]
      /\ emu' \in LoadOk(job.slot, file) => emu'[job.slot] = file
  BY <1>1, <1>2, <1>3, <1>5, LoadChanges DEF TypeOK
<1>8. worker'.pc \in {"apply", "snapshot"} /\ worker'.write[x] # Keep =>
        Shows(worker'.write[x], emu'[x])
  <2>1. CASE worker' = ToApply(job.slot, Loaded(job.fig, job.owner)) /\ emu'[job.slot] = file
    BY <1>6, <2>1 DEF ToApply, Only, NothingToWrite
  <2>2. CASE worker' = ToReread(job.slot)
    BY <2>2 DEF ToReread
  <2>3. QED
    BY <1>5, <1>7, <2>1, <2>2
<1>9. QED
  BY <1>1, <1>2, <1>7, <1>8, ShownTaken DEF RunLoad, job

LEMMA ShownClear ==
  ASSUME ExclusiveInv, MirrorShows, RunClear, Known', NEW x \in Slot \ bypassed'
  PROVE  Shown(x)'
<1> DEFINE job == Head(queue)
<1>1. TypeOK /\ Known /\ x \notin bypassed
  BY DEF ExclusiveInv, RunClear, Known, ResetDue
<1>2. job.slot \in Slot /\ (For(job, x) <=> x = job.slot)
  BY <1>1, TakenJob DEF RunClear, SlotOp
<1>3. \/ emu' \in ClearOk(job.slot) /\ worker' = ToApply(job.slot, Empty)
      \/ emu' \in ClearFail(job.slot) /\ worker' = ToReread(job.slot)
  BY DEF RunClear
<1> HIDE DEF job
<1>4. /\ x # job.slot => emu'[x] = emu[x]
      /\ emu' \in ClearOk(job.slot) => emu'[job.slot] = Vacant
  BY <1>1, <1>2, <1>3, ClearChanges DEF TypeOK
<1>5. worker'.pc \in {"apply", "snapshot"} /\ worker'.write[x] # Keep =>
        Shows(worker'.write[x], emu'[x])
  BY <1>3, <1>4 DEF ToApply, ToReread, Only, NothingToWrite, Shows
<1>6. QED
  BY <1>1, <1>2, <1>4, <1>5, ShownTaken DEF RunClear, job

\* Jobs about the whole portal: a refresh, and a boot of an emulator that is down.
LEMMA ShownWhole ==
  ASSUME ExclusiveInv, MirrorShows, EmulatorKnown, RebootAwaited,
         RunRefresh \/ RunBoot \/ RunReboot, Known', NEW x \in Slot \ bypassed'
  PROVE  Shown(x)'
<1> TypeOK
  BY DEF ExclusiveInv
<1>1. CASE RunRefresh
  <2>1. Known /\ x \notin bypassed
    BY <1>1 DEF RunRefresh, Known, ResetDue
  <2>2. PICK r \in ReadOutcomes : worker' = ToSnapshot(r)
    BY <1>1 DEF RunRefresh
  <2>3. r[x] # Keep => Shows(r[x], emu[x])
    BY ReadShows DEF NothingToWrite
  <2>4. QED
    BY <1>1, <2>1, <2>2, <2>3, ShownTaken DEF RunRefresh, ToSnapshot
<1>2. ASSUME NEW op, Take(op), UNCHANGED <<portal, todo>>, worker' = Idle,
             NEW ok \in BOOLEAN, Boot(ok), quit' = quit, rescue.pc \notin {"noticed", "reset"}
      PROVE  Shown(x)'
  <2>1. x \notin bypassed /\ Known /\ emu' = emu
    BY <1>2 DEF Boot, Known, ResetDue, EmulatorKnown
  <2>2. worker'.pc \notin {"apply", "snapshot"}
    BY <1>2 DEF Idle
  <2>3. QED
    BY <1>2, <2>1, <2>2, ShownTaken
<1>3. CASE RunBoot
  <2>1. rescue.pc \notin {"noticed", "reset"}
    BY <1>3 DEF RunBoot, Known, ResetDue
  <2>2. QED
    BY <1>2, <1>3, <2>1 DEF RunBoot
<1>4. CASE RunReboot
  <2>1. queue \in Seq(Job) /\ queue # <<>> /\ Head(queue).op = "reboot"
    BY <1>4 DEF RunReboot, Take, TypeOK
  <2>2. Head(queue) = queue[1] /\ 1 \in DOMAIN queue
    BY <2>1, TailFacts
  <2>3. rescue.pc = "await"
    BY <2>1, <2>2 DEF RebootAwaited
  <2>4. QED
    BY <1>2, <1>4, <2>3 DEF RunReboot
<1>5. QED
  BY <1>1, <1>3, <1>4

LEMMA ShownResult ==
  ASSUME ExclusiveInv, MirrorShows, RestoreAfterFailure \/ ApplyResult, Known',
         NEW x \in Slot \ bypassed'
  PROVE  Shown(x)'
<1>1. TypeOK /\ Known /\ x \notin bypassed /\ emu' = emu
  BY DEF ExclusiveInv, RestoreAfterFailure, ApplyResult, Known, ResetDue
<1>2. Shown(x) /\ (~Busy(x) => ~HasJob(x))
  BY <1>1 DEF ExclusiveInv, MirrorShows, Known, Shown
<1>3. CASE RestoreAfterFailure
  <2>1. worker.pc = "reread" /\ worker.slot \in Slot /\ portal' = portal
    BY <1>1, <1>3 DEF RestoreAfterFailure, TypeOK
  <2>2. ~Busy(x)' => Shows(portal'[x], emu'[x])
    BY <1>1, <1>2, <2>1 DEF Shown, Busy, HasJob, InFlight, Working, Performing
  <2>3. worker'.write[x] # Keep => Shows(worker'.write[x], emu'[x])
    <3>1. PICK r \in ReadOutcomes :
            \/ r # NothingToWrite /\ worker' = ToApply(worker.slot, r[worker.slot])
            \/ worker' = ToApply(worker.slot, Empty) /\ x # worker.slot
      BY <1>3 DEF RestoreAfterFailure
    <3>2. r # NothingToWrite => Shows(r[x], emu[x])
      BY <1>1, ReadShows
    <3>3. QED
      BY <1>1, <3>1, <3>2 DEF ToApply, Only, NothingToWrite
  <2>4. QED
    BY <2>2, <2>3 DEF Shown
<1>4. CASE ApplyResult
  <2>1. /\ worker.pc \in {"apply", "snapshot"} /\ UNCHANGED <<todo, queue>>
        /\ portal'[x] = IF worker.write[x] = Keep THEN portal[x] ELSE worker.write[x]
        /\ worker' = Idle
    BY <1>4 DEF ApplyResult
  <2>2. worker'.pc \notin {"apply", "snapshot"}
    BY <2>1 DEF Idle
  <2>3. CASE worker.write[x] = Keep
    <3>1. (Busy(x)' <=> Busy(x)) /\ (InFlight(x) => InFlight(x)')
      BY <2>1, <2>3 DEF Busy, InFlight, Announced, Queued, Performing
    <3>2. QED
      BY <1>1, <1>2, <2>1, <2>2, <2>3, <3>1 DEF Shown
  <2>4. CASE worker.write[x] # Keep
    BY <1>1, <1>2, <2>1, <2>2, <2>4 DEF Shown
  <2>5. QED
    BY <2>3, <2>4
<1>5. QED
  BY <1>3, <1>4

\* A reset that is due leaves every slot empty, or bypassed.
LEMMA ShownReset ==
  ASSUME ResetPortal, EmulatorKnown, UNCHANGED <<worker, emu>>, NEW x \in Slot \ bypassed'
  PROVE  Shown(x)'
<1>1. ~InFlight(x) /\ ~up /\ portal'[x] = Empty
  BY DEF ResetPortal
<1>2. emu'[x] = Vacant
  BY <1>1 DEF EmulatorKnown, NoFiles
<1>3. ~(worker'.pc \in {"apply", "snapshot"} /\ worker'.write[x] # Keep)
  BY <1>1 DEF InFlight, Performing
<1>4. QED
  BY <1>1, <1>2, <1>3 DEF Shown, Shows

LEMMA ShownCrashAndQuit ==
  ASSUME ExclusiveInv, MirrorShows, EmulatorKnown, Crash \/ Quit, Known',
         NEW x \in Slot \ bypassed'
  PROVE  Shown(x)'
<1>1. ~Crash /\ ~QuitKill
  BY DEF Crash, QuitKill, EmulatorKnown, Known, ResetDue
<1>2. CASE QuitReset
  BY <1>2, ShownReset DEF QuitReset
<1>3. CASE QuitGame \/ DropQuit
  <2>1. /\ x \notin bypassed /\ Known
        /\ UNCHANGED <<portal, worker, emu>>
    BY <1>3 DEF QuitGame, DropQuit, Known, ResetDue
  <2>2. QED
    BY <2>1, ShownQuiet
<1>4. QED
  BY <1>1, <1>2, <1>3 DEF Quit

LEMMA ShownRescue ==
  ASSUME ExclusiveInv, MirrorShows, EmulatorKnown, Rescue, Known', NEW x \in Slot \ bypassed'
  PROVE  Shown(x)'
<1> TypeOK
  BY DEF ExclusiveInv
<1>1. ~NoticeCrash /\ ~RememberPlaced
  BY DEF NoticeCrash, RememberPlaced, Watching, Known, ResetDue, TypeOK
<1>2. CASE RescueReset
  BY <1>2, ShownReset DEF RescueReset
<1>3. CASE RescueBoot \/ RestoreDone
  <2>1. /\ x \notin bypassed /\ UNCHANGED <<portal, worker, emu, up, current, quit>>
    BY <1>3 DEF RescueBoot, RestoreDone
  <2>2. RescueBoot => rescue.pc = "boot" /\ rescue'.pc = "await"
    BY DEF RescueBoot, TypeOK
  <2>3. rescue.pc \notin {"noticed", "reset"} /\ rescue'.pc \notin {"noticed", "reset"}
    BY <1>3, <2>2 DEF RestoreDone, Watching
  <2>4. QED
    BY <2>1, <2>3, ShownTasks
<1>4. CASE RestoreFigure
  <2>1. PICK y \in rescue.left :
          \/ UNCHANGED <<portal, bypassed>>
          \/ /\ portal' = [portal EXCEPT ![y.slot] = Loading(y.fig, y.owner)]
             /\ bypassed' = IF InFlight(y.slot) THEN bypassed \cup {y.slot}
                            ELSE bypassed \ {y.slot}
    BY <1>4 DEF RestoreFigure
  <2>2. /\ UNCHANGED <<worker, emu, up, current, quit>>
        /\ rescue.pc = "restore" /\ rescue'.pc = "restore"
    BY <1>4 DEF RestoreFigure, TypeOK
  <2>3. \/ x \notin bypassed /\ (portal'[x] = portal[x] \/ Busy(x)')
        \/ ~InFlight(x) /\ Busy(x)'
    BY <2>1 DEF Busy, Loading, TypeOK
  <2>4. QED
    BY <2>2, <2>3, ShownTasks
<1>5. QED
  BY <1>1, <1>2, <1>3, <1>4 DEF Rescue

LEMMA MirrorInit == Init => MirrorInv
<1> SUFFICES ASSUME Init PROVE MirrorInv
  OBVIOUS
<1>1. MirrorShows
  BY DEF Init, MirrorShows, Shows, NoFiles, Idle
<1>2. EmulatorKnown
  BY DEF Init, EmulatorKnown
<1>3. RebootAwaited
  BY DEF Init, RebootAwaited, WholeJob
<1>4. QED
  BY <1>1, <1>2, <1>3, ExclusiveInit DEF MirrorInv

LEMMA MirrorNext ==
  ASSUME Driver = "uia", MirrorInv, SwapWaits, [Next]_vars PROVE MirrorInv'
<1>1. ExclusiveInv /\ MirrorShows /\ EmulatorKnown /\ RebootAwaited /\ TypeOK
  BY DEF MirrorInv, ExclusiveInv
<1>2. ExclusiveInv' /\ EmulatorKnown' /\ RebootAwaited'
  BY <1>1, ExclusiveNext, EmulatorNext, RebootNext
<1>3. ASSUME Known', NEW x \in Slot \ bypassed' PROVE Shown(x)'
  <2>1. CASE UNCHANGED vars
    BY <1>1, <1>3, <2>1, ShownTasks DEF vars
  <2>2. CASE Work
    BY <1>1, <1>3, <2>2, ShownLoad, ShownClear, ShownWhole, ShownResult DEF Work
  <2>3. CASE Next
    BY <1>1, <1>3, <2>2, <2>3, ShownPhones, ShownOtherTasks, ShownCrashAndQuit,
       ShownRescue DEF Next
  <2>4. QED
    BY <2>1, <2>3
<1>4. MirrorShows'
  BY <1>3 DEF MirrorShows, Known, Shown
<1>5. QED
  BY <1>2, <1>4 DEF MirrorInv

\* The mirror tells the truth, for every instance with the driver that loads into the
\* slot it is told: a settled slot that nothing wrote past shows what the emulator
\* holds there and never names a wrong owner.
THEOREM MirrorCorrect ==
  ASSUME Driver = "uia" PROVE Spec => []MirrorIsTrue
<1>1. BackedInv => SwapWaits
  BY DEF BackedInv
<1>2. MirrorInv /\ SwapWaits /\ [Next]_vars => MirrorInv'
  BY MirrorNext
<1>3. MirrorInv => MirrorIsTrue
  BY DEF MirrorInv, MirrorShows, MirrorIsTrue, ResetDue
<1>4. QED
  BY <1>1, <1>2, <1>3, BackedInit, BackedNext, MirrorInit, PTL DEF Spec
-----------------------------------------------------------------------------
(***************************************************************************)
(* Whose figures a cleanup takes off the portal, with the same driver. A   *)
(* file changes only under the one job the worker has in hand.             *)
(***************************************************************************)
\* A slot keeps its file, loses it, or is the one the worker has just taken on.
LEMMA FilesKept ==
  ASSUME Driver = "uia", TypeOK, [Next]_vars, NEW x \in Slot
  PROVE  emu'[x] \in {emu[x], Vacant} \/ (worker.pc = "idle" /\ Working(x)')
<1> DEFINE job == Head(queue)
           file == [fig |-> job.fig, owner |-> job.owner]
<1>1. CASE RunLoad
  <2>1. job \in Job /\ job.op = "load" /\ job.slot \in Slot
    BY <1>1, TakenJob DEF RunLoad, SlotOp
  <2>2. file \in File /\ Loaded(job.fig, job.owner) \in Settled
    BY <2>1, ConstructorTypes DEF Job, File
  <2>3. \/ emu' \in LoadOk(job.slot, file) /\ worker' = ToApply(job.slot, Loaded(job.fig, job.owner))
        \/ emu' \in LoadFail(job.slot, file) /\ worker' = ToReread(job.slot)
    BY <1>1 DEF RunLoad
  <2>4. worker.pc = "idle"
    BY <1>1 DEF RunLoad, Take
  <2> HIDE DEF job, file
  <2>5. x # job.slot => emu'[x] = emu[x]
    BY <2>1, <2>2, <2>3, LoadChanges DEF TypeOK
  <2>6. x = job.slot => Working(x)'
    BY <2>1, <2>2, <2>3, WorkingFacts
  <2>7. QED
    BY <2>4, <2>5, <2>6
<1>2. CASE RunClear
  <2>1. job.slot \in Slot
    BY <1>2, TakenJob DEF RunClear, SlotOp
  <2>2. emu' \in ClearOk(job.slot) \cup ClearFail(job.slot)
    BY <1>2 DEF RunClear
  <2> HIDE DEF job
  <2>3. QED
    BY <2>1, <2>2, ClearChanges DEF TypeOK
<1>3. CASE emu' = emu \/ emu' = NoFiles
  BY <1>3 DEF NoFiles
<1>4. CASE Work
  BY <1>1, <1>2, <1>3, <1>4
     DEF Work, RestoreAfterFailure, RunRefresh, ApplyResult, RunBoot, RunReboot, Boot
<1>5. CASE Phones \/ Disconnects \/ Kaos \/ (\E t \in Task : Send(t))
  BY <1>3, <1>5
     DEF Phones, ClearSlot, LoadSlot, ResetSlot, ResetSlotFails, RefreshPortal, LaunchGame,
         DropRequest, Disconnects, ClearSlotsForProfile, Kaos, SelectSwap, ExecuteKaosSwap,
         AbortKaosSwap, Send
<1>6. CASE Crash \/ Quit \/ Rescue \/ UNCHANGED vars
  BY <1>3, <1>6
     DEF Crash, Quit, QuitGame, QuitKill, QuitReset, DropQuit, Rescue, NoticeCrash, RememberPlaced,
         RescueReset, RescueBoot, RestoreFigure, RestoreDone, vars
<1>7. QED
  BY <1>4, <1>5, <1>6 DEF Next

\* An entry with a figure was there before, or is the worker's result.
LEMMA LoadedStays ==
  ASSUME TypeOK, [Next]_vars, NEW x \in Slot, portal'[x].kind = "Loaded"
  PROVE  \/ portal'[x] = portal[x] /\ (Working(x) => Working(x)')
         \/ worker.pc \in {"apply", "snapshot"} /\ worker.write[x] # Keep
              /\ portal'[x] = worker.write[x] /\ emu' = emu
<1>1. CASE worker' = worker
  <2>1. Working(x)' <=> Working(x)
    BY <1>1 DEF Working, Performing
  <2>2. ASSUME NEW s \in Slot, NEW st, st.kind = "Loading",
               portal' = [portal EXCEPT ![s] = st]
        PROVE  portal'[x] = portal[x]
    BY <2>2 DEF TypeOK
  <2>3. \A f, p : Loading(f, p).kind = "Loading"
    BY DEF Loading
  <2>4. ASSUME Phones \/ Kaos PROVE portal'[x] = portal[x]
    <3>1. \/ portal' = portal
          \/ \E f, p : \E s \in Slot : portal' = [portal EXCEPT ![s] = Loading(f, p)]
      <4>1. CASE Phones
        <5>1. PICK r \in Request :
                \/ \E s \in Slot :
                     \/ ClearSlot(r, s)
                     \/ \E f \in Figure, p \in Owner :
                          \/ LoadSlot(r, s, f, p) \/ ResetSlot(r, s, f, p)
                          \/ ResetSlotFails(r, s, f, p)
                \/ RefreshPortal(r) \/ LaunchGame(r) \/ DropRequest(r)
          BY <4>1 DEF Phones
        <5>2. \A s \in Slot : ClearSlot(r, s) =>
                portal' = [portal EXCEPT ![s] = Loading(NoFigure, NoProfile)]
          BY DEF ClearSlot, Mark, Clearing
        <5>3. \A s \in Slot, f \in Figure, p \in Owner :
                LoadSlot(r, s, f, p) \/ ResetSlot(r, s, f, p) \/ ResetSlotFails(r, s, f, p) =>
                  portal' = [portal EXCEPT ![s] = Loading(f, p)]
          BY DEF LoadSlot, ResetSlot, ResetSlotFails, Mark
        <5>4. QED
          BY <5>1, <5>2, <5>3 DEF RefreshPortal, LaunchGame, DropRequest
      <4>2. swap # NoSwap => swap.slot \in Slot
        BY DEF TypeOK, Swap
      <4>3. CASE Kaos
        BY <4>2, <4>3 DEF Kaos, SelectSwap, ExecuteKaosSwap, AbortKaosSwap
      <4>4. QED
        BY <2>4, <4>1, <4>3
    <3>2. QED
      BY <2>2, <2>3, <3>1
  <2>5. ASSUME Disconnects PROVE portal'[x] = portal[x]
    BY <2>5 DEF Disconnects, ClearSlotsForProfile, Clearing, Loading
  <2>6. ASSUME Rescue PROVE portal'[x] = portal[x]
    BY <2>2, <2>3, <2>6
       DEF Rescue, NoticeCrash, RememberPlaced, RescueReset, RescueBoot,
           RestoreFigure, RestoreDone,
           ResetPortal, Empty, TypeOK, Rescued
  <2>7. ASSUME Work PROVE portal'[x] = portal[x]
    BY <1>1, <2>7
       DEF Work, RunLoad, RunClear, RestoreAfterFailure, RunRefresh, ApplyResult, RunBoot,
           RunReboot, Idle
  <2>8. ASSUME Crash \/ Quit \/ (\E t \in Task : Send(t)) \/ UNCHANGED vars
        PROVE  portal'[x] = portal[x]
    BY <2>8 DEF Crash, Quit, QuitGame, QuitKill, QuitReset, DropQuit, Send, ResetPortal,
                Empty, vars
  <2>9. QED
    BY <2>1, <2>4, <2>5, <2>6, <2>7, <2>8 DEF Next
<1>2. CASE Work /\ ~ApplyResult /\ ~RestoreAfterFailure
  BY <1>2 DEF Work, RunLoad, RunClear, RunRefresh, RunBoot, RunReboot, Take, Working, Performing
<1>3. CASE RestoreAfterFailure
  <2>1. worker.slot \in Slot /\ worker.pc = "reread" /\ portal' = portal
    BY <1>3 DEF RestoreAfterFailure, TypeOK
  <2>2. \E st \in Settled : worker' = ToApply(worker.slot, st)
    BY <1>3, <2>1, ReadTypes, ConstructorTypes DEF RestoreAfterFailure, TypeOK
  <2>3. QED
    BY <2>1, <2>2, WorkingFacts DEF Working, Performing
<1>4. CASE ApplyResult
  BY <1>4 DEF ApplyResult, Working, Performing
<1>5. CASE ~Work
  <2>1. worker' = worker
    BY <1>5
       DEF Next, Phones, ClearSlot, LoadSlot, ResetSlot, ResetSlotFails, RefreshPortal,
           LaunchGame, DropRequest, Disconnects, ClearSlotsForProfile, Kaos, SelectSwap,
           ExecuteKaosSwap, AbortKaosSwap, Send, Crash, Quit, QuitGame, QuitKill, QuitReset,
           DropQuit, Rescue, NoticeCrash, RememberPlaced, RescueReset, RescueBoot, RestoreFigure,
           RestoreDone, vars
  <2>2. QED
    BY <1>1, <2>1
<1>6. QED
  BY <1>2, <1>3, <1>4, <1>5

LEMMA OwnerShownNext ==
  ASSUME Driver = "uia", TypeOK, OwnerShown, OwnerWritten, [Next]_vars
  PROVE  OwnerShown'
<1> SUFFICES ASSUME NEW x \in Slot, portal'[x].kind = "Loaded",
                    portal'[x].by # NoProfile, ~Working(x)'
             PROVE  Owns(portal'[x].by, emu'[x])
  BY DEF OwnerShown
<1>1. emu'[x] \in {emu[x], Vacant}
  BY FilesKept
<1>2. Owns(portal'[x].by, emu[x])
  BY LoadedStays DEF OwnerShown, OwnerWritten
<1>3. QED
  BY <1>1, <1>2 DEF Owns

\* What is read back names no owner.
LEMMA ReadHasNoOwner ==
  \A r \in ReadOutcomes, x \in Slot : r # NothingToWrite => r[x].by = NoProfile
BY DEF ReadOutcomes, ReadBack, Loaded, Empty

LEMMA OwnerWrittenNext ==
  ASSUME Driver = "uia", TypeOK, OwnerWritten, [Next]_vars
  PROVE  OwnerWritten'
<1> SUFFICES ASSUME worker'.pc \in {"apply", "snapshot"}, NEW x \in Slot,
                    worker'.write[x] # Keep, worker'.write[x].by # NoProfile
             PROVE  worker'.pc = "apply" /\ Owns(worker'.write[x].by, emu'[x])
  BY DEF OwnerWritten
<1> DEFINE job == Head(queue)
           file == [fig |-> job.fig, owner |-> job.owner]
<1>1. CASE worker' = worker
  <2>1. worker.pc = "apply" /\ Owns(worker.write[x].by, emu[x])
    BY <1>1 DEF OwnerWritten
  <2>2. emu'[x] \in {emu[x], Vacant}
    BY <2>1, FilesKept
  <2>3. QED
    BY <1>1, <2>1, <2>2 DEF Owns
<1>2. CASE RunLoad
  <2>1. job \in Job /\ job.op = "load" /\ job.slot \in Slot
    BY <1>2, TakenJob DEF RunLoad, SlotOp
  <2>2. file \in File
    BY <2>1 DEF Job, File
  <2>3. \/ emu' \in LoadOk(job.slot, file) /\ worker' = ToApply(job.slot, Loaded(job.fig, job.owner))
        \/ worker' = ToReread(job.slot)
    BY <1>2 DEF RunLoad
  <2>4. Loaded(job.fig, job.owner).by = job.owner /\ file.owner = job.owner
    BY DEF Loaded
  <2> HIDE DEF job, file
  <2>5. emu' \in LoadOk(job.slot, file) => emu'[job.slot] = file
    BY <2>1, <2>2, LoadChanges DEF TypeOK
  <2>6. worker' # ToReread(job.slot)
    BY DEF ToReread
  <2>7. worker'.pc = "apply" /\ x = job.slot /\ worker'.write[x] = Loaded(job.fig, job.owner)
    BY <2>3, <2>6 DEF ToApply, Only, NothingToWrite
  <2>8. QED
    BY <2>3, <2>4, <2>5, <2>6, <2>7 DEF Owns
<1>3. CASE RunClear
  BY <1>3 DEF RunClear, ToApply, ToReread, Only, NothingToWrite, Empty
<1>4. CASE RunRefresh
  <2>1. PICK r \in ReadOutcomes : worker' = ToSnapshot(r)
    BY <1>4 DEF RunRefresh
  <2>2. r # NothingToWrite
    BY <2>1 DEF ToSnapshot, NothingToWrite
  <2>3. QED
    BY <2>1, <2>2, ReadHasNoOwner DEF ToSnapshot
<1>5. CASE RestoreAfterFailure
  <2>1. PICK r \in ReadOutcomes :
          \/ r # NothingToWrite /\ worker' = ToApply(worker.slot, r[worker.slot])
          \/ worker' = ToApply(worker.slot, Empty)
    BY <1>5 DEF RestoreAfterFailure
  <2>2. worker.slot \in Slot
    BY DEF TypeOK
  <2>3. QED
    BY <2>1, <2>2, ReadHasNoOwner DEF ToApply, Only, NothingToWrite, Empty
<1>6. CASE ApplyResult \/ RunBoot \/ RunReboot
  BY <1>6 DEF ApplyResult, RunBoot, RunReboot, Idle
<1>7. CASE ~Work
  <2>1. worker' = worker
    BY <1>7
       DEF Next, Phones, ClearSlot, LoadSlot, ResetSlot, ResetSlotFails, RefreshPortal,
           LaunchGame, DropRequest, Disconnects, ClearSlotsForProfile, Kaos, SelectSwap,
           ExecuteKaosSwap, AbortKaosSwap, Send, Crash, Quit, QuitGame, QuitKill, QuitReset,
           DropQuit, Rescue, NoticeCrash, RememberPlaced, RescueReset, RescueBoot, RestoreFigure,
           RestoreDone, vars
  <2>2. QED
    BY <1>1, <2>1
<1>8. QED
  BY <1>2, <1>3, <1>4, <1>5, <1>6, <1>7 DEF Work

\* A job is announced or in the channel.
Waiting(job) ==
  \/ \E t \in Task : \E i \in DOMAIN todo[t] : todo[t][i] = job
  \/ \E i \in DOMAIN queue : queue[i] = job

\* A clear done on somebody's behalf is an old one, that of a departing player's
\* figure, or the first half of a swap.
LEMMA ClearsWaiting ==
  ASSUME TypeOK, [Next]_vars, NEW job, Waiting(job)',
         job.op = "clear", job.owner # NoProfile
  PROVE  \/ Waiting(job)
         \/ job.slot \in bypassed'
         \/ \E j \in Janitor, p \in Profile :
              ClearSlotsForProfile(j, p) /\ job.slot \in OwnedBy(p) /\ job.owner = p
<1>1. CASE UNCHANGED <<todo, queue>>
  BY <1>1 DEF Waiting
<1>2. ASSUME NEW t \in Task, NEW jobs, todo' = [todo EXCEPT ![t] = jobs], queue' = queue
      PROVE  Waiting(job) \/ \E i \in DOMAIN jobs : jobs[i] = job
  BY <1>2 DEF Waiting, TypeOK
<1>3. ASSUME NEW t \in Task, NEW new, todo' = [todo EXCEPT ![t] = <<new>>], queue' = queue,
             new.op # "clear" \/ new.owner = NoProfile
      PROVE  Waiting(job)
  <2> DEFINE jobs == <<new>>
  <2>1. \A i \in DOMAIN jobs : jobs[i] = new
    OBVIOUS
  <2>2. todo' = [todo EXCEPT ![t] = jobs] /\ queue' = queue
    BY <1>3
  <2> HIDE DEF jobs
  <2>3. Waiting(job) \/ \E i \in DOMAIN jobs : jobs[i] = job
    BY ONLY <1>2, <2>2
  <2>4. job # new
    BY <1>3
  <2>5. QED
    BY <2>1, <2>3, <2>4
<1>4. ASSUME NEW t \in Task, todo' = [todo EXCEPT ![t] = <<>>], queue' = queue
      PROVE  Waiting(job)
  BY <1>4 DEF Waiting, TypeOK
<1>5. /\ \A s, f, p : LoadJob(s, f, p).op = "load"
      /\ \A s : ClearJob(s, NoProfile).owner = NoProfile
      /\ \A op : WholeJob(op).owner = NoProfile
  BY DEF LoadJob, ClearJob, WholeJob
<1>6. CASE Phones
  <2>1. PICK r \in Request :
          /\ queue' = queue
          /\ \/ todo' = todo
             \/ todo' = [todo EXCEPT ![r] = <<>>]
             \/ \E new : /\ todo' = [todo EXCEPT ![r] = <<new>>]
                         /\ new.op # "clear" \/ new.owner = NoProfile
    BY <1>5, <1>6
       DEF Phones, ClearSlot, LoadSlot, ResetSlot, ResetSlotFails, RefreshPortal,
           LaunchGame, DropRequest, Announce
  <2>2. QED
    BY <1>1, <1>3, <1>4, <2>1, TaskFacts
<1>7. CASE Disconnects
  <2>1. PICK j \in Janitor, p \in Profile : ClearSlotsForProfile(j, p)
    BY <1>7 DEF Disconnects
  <2> DEFINE S == OwnedBy(p)
             n == Cardinality(S)
  <2>2. PICK q \in InOrder(S) : Announce(j, [i \in 1 .. n |-> ClearJob(q[i], p)])
    BY <2>1 DEF ClearSlotsForProfile
  <2> DEFINE jobs == [i \in 1 .. n |-> ClearJob(q[i], p)]
  <2>3. todo' = [todo EXCEPT ![j] = jobs] /\ queue' = queue
    BY <2>1, <2>2 DEF Announce, ClearSlotsForProfile
  <2>4. q \in [1 .. n -> S]
    BY DEF InOrder
  <2>5. \A i \in DOMAIN jobs : jobs[i].slot \in S /\ jobs[i].owner = p
    BY <2>4 DEF ClearJob
  <2> HIDE DEF jobs, S
  <2>6. QED
    BY <1>2, <2>1, <2>3, <2>5, TaskFacts DEF S
<1>8. CASE Kaos
  <2> DEFINE jobs == <<ClearJob(swap.slot, swap.by), LoadJob(swap.slot, swap.fig, swap.by)>>
  <2>1. /\ queue' = queue
        /\ \/ todo' = todo
           \/ todo' = [todo EXCEPT !["kaos"] = jobs] /\ swap.slot \in bypassed'
    BY <1>8 DEF Kaos, SelectSwap, ExecuteKaosSwap, AbortKaosSwap
  <2>2. \A i \in DOMAIN jobs : jobs[i].slot = swap.slot
    BY DEF ClearJob, LoadJob
  <2> HIDE DEF jobs
  <2>3. QED
    BY <1>1, <1>2, <2>1, <2>2, TaskFacts
<1>9. ASSUME NEW t \in Task, Send(t) PROVE Waiting(job)
  <2> DEFINE q == todo[t]
  <2>1. q \in Seq(Job) /\ q # <<>> /\ Head(q) \in Job /\ queue \in Seq(Job)
    BY <1>9, ListFacts DEF Send, TypeOK
  <2>2. /\ Head(q) = q[1] /\ 1 \in DOMAIN q
        /\ \A k \in DOMAIN Tail(q) : k + 1 \in DOMAIN q /\ Tail(q)[k] = q[k + 1]
    BY <2>1, TailFacts
  <2>3. \A i \in DOMAIN queue' : \/ i \in DOMAIN queue /\ queue'[i] = queue[i]
                                 \/ queue'[i] = Head(q)
    BY <1>9, <2>1, AppendFacts DEF Send
  <2>4. \A u \in Task : todo'[u] = IF u = t THEN Tail(q) ELSE todo[u]
    BY <1>9 DEF Send, TypeOK
  <2>5. Head(q) = job => Waiting(job)
    BY <2>2 DEF Waiting
  <2>6. \A k \in DOMAIN Tail(q) : Tail(q)[k] = job => Waiting(job)
    BY <2>2 DEF Waiting
  <2> HIDE DEF q
  <2>7. QED
    BY <2>3, <2>4, <2>5, <2>6 DEF Waiting
<1>10. ASSUME NEW op, Take(op), todo' = todo PROVE Waiting(job)
  <2>1. queue \in Seq(Job) /\ queue # <<>> /\ queue' = Tail(queue)
    BY <1>10 DEF Take, TypeOK
  <2>2. \A k \in DOMAIN queue' : k + 1 \in DOMAIN queue /\ queue'[k] = queue[k + 1]
    BY <2>1, TailFacts
  <2>3. QED
    BY <1>10, <2>2 DEF Waiting
<1>11. CASE Work
  BY <1>1, <1>10, <1>11
     DEF Work, RunLoad, RunClear, RestoreAfterFailure, RunRefresh, ApplyResult, RunBoot,
         RunReboot
<1>12. CASE Crash \/ Quit \/ UNCHANGED vars
  BY <1>1, <1>12 DEF Crash, Quit, QuitGame, QuitKill, QuitReset, DropQuit, vars
<1>13. CASE Rescue
  <2>1. \/ UNCHANGED <<todo, queue>>
        \/ /\ queue' = queue
           /\ \E new : todo' = [todo EXCEPT !["supervisor"] = <<new>>] /\ new.op = "load"
        \/ todo' = todo /\ queue' = Append(queue, WholeJob("reboot"))
    BY <1>5, <1>13
       DEF Rescue, NoticeCrash, RememberPlaced, RescueReset, RescueBoot,
           RestoreFigure, RestoreDone
  <2>2. ASSUME todo' = todo, queue' = Append(queue, WholeJob("reboot")) PROVE Waiting(job)
    <3>1. \A i \in DOMAIN queue' : \/ i \in DOMAIN queue /\ queue'[i] = queue[i]
                                   \/ queue'[i] = WholeJob("reboot")
      BY <2>2, AppendFacts, ConstructorTypes DEF TypeOK
    <3>2. QED
      BY <1>5, <2>2, <3>1 DEF Waiting
  <2>3. QED
    BY <1>1, <1>3, <2>1, <2>2, TaskFacts
<1>14. QED
  BY <1>6, <1>7, <1>8, <1>9, <1>11, <1>12, <1>13 DEF Next

\* A slot becomes accountable again only when no job of it is left.
LEMMA Accountable ==
  ASSUME TypeOK, [Next]_vars, NEW x \in bypassed, x \notin bypassed'
  PROVE  ~InFlight(x)
<1>1. CASE Phones
  <2>1. PICK r \in Request :
          \/ \E s \in Slot :
               \/ ClearSlot(r, s)
               \/ \E f \in Figure, p \in Owner :
                    LoadSlot(r, s, f, p) \/ ResetSlot(r, s, f, p) \/ ResetSlotFails(r, s, f, p)
          \/ RefreshPortal(r) \/ LaunchGame(r) \/ DropRequest(r)
    BY <1>1 DEF Phones
  <2>2. \A s, st : Mark(s, st) => ~InFlight(x)
    BY DEF Mark
  <2>3. QED
    BY <2>1, <2>2 DEF ClearSlot, LoadSlot, ResetSlot, ResetSlotFails, RefreshPortal,
                      LaunchGame, DropRequest
<1>2. CASE Disconnects
  BY <1>2 DEF Disconnects, ClearSlotsForProfile
<1>3. CASE Kaos \/ Work \/ \E t \in Task : Send(t)
  BY <1>3 DEF Kaos, SelectSwap, ExecuteKaosSwap, AbortKaosSwap, Send, Work, RunLoad,
              RunClear, RestoreAfterFailure, RunRefresh, ApplyResult, RunBoot, RunReboot,
              Boot, TypeOK
<1>4. CASE Crash \/ Quit \/ UNCHANGED vars
  BY <1>4 DEF Crash, Quit, QuitGame, QuitKill, QuitReset, DropQuit, ResetPortal, vars, TypeOK
<1>5. CASE Rescue
  BY <1>5 DEF Rescue, NoticeCrash, RememberPlaced, RescueReset, RescueBoot,
              RestoreFigure, RestoreDone,
              ResetPortal
<1>6. QED
  BY <1>1, <1>2, <1>3, <1>4, <1>5 DEF Next

LEMMA ClearsOwnedMeans ==
  ClearsOwned <=> \A job : Waiting(job) => MayClear(job)
BY DEF ClearsOwned, Waiting

LEMMA WaitingFor ==
  ASSUME TypeOK, NEW job, Waiting(job), job.op = "clear"
  PROVE  job.slot \in Slot /\ (Announced(job.slot) \/ Queued(job.slot))
<1>1. job \in Job
  BY DEF Waiting, TypeOK
<1>2. job.slot \in Slot
  BY <1>1 DEF Job
<1>3. For(job, job.slot)
  BY DEF For, SlotOp
<1>4. QED
  BY <1>2, <1>3 DEF Waiting, Announced, Queued

LEMMA ClearsOwnedNext ==
  ASSUME Driver = "uia", ExclusiveInv, ExclusiveInv', OwnerShown, ClearsOwned, [Next]_vars
  PROVE  ClearsOwned'
<1>1. \A job : Waiting(job)' => MayClear(job)'
  <2> SUFFICES ASSUME NEW job, Waiting(job)', job.op = "clear", job.owner # NoProfile,
                      job.slot \notin bypassed'
               PROVE  Owns(job.owner, emu'[job.slot])
    BY DEF MayClear
  <2> DEFINE x == job.slot
  <2>1. TypeOK /\ TypeOK'
    BY DEF ExclusiveInv
  <2>2. x \in Slot /\ (Announced(x)' \/ Queued(x)')
    <3>1. job \in Job
      BY <2>1 DEF Waiting, TypeOK
    <3>2. x \in Slot /\ For(job, x)
      BY <3>1 DEF Job, For, SlotOp
    <3>3. QED
      BY <3>2 DEF Waiting, Announced, Queued
  <2>3. emu'[x] \in {emu[x], Vacant}
    <3>1. OneJob(x)'
      BY <2>2 DEF ExclusiveInv
    <3>2. ~Working(x)'
      BY <2>2, <3>1 DEF OneJob
    <3>3. QED
      BY <2>1, <2>2, <3>2, FilesKept
  <2>4. Owns(job.owner, emu[x])
    <3>1. CASE Waiting(job)
      <4>1. InFlight(x)
        BY <2>1, <3>1, WaitingFor DEF InFlight
      <4>2. x \notin bypassed
        BY <2>1, <4>1, Accountable
      <4>3. QED
        BY <3>1, <4>2, ClearsOwnedMeans DEF MayClear
    <3>2. CASE \E j \in Janitor, p \in Profile :
                 ClearSlotsForProfile(j, p) /\ x \in OwnedBy(p) /\ job.owner = p
      <4>1. portal[x].kind = "Loaded" /\ portal[x].by = job.owner
        BY <3>2 DEF OwnedBy
      <4>2. ~Working(x)
        <5>1. CASE x \in bypassed
          BY <2>1, <5>1, Accountable DEF InFlight, Working
        <5>2. CASE x \notin bypassed
          BY <2>2, <4>1, <5>2 DEF ExclusiveInv, HasJob, Busy
        <5>3. QED
          BY <5>1, <5>2
      <4>3. QED
        BY <2>2, <4>1, <4>2 DEF OwnerShown
    <3>3. QED
      BY <2>1, <3>1, <3>2, ClearsWaiting
  <2>5. QED
    BY <2>3, <2>4 DEF Owns
<1>2. QED
  BY <1>1 DEF ClearsOwned, Waiting

LEMMA OwnersInit == Init => OwnersInv
<1> SUFFICES ASSUME Init PROVE OwnersInv
  OBVIOUS
<1>1. OwnerShown
  BY DEF Init, OwnerShown, Empty
<1>2. OwnerWritten
  BY DEF Init, OwnerWritten, Idle
<1>3. ClearsOwned
  BY DEF Init, ClearsOwned, MayClear, WholeJob
<1>4. QED
  BY <1>1, <1>2, <1>3, ExclusiveInit DEF OwnersInv

LEMMA OwnersNext ==
  ASSUME Driver = "uia", OwnersInv, SwapWaits, [Next]_vars PROVE OwnersInv'
<1>1. ExclusiveInv'
  BY ExclusiveNext DEF OwnersInv
<1>2. OwnerShown' /\ OwnerWritten'
  BY OwnerShownNext, OwnerWrittenNext DEF OwnersInv, ExclusiveInv
<1>3. ClearsOwned'
  BY <1>1, ClearsOwnedNext DEF OwnersInv
<1>4. QED
  BY <1>1, <1>2, <1>3 DEF OwnersInv

LEMMA OwnersStep == OwnersInv /\ [Next]_vars => ClearsOnlyOwnStep
<1> SUFFICES ASSUME OwnersInv, [Next]_vars, Len(queue') < Len(queue)
             PROVE  LET job == Head(queue) IN
                    job.op = "clear" /\ job.owner # NoProfile /\ job.slot \notin bypassed =>
                      emu[job.slot] = Vacant \/ emu[job.slot].owner = job.owner
  BY DEF ClearsOnlyOwnStep
<1>1. queue \in Seq(Job) /\ queue' \in Seq(Job)
  BY TypeNext DEF OwnersInv, ExclusiveInv, TypeOK
<1>2. queue # <<>>
  BY <1>1
<1>3. Head(queue) = queue[1] /\ 1 \in DOMAIN queue
  BY <1>1, <1>2, TailFacts
<1>4. QED
  BY <1>3 DEF OwnersInv, ClearsOwned, MayClear, Owns

\* A cleanup takes only its own player's figures off the portal, for every instance
\* with the driver that loads into the slot it is told.
THEOREM OwnersCorrect ==
  ASSUME Driver = "uia" PROVE Spec => ClearsOnlyOwn
<1>1. BackedInv => SwapWaits
  BY DEF BackedInv
<1>2. OwnersInv /\ SwapWaits /\ [Next]_vars => OwnersInv'
  BY OwnersNext
<1>3. QED
  BY <1>1, <1>2, BackedInit, BackedNext, OwnersInit, OwnersStep, PTL DEF Spec, ClearsOnlyOwn
=============================================================================
