-------------------------- MODULE LifecycleProofs --------------------------
(***************************************************************************)
(* For any number of handlers and any capacities: the types of the         *)
(* lifecycle, that no process is lost where dropping a handle kills, and   *)
(* that LOADING has its reasons. A process can be counted only when it is  *)
(* known who holds it, and this when an answer of the driver worker finds  *)
(* its requester waiting: hence the invariants about jobs.                 *)
(***************************************************************************)
EXTENDS Lifecycle, FiniteSetTheorems, TLAPS

\* There are finitely many handlers.
Handlers == IsFiniteSet(Handler)

HandlerType == handler \in [Handler -> [pc : HandlerPc, proc : BOOLEAN]]
QueueType   == queue \in Seq(Requester) /\ Len(queue) <= QueueCap
WorkerType  == worker \in [pc : {"idle", "booting", "up", "recorded"}, by : Requester, proc : BOOLEAN]
SupType ==
  /\ sup \in [pc : SupPc, tries : 0 .. MaxRespawns, game : BOOLEAN, proc : BOOLEAN]
  /\ sup.pc \in {"killing", "boot"} => sup.tries = 0
LifeType    == life \in [process : {"none", "alive", "dead"}, current : BOOLEAN, gui : BOOLEAN]
StatusType  == status \in [running : BOOLEAN, loading : BOOLEAN, switching : BOOLEAN,
                           cover : BOOLEAN, guiOpen : BOOLEAN, playable : BOOLEAN,
                           frozen : BOOLEAN, screen : {"Main", "Crashed", "Farewell"}]
FarewellType ==
  farewell \in [pc : {"no", "covering", "taking", "killing", "done"}, proc : BOOLEAN]
RestType ==
  /\ orphans \in 0 .. MaxOrphans
  /\ shown \in {"no", "closing", "game"}
  /\ watchers \in [watching : 0 .. MaxWatchers, clearing : 0 .. MaxWatchers]
  /\ leftover \in BOOLEAN

Shape ==
  /\ HandlerType /\ QueueType /\ WorkerType /\ SupType /\ LifeType /\ StatusType
  /\ FarewellType /\ RestType

\* Whoever asked for a boot waits for the answer.
Awaits(by) ==
  /\ by \in Handler => handler[by].pc = "waiting"
  /\ by = "supervisor" => sup.pc = "await"

\* Each requester has one boot under way.
JobsAreAwaited ==
  /\ \A i \in DOMAIN queue : Awaits(queue[i])
  /\ \A i, k \in DOMAIN queue : queue[i] = queue[k] /\ queue[i] # "nobody" => i = k
  /\ Awaits(worker.by)
  /\ worker.by # "nobody" => \A i \in DOMAIN queue : queue[i] # worker.by
  /\ worker.pc = "idle" => worker.by = "nobody"

\* A process is in hand only where the code has one.
HandsAreKnown ==
  /\ \A h \in Handler : handler[h].proc => handler[h].pc \in {"killing", "opened"}
  /\ worker.proc => worker.pc \in {"booting", "up"}
  /\ sup.proc => sup.pc = "killing"
  /\ farewell.proc => farewell.pc = "killing"

\* No more processes are held than run; where a drop kills, no fewer.
Counted == processes \in Int /\ processes >= Held /\ (KillOnDrop => processes = Held)

\* The processes that no handler need answer for.
Free ==
  processes - Bit(Recorded) - Bit(life.gui) - Bit(worker.proc) - Bit(sup.proc)
    - Bit(farewell.proc) - orphans

IInv == Shape /\ JobsAreAwaited /\ HandsAreKnown /\ Counted

\* What the set of handlers that hold a process counts.
LEMMA HoldersCount ==
  ASSUME Handlers, HandlerType
  PROVE  IsFiniteSet(Holders) /\ Cardinality(Holders) \in Nat
  BY FS_Subset, FS_CardinalityType DEF Handlers, Holders

\* A handler that takes or gives up a process changes the count by it.
LEMMA HoldersChange ==
  ASSUME Handlers, HandlerType, NEW h \in Handler, HandlerType',
         \A q \in Handler \ {h} : handler'[q].proc = handler[q].proc
  PROVE  Cardinality(Holders') = Cardinality(Holders) - Bit(handler[h].proc) + Bit(handler'[h].proc)
<1>1. IsFiniteSet(Holders) /\ Cardinality(Holders) \in Nat
  BY HoldersCount
<1>2. handler[h].proc \in BOOLEAN /\ handler'[h].proc \in BOOLEAN
  BY DEF HandlerType
<1>3. CASE handler[h].proc = handler'[h].proc
  <2>1. Holders' = Holders
    BY <1>3 DEF Holders
  <2> QED
    BY <1>1, <1>3, <2>1 DEF Bit
<1>4. CASE handler[h].proc /\ ~handler'[h].proc
  <2>1. Holders' = Holders \ {h} /\ h \in Holders
    BY <1>4 DEF Holders
  <2>2. Cardinality(Holders') = Cardinality(Holders) - 1
    BY <1>1, <2>1, FS_RemoveElement
  <2> QED
    BY <1>1, <1>4, <2>2 DEF Bit
<1>5. CASE ~handler[h].proc /\ handler'[h].proc
  <2>1. Holders' = Holders \cup {h} /\ h \notin Holders
    BY <1>5 DEF Holders
  <2>2. Cardinality(Holders') = Cardinality(Holders) + 1
    BY <1>1, <2>1, FS_AddElement
  <2> QED
    BY <1>1, <1>5, <2>2 DEF Bit
<1> QED
  BY <1>2, <1>3, <1>4, <1>5

\* Handlers that keep what they hold leave the count as it is.
LEMMA HoldersSame ==
  ASSUME \A q \in Handler : handler'[q].proc = handler[q].proc
  PROVE  Holders' = Holders
  BY DEF Holders

\* Nothing runs at the start.
LEMMA InitHolds == ASSUME Handlers PROVE Init => IInv
<1> SUFFICES ASSUME Init PROVE IInv
  OBVIOUS
<1> USE DEF Init
<1>1. Shape
  <2>1. HandlerType /\ WorkerType /\ SupType
    BY LifecycleAssumption
    DEF HandlerType, WorkerType, SupType, HandlerPc, SupPc, AtRest, Waiting, Watching, Requester
  <2>2. QueueType
    BY LifecycleAssumption DEF QueueType
  <2>3. LifeType /\ StatusType /\ FarewellType
    BY DEF LifeType, StatusType, FarewellType
  <2>4. 0 \in 0 .. MaxOrphans /\ 0 \in 0 .. MaxWatchers
    BY LifecycleAssumption
  <2>5. RestType
    BY <2>4 DEF RestType
  <2> QED
    BY <2>1, <2>2, <2>3, <2>5 DEF Shape
<1>2. JobsAreAwaited /\ HandsAreKnown
  BY LifecycleAssumption DEF JobsAreAwaited, Awaits, HandsAreKnown, AtRest, Waiting, Watching
<1>3. Counted
  <2>1. Holders = {}
    BY DEF Holders, AtRest
  <2>2. Cardinality(Holders) = 0
    BY <2>1, FS_EmptySet
  <2> QED
    BY <2>2 DEF Counted, Held, Bit, Recorded, Waiting, Watching
<1> QED
  BY <1>1, <1>2, <1>3 DEF IInv

\* The count in terms of the handlers.
LEMMA CountedByFree ==
  ASSUME Handlers, Shape, processes \in Int
  PROVE  /\ Free \in Int
         /\ Counted <=> /\ Free >= Cardinality(Holders)
                        /\ KillOnDrop => Free = Cardinality(Holders)
  BY HoldersCount, LifecycleAssumption
  DEF Counted, Held, Free, Bit, Shape, RestType

-----------------------------------------------------------------------------
(***************************************************************************)
(* Steps, by what they change.                                             *)
(***************************************************************************)
\* A step that leaves the handlers alone keeps the count, if it gives away no
\* process that it does not kill or hand on.
LEMMA FreeStep ==
  ASSUME Handlers, IInv, Shape', processes' \in Int,
         \A q \in Handler : handler'[q].proc = handler[q].proc,
         Free' >= Free, KillOnDrop => Free' = Free
  PROVE  Counted'
<1>1. /\ Free \in Int /\ Free >= Cardinality(Holders)
      /\ KillOnDrop => Free = Cardinality(Holders)
  BY CountedByFree DEF IInv, Counted
<1>2. Holders' = Holders /\ Cardinality(Holders) \in Nat
  BY HoldersSame, HoldersCount DEF IInv, Shape
<1>3. Free' \in Int
  BY LifecycleAssumption DEF Free, Bit, Shape, RestType
<1>4. Cardinality(Holders') = Cardinality(Holders) /\ Cardinality(Holders)' = Cardinality(Holders')
  BY <1>2
<1>5. Held' = processes' - Free' + Cardinality(Holders')
  BY <1>2, <1>4, LifecycleAssumption DEF Held, Free, Bit, Shape, RestType
<1> QED
  BY <1>1, <1>2, <1>3, <1>4, <1>5 DEF Counted

\* So does one of a handler, if it gives away no process either.
LEMMA HandlerCount ==
  ASSUME Handlers, IInv, Shape', processes' \in Int, NEW h \in Handler,
         \A q \in Handler \ {h} : handler'[q].proc = handler[q].proc,
         Free' - Bit(handler'[h].proc) >= Free - Bit(handler[h].proc),
         KillOnDrop => Free' - Bit(handler'[h].proc) = Free - Bit(handler[h].proc)
  PROVE  Counted'
<1>1. /\ Free \in Int /\ Free >= Cardinality(Holders)
      /\ KillOnDrop => Free = Cardinality(Holders)
  BY CountedByFree DEF IInv, Counted
<1>2. Cardinality(Holders) \in Nat
  BY HoldersCount DEF IInv, Shape
<1>3. Cardinality(Holders') = Cardinality(Holders) - Bit(handler[h].proc) + Bit(handler'[h].proc)
  BY HoldersChange DEF IInv, Shape
<1>4. Free' \in Int /\ Bit(handler[h].proc) \in Int /\ Bit(handler'[h].proc) \in Int
  BY LifecycleAssumption DEF Free, Bit, Shape, RestType
<1>5. Held' = processes' - Free' + Cardinality(Holders')
  BY <1>2, <1>3, <1>4, LifecycleAssumption DEF Held, Free, Bit, Shape, RestType
<1> QED
  BY <1>1, <1>2, <1>3, <1>4, <1>5 DEF Counted

\* A step that leaves handlers, jobs and the supervisor alone.
LEMMA OtherStep ==
  ASSUME Handlers, IInv, UNCHANGED <<handler, queue, worker, sup>>,
         LifeType', StatusType', FarewellType', RestType', processes' \in Int,
         farewell'.proc => farewell'.pc = "killing",
         Free' >= Free, KillOnDrop => Free' = Free
  PROVE  IInv'
<1>1. Shape'
  BY DEF IInv, Shape, HandlerType, QueueType, WorkerType, SupType
<1>2. JobsAreAwaited' /\ HandsAreKnown'
  BY DEF IInv, JobsAreAwaited, Awaits, HandsAreKnown
<1>3. Counted'
  BY <1>1, FreeStep
<1> QED
  BY <1>1, <1>2, <1>3 DEF IInv

\* A handler that is not waiting goes on, whatever it holds then.
LEMMA HandlerStep ==
  ASSUME Handlers, IInv, NEW h \in Handler, handler[h].pc # "waiting",
         NEW pc \in HandlerPc, NEW proc \in BOOLEAN, proc => pc \in {"killing", "opened"},
         handler' = [handler EXCEPT ![h] = [pc |-> pc, proc |-> proc]],
         UNCHANGED <<queue, worker, sup, farewell>>,
         LifeType', StatusType', RestType', processes' \in Int,
         Free' - Bit(proc) >= Free - Bit(handler[h].proc),
         KillOnDrop => Free' - Bit(proc) = Free - Bit(handler[h].proc)
  PROVE  IInv'
<1>1. /\ HandlerType' /\ handler'[h] = [pc |-> pc, proc |-> proc]
      /\ \A q \in Handler \ {h} : handler'[q] = handler[q]
  BY DEF IInv, Shape, HandlerType
<1>2. Shape'
  BY <1>1 DEF IInv, Shape, QueueType, WorkerType, SupType, FarewellType
<1>3. \A by : Awaits(by) => Awaits(by)'
  BY <1>1 DEF Awaits
<1>4. JobsAreAwaited'
  BY <1>3 DEF IInv, JobsAreAwaited
<1>5. HandsAreKnown'
  BY <1>1 DEF IInv, HandsAreKnown
<1>6. Counted'
  BY <1>1, <1>2, HandlerCount
<1> QED
  BY <1>2, <1>4, <1>5, <1>6 DEF IInv

\* The supervisor goes on, when it does not wait for a boot.
LEMMA SupStep ==
  ASSUME Handlers, IInv, sup.pc # "await", SupType', sup'.proc => sup'.pc = "killing",
         UNCHANGED <<handler, queue, worker, farewell>>,
         LifeType', StatusType', RestType', processes' \in Int,
         Free' >= Free, KillOnDrop => Free' = Free
  PROVE  IInv'
<1>1. Shape'
  BY DEF IInv, Shape, HandlerType, QueueType, WorkerType, FarewellType
<1>2. \A by : Awaits(by) => Awaits(by)'
  BY DEF Awaits
<1>3. JobsAreAwaited' /\ HandsAreKnown'
  BY <1>2 DEF IInv, JobsAreAwaited, HandsAreKnown
<1>4. Counted'
  BY <1>1, FreeStep
<1> QED
  BY <1>1, <1>3, <1>4 DEF IInv

\* What Goto and Finish make of a handler.
LEMMA Moves ==
  ASSUME HandlerType, NEW h \in Handler
  PROVE  /\ \A pc : Goto(h, pc) => handler' = [handler EXCEPT ![h] = [pc |-> pc, proc |-> handler[h].proc]]
         /\ Finish(h) => handler' = [handler EXCEPT ![h] = [pc |-> "idle", proc |-> FALSE]]
  BY DEF HandlerType, Goto, Finish, AtRest

\* The parts of the state that an action leaves alone keep their types.
LEMMA TypesStay ==
  ASSUME Shape
  PROVE  /\ UNCHANGED life => LifeType'
         /\ UNCHANGED status => StatusType'
         /\ UNCHANGED <<orphans, shown, watchers, leftover>> => RestType'
         /\ UNCHANGED <<orphans, shown, watchers>> /\ leftover' \in BOOLEAN => RestType'
  BY DEF Shape, LifeType, StatusType, RestType
-----------------------------------------------------------------------------
(***************************************************************************)
(* Handlers.                                                               *)
(***************************************************************************)
\* Requests begin and handlers end that hold no process.
LEMMA EmptyHandlersHold ==
  ASSUME Handlers, IInv, NEW h \in Handler,
         \/ Launch(h) \/ QuitGame(h) \/ OpenSettings(h)
         \/ LaunchFails(h) \/ LaunchDone(h)
  PROVE  IInv'
<1>1. PICK pc \in HandlerPc :
        handler' = [handler EXCEPT ![h] = [pc |-> pc, proc |-> FALSE]]
  <2>1. HandlerType
    BY DEF IInv, Shape
  <2>2. handler[h].pc \in {"idle", "launching", "failed", "booted"}
        /\ (Finish(h) \/ \E pc \in HandlerPc : Goto(h, pc))
    BY DEF Launch, QuitGame, OpenSettings, LaunchFails, LaunchDone, HandlerPc
  <2>3. handler[h].proc = FALSE
    BY <2>1, <2>2 DEF IInv, HandsAreKnown, HandlerType
  <2> QED
    BY <2>1, <2>2, <2>3, Moves DEF HandlerPc
<1>2. handler[h].pc # "waiting" /\ handler[h].proc = FALSE
  BY DEF Launch, QuitGame, OpenSettings, LaunchFails, LaunchDone, IInv, HandsAreKnown, Shape, HandlerType
<1>3. UNCHANGED <<life, processes, orphans, shown, watchers, queue, worker, sup, farewell>>
  BY DEF Launch, QuitGame, OpenSettings, LaunchFails, LaunchDone
<1>4. StatusType' /\ leftover' \in BOOLEAN
  <2> USE DEF IInv, Shape, StatusType, RestType
  <2>1. CASE Launch(h) \/ LaunchFails(h)
    BY <2>1 DEF Launch, LaunchFails
  <2>2. CASE QuitGame(h)
    BY <2>2 DEF QuitGame
  <2>3. CASE OpenSettings(h) \/ LaunchDone(h)
    BY <2>3 DEF OpenSettings, LaunchDone
  <2> QED
    BY <2>1, <2>2, <2>3
<1>5. LifeType' /\ RestType' /\ Free' = Free /\ Free \in Int
  BY <1>3, <1>4, TypesStay, CountedByFree DEF IInv, Free, Counted, Recorded
<1>6. Free' - Bit(FALSE) >= Free - Bit(handler[h].proc)
      /\ Free' - Bit(FALSE) = Free - Bit(handler[h].proc)
  BY <1>2, <1>5 DEF Bit
<1>7. processes' \in Int
  BY <1>3 DEF IInv, Counted
<1> QED
  BY <1>1, <1>2, <1>3, <1>4, <1>5, <1>6, <1>7, HandlerStep

\* A quit takes the process that the lifecycle holds, and kills it.
LEMMA QuitHolds ==
  ASSUME Handlers, IInv, NEW h \in Handler, QuitKill(h) \/ QuitClear(h) PROVE IInv'
<1> USE DEF IInv, Shape
<1>1. CASE QuitKill(h)
  <2>1. /\ handler[h].pc = "covering" /\ handler[h].proc = FALSE
        /\ handler' = [handler EXCEPT ![h] = [pc |-> "killing", proc |-> Recorded]]
        /\ life' = [life EXCEPT !.process = "none", !.current = FALSE]
        /\ UNCHANGED <<processes, orphans, status, shown, queue, worker, sup, farewell, watchers, leftover>>
    BY <1>1 DEF QuitKill, HandsAreKnown, HandlerType
  <2>2. LifeType' /\ life'.process = "none" /\ life'.gui = life.gui
    BY <2>1 DEF LifeType
  <2>3. StatusType' /\ RestType' /\ processes' \in Int
    BY <2>1, TypesStay DEF Counted
  <2>4. Free' - Bit(Recorded) = Free - Bit(handler[h].proc) /\ Free \in Int
    BY <2>1, <2>2, CountedByFree, LifecycleAssumption DEF Free, Bit, Recorded, Counted, RestType
  <2>5. Recorded \in BOOLEAN /\ "killing" \in HandlerPc
    BY DEF Recorded, HandlerPc
  <2>6. Free' - Bit(Recorded) >= Free - Bit(handler[h].proc)
    BY <2>1, <2>4 DEF Bit
  <2> QED
    BY <2>1, <2>2, <2>3, <2>4, <2>5, <2>6, HandlerStep
<1>2. CASE QuitClear(h)
  <2>1. /\ handler[h].pc = "killing"
        /\ handler' = [handler EXCEPT ![h] = [pc |-> "idle", proc |-> FALSE]]
        /\ processes' = processes - Bit(handler[h].proc)
        /\ status' = [status EXCEPT !.running = FALSE, !.cover = FALSE]
        /\ leftover' = status.loading
        /\ UNCHANGED <<life, orphans, shown, queue, worker, sup, farewell, watchers>>
    BY <1>2, Moves DEF QuitClear, Kill
  <2>2. StatusType' /\ leftover' \in BOOLEAN
    BY <2>1 DEF StatusType
  <2>3. LifeType' /\ RestType' /\ processes' \in Int
    BY <2>1, <2>2, TypesStay DEF Counted, Bit
  <2>4. Free' - Bit(FALSE) = Free - Bit(handler[h].proc) /\ Free \in Int
        /\ Free' - Bit(FALSE) >= Free - Bit(handler[h].proc)
    BY <2>1, CountedByFree, LifecycleAssumption DEF Free, Bit, Recorded, Counted, RestType
  <2> QED
    BY <2>1, <2>2, <2>3, <2>4, HandlerStep DEF HandlerPc
<1> QED
  BY <1>1, <1>2

\* The settings are opened, and their window takes the place of another.
LEMMA GuiHolds ==
  ASSUME Handlers, IInv, NEW h \in Handler, SpawnGui(h) \/ RecordGui(h) PROVE IInv'
<1> USE DEF IInv, Shape
<1>1. CASE SpawnGui(h)
  <2>1. /\ handler[h].pc = "opening" /\ handler[h].proc = FALSE
        /\ UNCHANGED <<life, orphans, status, shown, queue, worker, sup, farewell, watchers, leftover>>
    BY <1>1 DEF SpawnGui, HandsAreKnown, HandlerType
  <2>2. LifeType' /\ StatusType' /\ RestType' /\ Free \in Int
    BY <2>1, TypesStay, CountedByFree DEF Counted
  <2>3. CASE processes' = processes + 1
             /\ handler' = [handler EXCEPT ![h] = [pc |-> "opened", proc |-> TRUE]]
    <3>1. processes' \in Int /\ Free' - Bit(TRUE) = Free - Bit(handler[h].proc)
          /\ Free' - Bit(TRUE) >= Free - Bit(handler[h].proc)
      BY <2>1, <2>2, <2>3, LifecycleAssumption DEF Free, Bit, Recorded, Counted, RestType
    <3> QED
      BY <2>1, <2>2, <2>3, <3>1, HandlerStep DEF HandlerPc
  <2>4. CASE UNCHANGED processes /\ Finish(h)
    <3>1. processes' \in Int /\ Free' - Bit(FALSE) = Free - Bit(handler[h].proc)
          /\ Free' - Bit(FALSE) >= Free - Bit(handler[h].proc)
      BY <2>1, <2>2, <2>4, LifecycleAssumption DEF Free, Bit, Recorded, Counted, RestType
    <3> QED
      BY <2>1, <2>2, <2>4, <3>1, HandlerStep, Moves DEF HandlerPc
  <2> QED
    BY <1>1, <2>3, <2>4 DEF SpawnGui
<1>2. CASE RecordGui(h)
  <2>1. /\ handler[h].pc = "opened" /\ watchers.watching < MaxWatchers
        /\ handler' = [handler EXCEPT ![h] = [pc |-> "idle", proc |-> FALSE]]
        /\ processes' = processes - Bit(life.gui /\ KillOnDrop)
        /\ life' = [life EXCEPT !.gui = handler[h].proc]
        /\ status' = [status EXCEPT !.guiOpen = TRUE]
        /\ watchers' = [watchers EXCEPT !.watching = watchers.watching + 1]
        /\ UNCHANGED <<orphans, shown, queue, worker, sup, farewell, leftover>>
    BY <1>2, Moves DEF RecordGui, Drop, Kill
  <2>2. /\ handler[h].proc \in BOOLEAN
        /\ LifeType' /\ life'.process = life.process /\ life'.gui = handler[h].proc
    BY <2>1 DEF LifeType, HandlerType
  <2>3. StatusType'
    BY <2>1 DEF StatusType
  <2>4. RestType'
    BY <2>1, LifecycleAssumption DEF RestType
  <2>5. /\ processes' \in Int
        /\ Free' - Bit(FALSE) >= Free - Bit(handler[h].proc)
        /\ KillOnDrop => Free' - Bit(FALSE) = Free - Bit(handler[h].proc)
    BY <2>1, <2>2, LifecycleAssumption DEF Free, Bit, Recorded, Counted, RestType
  <2> QED
    BY <2>1, <2>2, <2>3, <2>4, <2>5, HandlerStep DEF HandlerPc
<1> QED
  BY <1>1, <1>2

\* A handler that is dropped leaves the boot that it asked for to nobody, and a
\* shutdown that it began to itself.
LEMMA DropHolds == ASSUME Handlers, IInv, NEW h \in Handler, DropHandler(h) PROVE IInv'
<1> USE DEF IInv, Shape
<1>1. /\ handler[h].pc # "idle"
      /\ handler' = [handler EXCEPT ![h] = [pc |-> "idle", proc |-> FALSE]]
      /\ queue' = [i \in DOMAIN queue |-> Orphaned(h, queue[i])]
      /\ worker' = [worker EXCEPT !.by = Orphaned(h, worker.by)]
      /\ UNCHANGED <<life, shown, sup, farewell, watchers>>
  BY Moves DEF DropHandler
<1>2. /\ HandlerType' /\ handler'[h] = [pc |-> "idle", proc |-> FALSE]
      /\ \A q \in Handler \ {h} : handler'[q] = handler[q]
  BY <1>1 DEF HandlerType, HandlerPc
<1>3. \A by \in Requester : /\ Orphaned(h, by) \in Requester \ {h}
                            /\ Orphaned(h, by) # "nobody" => Orphaned(h, by) = by
  BY LifecycleAssumption DEF Orphaned, Requester
<1>4. /\ DOMAIN queue = 1 .. Len(queue) /\ Len(queue) \in Nat /\ Len(queue) <= QueueCap
      /\ \A i \in DOMAIN queue : queue[i] \in Requester
  BY DEF QueueType
<1>5. QueueType' /\ DOMAIN queue' = DOMAIN queue
      /\ \A i \in DOMAIN queue : queue'[i] = Orphaned(h, queue[i])
  <2>1. queue' = [i \in 1 .. Len(queue) |-> Orphaned(h, queue[i])]
    BY <1>1, <1>4
  <2>2. queue' \in Seq(Requester) /\ Len(queue') = Len(queue)
    BY <1>3, <1>4, <2>1
  <2> QED
    BY <1>4, <2>1, <2>2 DEF QueueType
<1>6. /\ WorkerType' /\ worker'.pc = worker.pc /\ worker'.proc = worker.proc
      /\ worker'.by = Orphaned(h, worker.by) /\ worker.by \in Requester
  BY <1>1, <1>3 DEF WorkerType
<1>7. StatusType' /\ leftover' \in BOOLEAN
  <2>1. CASE UNCHANGED <<status, leftover>>
    BY <2>1 DEF StatusType, RestType
  <2>2. CASE status' = [status EXCEPT !.loading = FALSE] /\ leftover' = FALSE
    BY <2>2 DEF StatusType
  <2> QED
    BY <2>1, <2>2 DEF DropHandler
<1>8. SupType' /\ LifeType' /\ FarewellType'
  BY <1>1 DEF SupType, LifeType, FarewellType
<1>9. \A by \in Requester \ {h} : Awaits(by) => Awaits(by)'
  BY <1>1, <1>2 DEF Awaits
<1>10. Awaits("nobody")'
  BY LifecycleAssumption DEF Awaits
<1>11. \A by \in Requester : Awaits(by) => Awaits(Orphaned(h, by))'
  BY <1>3, <1>9, <1>10
<1>12. JobsAreAwaited'
  <2>1. ASSUME NEW i \in DOMAIN queue' PROVE Awaits(queue[i])'
    <3>1. queue[i] \in Requester /\ Awaits(queue[i]) /\ queue'[i] = Orphaned(h, queue[i])
      BY <1>4, <1>5 DEF JobsAreAwaited
    <3>2. PICK by \in Requester : by = queue[i]
      BY <3>1
    <3>3. Awaits(Orphaned(h, by))'
      BY <1>11, <3>1, <3>2
    <3> QED
      BY <3>1, <3>2, <3>3 DEF Awaits
  <2>2. Awaits(worker.by)'
    <3>1. PICK by \in Requester : by = worker.by /\ worker'.by = Orphaned(h, by)
      BY <1>6
    <3>2. Awaits(Orphaned(h, by))'
      BY <1>11, <3>1 DEF JobsAreAwaited
    <3> QED
      BY <3>1, <3>2 DEF Awaits
  <2>3. \A i, k \in DOMAIN queue' : queue'[i] = queue'[k] /\ queue'[i] # "nobody" => i = k
    BY <1>3, <1>4, <1>5 DEF JobsAreAwaited
  <2>4. worker'.by # "nobody" => \A i \in DOMAIN queue' : queue'[i] # worker'.by
    BY <1>3, <1>4, <1>5, <1>6 DEF JobsAreAwaited
  <2>5. worker'.pc = "idle" => worker'.by = "nobody"
    BY <1>6 DEF JobsAreAwaited, Orphaned
  <2> QED
    BY <2>1, <2>2, <2>3, <2>4, <2>5 DEF JobsAreAwaited
<1>13. HandsAreKnown'
  BY <1>1, <1>2, <1>6 DEF HandsAreKnown
<1>14. handler[h].proc \in BOOLEAN /\ Free \in Int
  BY CountedByFree DEF HandlerType, Counted
<1>15. /\ orphans' \in 0 .. MaxOrphans /\ processes' \in Int
       /\ Free' - Bit(FALSE) >= Free - Bit(handler[h].proc)
       /\ KillOnDrop => Free' - Bit(FALSE) = Free - Bit(handler[h].proc)
  <2>1. CASE handler[h].proc /\ orphans < MaxOrphans /\ orphans' = orphans + 1 /\ UNCHANGED processes
    BY <1>1, <1>6, <1>14, <2>1, LifecycleAssumption DEF Free, Bit, Recorded, Counted, RestType
  <2>2. CASE processes' = processes - Bit(handler[h].proc /\ KillOnDrop) /\ UNCHANGED orphans
    BY <1>1, <1>6, <1>14, <2>2, LifecycleAssumption DEF Free, Bit, Recorded, Counted, RestType
  <2> QED
    BY <2>1, <2>2 DEF DropHandler, Drop, Kill
<1>16. RestType'
  BY <1>1, <1>7, <1>15 DEF RestType
<1>17. Shape'
  BY <1>2, <1>5, <1>6, <1>7, <1>8, <1>16
<1>18. Counted'
  <2>1. handler'[h].proc = FALSE /\ \A q \in Handler \ {h} : handler'[q].proc = handler[q].proc
    BY <1>2
  <2> QED
    BY <1>15, <1>17, <2>1, HandlerCount
<1> QED
  BY <1>12, <1>13, <1>17, <1>18

\* A requester that has no job sends one and waits.
LEMMA SendHolds ==
  ASSUME Handlers, IInv, NEW by \in Requester \ {"nobody"}, ~Awaits(by),
         Len(queue) < QueueCap, queue' = Append(queue, by), Awaits(by)',
         \A q \in Requester \ {by} : Awaits(q) => Awaits(q)',
         HandlerType', SupType', \A q \in Handler : handler'[q].proc = handler[q].proc,
         sup'.proc = sup.proc, HandsAreKnown',
         UNCHANGED <<life, processes, orphans, status, shown, worker, farewell, watchers, leftover>>
  PROVE  IInv'
<1> USE DEF IInv, Shape
<1>1. QueueType' /\ Len(queue) \in Nat /\ DOMAIN queue = 1 .. Len(queue)
      /\ DOMAIN queue' = 1 .. Len(queue) + 1 /\ queue'[Len(queue) + 1] = by
      /\ \A i \in DOMAIN queue : queue'[i] = queue[i] /\ queue[i] \in Requester
  <2>1. queue \in Seq(Requester) /\ by \in Requester /\ Len(queue) \in Nat /\ Len(queue) <= QueueCap
    BY DEF QueueType
  <2>2. queue' \in Seq(Requester) /\ Len(queue') = Len(queue) + 1
    BY <2>1
  <2>3. Len(queue') <= QueueCap
    BY <2>1, <2>2, LifecycleAssumption
  <2>4. QueueType'
    BY <2>2, <2>3 DEF QueueType
  <2> QED
    BY <2>1, <2>2, <2>4
<1>2. Shape'
  BY <1>1, TypesStay DEF WorkerType, FarewellType
<1>3. worker.by \in Requester
  BY DEF WorkerType
<1>4. (\A i \in DOMAIN queue : queue[i] # by) /\ worker.by # by
  BY DEF JobsAreAwaited
<1>5. JobsAreAwaited'
  <2>1. ASSUME NEW i \in DOMAIN queue' PROVE Awaits(queue[i])'
    <3>1. CASE i = Len(queue) + 1
      BY <1>1, <3>1 DEF Awaits
    <3>2. CASE i # Len(queue) + 1
      <4>1. i \in DOMAIN queue /\ queue'[i] = queue[i]
        BY <1>1, <3>2
      <4>2. PICK q \in Requester \ {by} : q = queue[i]
        BY <1>1, <1>4, <4>1
      <4>3. Awaits(q)'
        BY <4>1, <4>2 DEF JobsAreAwaited
      <4> QED
        BY <4>1, <4>2, <4>3 DEF Awaits
    <3> QED
      BY <3>1, <3>2
  <2>2. Awaits(worker.by)'
    <3>1. PICK q \in Requester \ {by} : q = worker.by
      BY <1>3, <1>4
    <3>2. Awaits(q)'
      BY <3>1 DEF JobsAreAwaited
    <3> QED
      BY <3>1, <3>2 DEF Awaits
  <2>3. \A i, k \in DOMAIN queue' : queue'[i] = queue'[k] /\ queue'[i] # "nobody" => i = k
    BY <1>1, <1>4 DEF JobsAreAwaited
  <2>4. worker.by # "nobody" => \A i \in DOMAIN queue' : queue'[i] # worker.by
    BY <1>1, <1>4 DEF JobsAreAwaited
  <2> QED
    BY <2>1, <2>2, <2>3, <2>4 DEF JobsAreAwaited
<1>6. Free' = Free /\ Free \in Int
  BY CountedByFree DEF Free, Recorded, Counted
<1>7. Counted'
  BY <1>2, <1>6, FreeStep DEF Counted
<1> QED
  BY <1>2, <1>5, <1>7

\* launch_game sends its boot.
LEMMA QueueBootHolds == ASSUME Handlers, IInv, NEW h \in Handler, QueueBoot(h) PROVE IInv'
<1> USE DEF IInv, Shape
<1>1. /\ handler[h].pc = "launching" /\ handler[h].proc = FALSE
      /\ handler' = [handler EXCEPT ![h] = [pc |-> "waiting", proc |-> FALSE]]
      /\ Len(queue) < QueueCap /\ queue' = Append(queue, h)
      /\ UNCHANGED <<life, processes, orphans, status, shown, worker, sup, farewell, watchers, leftover>>
  BY Moves DEF QueueBoot, HandsAreKnown, HandlerType
<1>2. /\ HandlerType' /\ handler'[h] = [pc |-> "waiting", proc |-> FALSE]
      /\ \A q \in Handler \ {h} : handler'[q] = handler[q]
  BY <1>1 DEF HandlerType, HandlerPc
<1>3. h \in Requester \ {"nobody"} /\ h # "supervisor" /\ ~Awaits(h) /\ Awaits(h)'
  BY <1>1, <1>2, LifecycleAssumption DEF Requester, Awaits
<1>4. \A q \in Requester \ {h} : Awaits(q) => Awaits(q)'
  BY <1>1, <1>2 DEF Awaits
<1>5. ASSUME NEW q \in Handler PROVE handler'[q].proc = handler[q].proc
  <2>1. handler'[h].proc = FALSE
    BY <1>2
  <2>2. CASE q = h
    BY <1>1, <2>1, <2>2
  <2>3. CASE q # h
    BY <1>2, <2>3
  <2> QED
    BY <2>2, <2>3
<1>6. SupType'
  BY <1>1 DEF SupType
<1>7. HandsAreKnown'
  BY <1>1, <1>2 DEF HandsAreKnown
<1> QED
  BY <1>1, <1>2, <1>3, <1>4, <1>5, <1>6, <1>7, SendHolds

\* The supervisor sends its boot, as long as it has attempts.
LEMMA RespawnHolds == ASSUME Handlers, IInv, Respawn PROVE IInv'
<1> USE DEF IInv, Shape
<1>1. /\ sup.pc \in {"boot", "failed"} /\ sup.proc = FALSE
      /\ sup' = [sup EXCEPT !.pc = "await", !.tries = sup.tries + 1]
      /\ Len(queue) < QueueCap /\ queue' = Append(queue, "supervisor")
      /\ UNCHANGED <<life, processes, orphans, status, shown, handler, worker, farewell, watchers, leftover>>
  BY DEF Respawn, HandsAreKnown, SupType
<1>2. sup.tries \in Nat /\ sup.tries < MaxRespawns
  BY LifecycleAssumption DEF Respawn, SupType
<1>3. SupType' /\ sup'.pc = "await" /\ sup'.proc = FALSE
  <2>1. sup.tries + 1 \in 0 .. MaxRespawns /\ sup.game \in BOOLEAN
    BY <1>2, LifecycleAssumption DEF SupType
  <2>2. sup' = [pc |-> "await", tries |-> sup.tries + 1, game |-> sup.game, proc |-> FALSE]
    <3>1. sup = [pc |-> sup.pc, tries |-> sup.tries, game |-> sup.game, proc |-> FALSE]
      BY <1>1 DEF SupType
    <3> QED
      BY <1>1, <3>1
  <2> QED
    BY <2>1, <2>2 DEF SupType, SupPc
<1>4. "supervisor" \in Requester \ {"nobody"} /\ "supervisor" \notin Handler
      /\ ~Awaits("supervisor") /\ Awaits("supervisor")'
  BY <1>1, <1>3, LifecycleAssumption DEF Requester, Awaits
<1>5. \A q \in Requester \ {"supervisor"} : Awaits(q) => Awaits(q)'
  BY <1>1 DEF Awaits
<1>6. HandlerType' /\ \A q \in Handler : handler'[q].proc = handler[q].proc
  BY <1>1 DEF HandlerType
<1>7. HandsAreKnown'
  BY <1>1, <1>3 DEF HandsAreKnown
<1> QED
  BY <1>1, <1>3, <1>4, <1>5, <1>6, <1>7, SendHolds
-----------------------------------------------------------------------------
(***************************************************************************)
(* The supervisor, the settings watchers, shutdown, poller and frames.     *)
(***************************************************************************)
\* The supervisor takes what the lifecycle holds, and kills it.
LEMMA RecoveryHolds ==
  ASSUME Handlers, IInv, NoticeCrash \/ NoticeFreeze \/ SeeFreeze \/ ResetStatus \/ Recovered \/ GiveUp
  PROVE  IInv'
<1> USE DEF IInv, Shape
<1>0. Free \in Int /\ LifeType /\ StatusType
  BY CountedByFree DEF Counted
<1>1. CASE NoticeCrash \/ NoticeFreeze
  <2>1. /\ sup.pc \in {"watch", "look"} /\ sup.proc = FALSE
        /\ sup' = [pc |-> "killing", tries |-> 0, game |-> life.current, proc |-> Recorded]
        /\ life' = [life EXCEPT !.process = "none", !.current = FALSE]
        /\ UNCHANGED <<processes, orphans, status, shown, handler, queue, worker, farewell, watchers, leftover>>
    BY <1>1 DEF NoticeCrash, NoticeFreeze, TakeForRecovery, HandsAreKnown, SupType
  <2>2. LifeType' /\ life'.process = "none" /\ life'.gui = life.gui /\ life.current \in BOOLEAN
    BY <2>1 DEF LifeType
  <2>3. SupType' /\ sup'.pc = "killing" /\ sup'.proc = Recorded
    BY <2>1, <2>2, LifecycleAssumption DEF SupType, SupPc, Recorded
  <2>4. StatusType' /\ RestType' /\ processes' \in Int
    BY <2>1, TypesStay DEF Counted
  <2>5. Free' = Free
    <3>1. Bit(Recorded)' = 0 /\ Bit(sup.proc)' = Bit(Recorded) /\ Bit(sup.proc) = 0
      BY <2>1, <2>2, <2>3 DEF Bit, Recorded
    <3>2. /\ processes \in Int /\ orphans \in Int /\ Bit(Recorded) \in Int
          /\ Bit(life.gui) \in Int /\ Bit(worker.proc) \in Int /\ Bit(farewell.proc) \in Int
      BY LifecycleAssumption DEF Bit, Counted, RestType
    <3> QED
      BY <2>1, <2>2, <3>1, <3>2 DEF Free
  <2> QED
    BY <1>0, <2>1, <2>2, <2>3, <2>4, <2>5, SupStep
<1>2. CASE SeeFreeze
  <2>1. /\ sup.pc = "watch" /\ sup.proc = FALSE
        /\ sup' = [sup EXCEPT !.pc = "look"]
        /\ UNCHANGED <<life, processes, orphans, status, shown, handler, queue, worker, farewell, watchers, leftover>>
    BY <1>2 DEF SeeFreeze, HandsAreKnown, SupType
  <2>2. SupType' /\ sup'.proc = FALSE
    BY <2>1 DEF SupType, SupPc
  <2>3. LifeType' /\ StatusType' /\ RestType' /\ processes' \in Int
    BY <2>1, TypesStay DEF Counted
  <2>4. Free' = Free
    BY <2>1, <2>2 DEF Free, Recorded
  <2> QED
    BY <1>0, <2>1, <2>2, <2>3, <2>4, SupStep
<1>3. CASE ResetStatus
  <2>1. /\ sup.pc = "killing" /\ sup.proc \in BOOLEAN /\ sup.game \in BOOLEAN
        /\ processes' = processes - Bit(sup.proc)
        /\ status' = [status EXCEPT !.running = FALSE, !.playable = FALSE, !.frozen = FALSE,
                                    !.loading = sup.game, !.screen = "Main"]
        /\ leftover' = FALSE
        /\ sup' = [sup EXCEPT !.pc = IF sup.game THEN "boot" ELSE "giveup", !.proc = FALSE]
        /\ UNCHANGED <<life, orphans, shown, handler, queue, worker, farewell, watchers>>
    BY <1>3 DEF ResetStatus, Kill, SupType
  <2>2. SupType' /\ sup'.proc = FALSE
    BY <2>1 DEF SupType, SupPc
  <2>3. StatusType'
    BY <1>0, <2>1 DEF StatusType
  <2>4. LifeType' /\ RestType'
    BY <2>1, TypesStay
  <2>5. processes' \in Int
    BY <2>1 DEF Counted, Bit
  <2>6. Free' = Free
    BY <2>1, <2>2, LifecycleAssumption DEF Free, Bit, Recorded, Counted, RestType
  <2> QED
    BY <1>0, <2>1, <2>2, <2>3, <2>4, <2>5, <2>6, SupStep
<1>4. CASE Recovered \/ GiveUp
  <2>1. /\ sup.pc \in {"booted", "giveup", "failed"} /\ sup.proc = FALSE
        /\ sup' = Watching /\ leftover' = FALSE
        /\ UNCHANGED <<life, processes, orphans, shown, handler, queue, worker, farewell, watchers>>
    BY <1>4 DEF Recovered, GiveUp, HandsAreKnown, SupType
  <2>2. SupType' /\ sup'.proc = FALSE
    BY <2>1, LifecycleAssumption DEF SupType, SupPc, Watching
  <2>3. StatusType'
    <3>1. CASE Recovered
      BY <1>0, <3>1 DEF Recovered, StatusType
    <3>2. CASE GiveUp
      BY <1>0, <3>2 DEF GiveUp, StatusType
    <3> QED
      BY <1>4, <3>1, <3>2
  <2>4. LifeType' /\ RestType' /\ processes' \in Int
    BY <2>1, TypesStay DEF Counted
  <2>5. Free' = Free
    BY <2>1, <2>2 DEF Free, Recorded
  <2> QED
    BY <1>0, <2>1, <2>2, <2>3, <2>4, <2>5, SupStep
<1> QED
  BY <1>1, <1>2, <1>3, <1>4

\* What only the status, the watchers or the screen see.
LEMMA LooksHold ==
  ASSUME Handlers, IInv, Reap \/ ReapedFlag \/ Poll \/ Frame \/ Restart
  PROVE  IInv'
<1> USE DEF IInv, Shape
<1>1. UNCHANGED <<life, processes, orphans, handler, queue, worker, sup, farewell>>
  BY DEF Reap, ReapedFlag, Poll, Frame, Restart
<1>2. Free' = Free /\ Free \in Int /\ processes' \in Int /\ LifeType' /\ FarewellType'
      /\ (farewell'.proc => farewell'.pc = "killing")
  BY <1>1, CountedByFree DEF Free, Recorded, Counted, LifeType, FarewellType, HandsAreKnown
<1>3. StatusType' /\ RestType'
  <2>1. CASE Reap
    BY <2>1, LifecycleAssumption DEF Reap, StatusType, RestType
  <2>2. CASE ReapedFlag
    <3>1. StatusType'
      BY <2>2 DEF ReapedFlag, StatusType
    <3>2. RestType'
      BY <2>2, LifecycleAssumption DEF ReapedFlag, RestType
    <3> QED
      BY <3>1, <3>2
  <2>3. CASE Poll
    <3>1. PICK playable \in BOOLEAN, frozen \in BOOLEAN : Latch(playable, frozen)
      BY <2>3 DEF Poll, PollStopped, PollReady, PollFrozen, PollUnsure, StatusType
    <3>2. StatusType'
      BY <3>1 DEF Latch, StatusType
    <3> QED
      BY <2>3, <3>2, TypesStay DEF Poll
  <2>4. CASE Frame
    <3>1. PICK next \in NextShown :
            /\ shown' = next
            /\ status' = [status EXCEPT !.loading = status.loading /\ ~Returning /\ next # "game"]
            /\ leftover' = (leftover /\ ~Returning /\ next # "game")
            /\ UNCHANGED watchers
      BY <2>4 DEF Frame
    <3>2. next \in {"no", "closing", "game"}
      BY <3>1 DEF NextShown
    <3>3. StatusType'
      BY <3>1 DEF StatusType
    <3>4. RestType'
      BY <1>1, <3>1, <3>2 DEF RestType
    <3> QED
      BY <3>3, <3>4
  <2>5. CASE Restart
    <3>1. StatusType' /\ leftover' \in BOOLEAN
      BY <2>5 DEF Restart, StatusType
    <3> QED
      BY <2>5, <3>1, TypesStay DEF Restart
  <2> QED
    BY <2>1, <2>2, <2>3, <2>4, <2>5
<1> QED
  BY <1>1, <1>2, <1>3, OtherStep

\* The shutdown's task takes what the lifecycle holds, and kills it.
LEMMA FarewellHolds ==
  ASSUME Handlers, IInv,
         (\E h \in Handler : Shutdown(h)) \/ FarewellForget \/ FarewellKill \/ FarewellClear
  PROVE  IInv'
<1> USE DEF IInv, Shape
<1>0. Free \in Int /\ LifeType /\ StatusType /\ processes \in Int
  BY CountedByFree DEF Counted
<1>1. CASE \E h \in Handler : Shutdown(h)
  <2>1. /\ farewell.pc = "no" /\ farewell.proc = FALSE
        /\ farewell' = [farewell EXCEPT !.pc = "covering"]
        /\ status' = [status EXCEPT !.screen = "Farewell"]
        /\ UNCHANGED <<life, processes, orphans, shown, handler, queue, worker, sup, watchers, leftover>>
    BY <1>1 DEF Shutdown, HandsAreKnown, FarewellType
  <2>2. FarewellType' /\ farewell'.proc = FALSE
    BY <2>1 DEF FarewellType
  <2>3. StatusType'
    BY <2>1 DEF StatusType
  <2>4. LifeType' /\ RestType' /\ Free' = Free
    BY <2>1, <2>2, TypesStay DEF Free, Recorded
  <2> QED
    BY <1>0, <2>1, <2>2, <2>3, <2>4, OtherStep
<1>2. CASE FarewellForget
  <2>1. /\ farewell.pc = "covering" /\ farewell.proc = FALSE
        /\ farewell' = [farewell EXCEPT !.pc = "taking"]
        /\ life' = [life EXCEPT !.current = FALSE]
        /\ UNCHANGED <<processes, orphans, status, shown, handler, queue, worker, sup, watchers, leftover>>
    BY <1>2 DEF FarewellForget, HandsAreKnown, FarewellType
  <2>2. FarewellType' /\ farewell'.proc = FALSE
    BY <2>1 DEF FarewellType
  <2>3. LifeType' /\ life'.process = life.process /\ life'.gui = life.gui
    BY <2>1 DEF LifeType
  <2>4. StatusType' /\ RestType' /\ Free' = Free
    BY <2>1, <2>2, <2>3, TypesStay DEF Free, Recorded
  <2> QED
    BY <1>0, <2>1, <2>2, <2>3, <2>4, OtherStep
<1>3. CASE FarewellKill
  <2>1. /\ farewell.pc = "taking" /\ farewell.proc = FALSE
        /\ farewell' = [pc |-> "killing", proc |-> Recorded]
        /\ life' = [life EXCEPT !.process = "none"]
        /\ UNCHANGED <<processes, orphans, status, shown, handler, queue, worker, sup, watchers, leftover>>
    BY <1>3 DEF FarewellKill, HandsAreKnown, FarewellType
  <2>2. FarewellType' /\ farewell'.proc = Recorded /\ farewell'.pc = "killing"
    BY <2>1 DEF FarewellType, Recorded
  <2>3. LifeType' /\ life'.process = "none" /\ life'.gui = life.gui
    BY <2>1 DEF LifeType
  <2>4. StatusType' /\ RestType'
    BY <2>1, TypesStay
  <2>5. Free' = Free
    <3>1. Bit(Recorded)' = 0 /\ Bit(farewell.proc)' = Bit(Recorded) /\ Bit(farewell.proc) = 0
      BY <2>1, <2>2, <2>3 DEF Bit, Recorded
    <3>2. /\ orphans \in Int /\ Bit(Recorded) \in Int
          /\ Bit(life.gui) \in Int /\ Bit(worker.proc) \in Int /\ Bit(sup.proc) \in Int
      BY LifecycleAssumption DEF Bit, RestType
    <3> QED
      BY <1>0, <2>1, <2>3, <3>1, <3>2 DEF Free
  <2> QED
    BY <1>0, <2>1, <2>2, <2>3, <2>4, <2>5, OtherStep
<1>4. CASE FarewellClear
  <2>1. /\ farewell.proc \in BOOLEAN /\ farewell' = [pc |-> "done", proc |-> FALSE]
        /\ processes' = processes - Bit(farewell.proc)
        /\ status' = [status EXCEPT !.running = FALSE] /\ leftover' = status.loading
        /\ UNCHANGED <<life, orphans, shown, handler, queue, worker, sup, watchers>>
    BY <1>4 DEF FarewellClear, Kill, FarewellType
  <2>2. FarewellType' /\ farewell'.proc = FALSE
    BY <2>1 DEF FarewellType
  <2>3. StatusType' /\ leftover' \in BOOLEAN
    BY <2>1 DEF StatusType
  <2>4. LifeType' /\ RestType'
    BY <2>1, <2>3, TypesStay
  <2>5. processes' \in Int
    BY <1>0, <2>1 DEF Bit
  <2>6. Free' = Free
    BY <1>0, <2>1, <2>2, LifecycleAssumption DEF Free, Bit, Recorded, RestType
  <2> QED
    BY <1>0, <2>1, <2>2, <2>3, <2>4, <2>5, <2>6, OtherStep
<1> QED
  BY <1>1, <1>2, <1>3, <1>4

\* A shutdown whose handler is gone ends.
LEMMA OrphanHolds == ASSUME Handlers, IInv, OrphanEnds PROVE IInv'
<1> USE DEF IInv, Shape
<1>1. /\ orphans > 0 /\ orphans' = orphans - 1 /\ processes' = processes - 1
      /\ UNCHANGED <<life, status, shown, handler, queue, worker, sup, farewell, watchers, leftover>>
  BY DEF OrphanEnds, Kill, Bit
<1>2. Free \in Int /\ processes \in Int
  BY CountedByFree DEF Counted
<1>3. RestType'
  BY <1>1, LifecycleAssumption DEF RestType
<1>4. LifeType' /\ StatusType' /\ FarewellType' /\ (farewell'.proc => farewell'.pc = "killing")
  BY <1>1, TypesStay DEF FarewellType, HandsAreKnown
<1>5. processes' \in Int /\ Free' = Free
  BY <1>1, <1>2, LifecycleAssumption DEF Free, Bit, Recorded, RestType
<1> QED
  BY <1>1, <1>2, <1>3, <1>4, <1>5, OtherStep
-----------------------------------------------------------------------------
(***************************************************************************)
(* The driver worker, and processes that end of themselves.                *)
(***************************************************************************)
\* A worker that goes on with its boot.
LEMMA WorkerStep ==
  ASSUME Handlers, IInv, worker.pc # "idle", WorkerType', worker'.by = worker.by,
         worker'.pc # "idle", worker'.proc => worker'.pc \in {"booting", "up"},
         UNCHANGED <<handler, queue, sup, farewell>>,
         LifeType', StatusType', RestType', processes' \in Int,
         Free' >= Free, KillOnDrop => Free' = Free
  PROVE  IInv'
<1>1. Shape'
  BY DEF IInv, Shape, HandlerType, QueueType, SupType, FarewellType
<1>2. \A by : Awaits(by) => Awaits(by)'
  BY DEF Awaits
<1>3. JobsAreAwaited'
  BY <1>2 DEF IInv, JobsAreAwaited
<1>4. HandsAreKnown'
  BY DEF IInv, HandsAreKnown
<1>5. Counted'
  BY <1>1, FreeStep
<1> QED
  BY <1>1, <1>3, <1>4, <1>5 DEF IInv

\* The emulator is up, and its handle recorded.
LEMMA BootHolds == ASSUME Handlers, IInv, BootUp \/ RecordBoot PROVE IInv'
<1> USE DEF IInv, Shape
<1>0. Free \in Int /\ LifeType /\ StatusType /\ processes \in Int
  BY CountedByFree DEF Counted
<1>1. CASE BootUp
  <2>1. /\ worker.pc = "booting"
        /\ worker' = [worker EXCEPT !.pc = "up"]
        /\ status' = [status EXCEPT !.running = TRUE]
        /\ UNCHANGED <<life, processes, orphans, shown, handler, queue, sup, farewell, watchers, leftover>>
    BY <1>1 DEF BootUp
  <2>2. WorkerType' /\ worker'.by = worker.by /\ worker'.pc = "up" /\ worker'.proc = worker.proc
    BY <2>1 DEF WorkerType
  <2>3. StatusType'
    BY <2>1 DEF StatusType
  <2>4. LifeType' /\ RestType' /\ Free' = Free
    BY <2>1, <2>2, TypesStay DEF Free, Recorded
  <2> QED
    BY <1>0, <2>1, <2>2, <2>3, <2>4, WorkerStep
<1>2. CASE RecordBoot
  <2>1. /\ worker.pc = "up" /\ worker.proc \in BOOLEAN
        /\ worker' = [worker EXCEPT !.pc = "recorded", !.proc = FALSE]
        /\ processes' = processes - Bit(Recorded /\ KillOnDrop)
        /\ life' = [life EXCEPT !.process = IF worker.proc THEN "alive" ELSE "dead",
                                !.current = TRUE]
        /\ UNCHANGED <<orphans, status, shown, handler, queue, sup, farewell, watchers, leftover>>
    BY <1>2 DEF RecordBoot, Drop, Kill, WorkerType
  <2>2. WorkerType' /\ worker'.by = worker.by /\ worker'.pc = "recorded" /\ worker'.proc = FALSE
    BY <2>1 DEF WorkerType
  <2>3. LifeType' /\ life'.gui = life.gui /\ Bit(Recorded)' = Bit(worker.proc)
    BY <2>1 DEF LifeType, Recorded, Bit
  <2>4. StatusType' /\ RestType'
    BY <2>1, TypesStay
  <2>5. /\ orphans \in Int /\ Bit(Recorded) \in {0, 1} /\ Bit(Recorded /\ KillOnDrop) \in {0, 1}
        /\ Bit(Recorded /\ KillOnDrop) <= Bit(Recorded)
        /\ KillOnDrop => Bit(Recorded /\ KillOnDrop) = Bit(Recorded)
        /\ Bit(life.gui) \in Int /\ Bit(worker.proc) \in Int /\ Bit(sup.proc) \in Int
        /\ Bit(farewell.proc) \in Int /\ Bit(worker.proc)' = 0
    BY <2>2, LifecycleAssumption DEF Bit, RestType
  <2>6. processes' \in Int /\ Free' >= Free /\ (KillOnDrop => Free' = Free)
    <3>1. PICK d \in {0, 1} : d = Bit(Recorded /\ KillOnDrop)
      BY <2>5
    <3>2. Free' = Free - d + Bit(Recorded)
      <4>1. Bit(life.gui)' = Bit(life.gui) /\ Bit(sup.proc)' = Bit(sup.proc)
            /\ Bit(farewell.proc)' = Bit(farewell.proc)
        BY <2>1, <2>3 DEF Bit
      <4>2. processes' = processes - d /\ orphans' = orphans
        BY <2>1, <3>1
      <4> QED
        BY <1>0, <2>3, <2>5, <4>1, <4>2 DEF Free
    <3>3. processes' = processes - d
      BY <2>1, <3>1
    <3>4. d <= Bit(Recorded) /\ (KillOnDrop => d = Bit(Recorded))
      BY <2>5, <3>1
    <3> QED
      BY <1>0, <2>5, <3>2, <3>3, <3>4
  <2> QED
    BY <1>0, <2>1, <2>2, <2>3, <2>4, <2>6, WorkerStep
<1> QED
  BY <1>1, <1>2

\* The requester of a boot that has ended hears of it; no other is touched.
LEMMA AckTells ==
  ASSUME IInv, NEW by \in Requester, Awaits(by), NEW ok \in BOOLEAN, Ack(by, ok)
  PROVE  /\ HandlerType' /\ SupType' /\ sup'.proc = sup.proc
         /\ \A q \in Handler : handler'[q].proc = handler[q].proc
         /\ \A q \in Handler : handler'[q].proc => handler'[q].pc \in {"killing", "opened"}
         /\ sup'.proc => sup'.pc = "killing"
         /\ \A q \in Requester : q # by \/ q = "nobody" => (Awaits(q) => Awaits(q)')
<1> USE DEF IInv, Shape
<1>1. PICK pc \in {"booted", "failed"} :
        /\ handler' = IF by \in Handler THEN [handler EXCEPT ![by].pc = pc] ELSE handler
        /\ sup' = IF by = "supervisor" THEN [sup EXCEPT !.pc = pc] ELSE sup
  BY DEF Ack
<1>2. CASE by \in Handler
  <2>1. by # "supervisor" /\ by # "nobody" /\ handler[by].pc = "waiting" /\ handler[by].proc = FALSE
    BY <1>2, LifecycleAssumption DEF Awaits, HandsAreKnown, HandlerType
  <2>2. sup' = sup /\ handler' = [handler EXCEPT ![by] = [pc |-> pc, proc |-> FALSE]]
    <3>1. sup' = sup /\ Goto(by, pc)
      BY <1>1, <1>2, <2>1 DEF Goto
    <3>2. handler' = [handler EXCEPT ![by] = [pc |-> pc, proc |-> handler[by].proc]]
      BY <1>2, <3>1, Moves
    <3> QED
      BY <2>1, <3>1, <3>2
  <2>3. /\ HandlerType' /\ handler'[by] = [pc |-> pc, proc |-> FALSE]
        /\ \A q \in Handler \ {by} : handler'[q] = handler[q]
    BY <1>2, <2>2 DEF HandlerType, HandlerPc
  <2>4. SupType'
    BY <2>2 DEF SupType
  <2>5. ASSUME NEW q \in Handler PROVE handler'[q].proc = handler[q].proc
    <3>1. handler'[by].proc = FALSE
      BY <2>3
    <3>2. CASE q = by
      BY <2>1, <3>1, <3>2
    <3>3. CASE q # by
      BY <2>3, <3>3
    <3> QED
      BY <3>2, <3>3
  <2>6. \A q \in Handler : handler'[q].proc => handler'[q].pc \in {"killing", "opened"}
    BY <2>3 DEF HandsAreKnown
  <2>7. \A q \in Requester : q # by => (Awaits(q) => Awaits(q)')
    BY <2>2, <2>3 DEF Awaits
  <2> QED
    BY <2>1, <2>2, <2>3, <2>4, <2>5, <2>6, <2>7 DEF HandsAreKnown
<1>3. CASE by = "supervisor"
  <2>1. by \notin Handler /\ by # "nobody" /\ sup.pc = "await" /\ sup.proc = FALSE
    BY <1>3, LifecycleAssumption DEF Awaits, HandsAreKnown, SupType
  <2>2. handler' = handler /\ sup' = [sup EXCEPT !.pc = pc]
    BY <1>1, <1>3, <2>1
  <2>3. SupType' /\ sup'.proc = FALSE
    BY <2>1, <2>2 DEF SupType, SupPc
  <2>4. HandlerType'
    BY <2>2 DEF HandlerType
  <2>5. \A q \in Requester : q # by => (Awaits(q) => Awaits(q)')
    BY <1>3, <2>2 DEF Awaits
  <2> QED
    BY <2>1, <2>2, <2>3, <2>4, <2>5 DEF HandsAreKnown
<1>4. CASE by = "nobody"
  <2>1. handler' = handler /\ sup' = sup
    BY <1>1, <1>4, LifecycleAssumption
  <2> QED
    BY <2>1 DEF HandsAreKnown, Awaits, HandlerType, SupType
<1> QED
  BY <1>2, <1>3, <1>4 DEF Requester

\* What the worker takes from the channel, and what it leaves there.
LEMMA TailLeaves ==
  ASSUME QueueType, queue # <<>>, queue' = Tail(queue)
  PROVE  /\ QueueType' /\ Head(queue) \in Requester
         /\ 1 \in DOMAIN queue /\ Head(queue) = queue[1]
         /\ \A i \in DOMAIN queue : queue[i] \in Requester
         /\ \A i \in DOMAIN queue' : /\ i \in Nat \ {0} /\ i + 1 \in DOMAIN queue
                                     /\ queue'[i] = queue[i + 1]
<1>1. /\ queue \in Seq(Requester) /\ Len(queue) \in Nat \ {0} /\ Len(queue) <= QueueCap
      /\ DOMAIN queue = 1 .. Len(queue)
  BY DEF QueueType
<1>2. /\ queue' \in Seq(Requester) /\ Len(queue') = Len(queue) - 1
      /\ DOMAIN queue' = 1 .. (Len(queue) - 1)
      /\ \A i \in 1 .. (Len(queue) - 1) : queue'[i] = queue[i + 1]
  BY <1>1
<1>3. Head(queue) = queue[1] /\ \A i \in 1 .. Len(queue) : queue[i] \in Requester
  BY <1>1
<1>4. QueueType'
  BY <1>1, <1>2, LifecycleAssumption DEF QueueType
<1> QED
  BY <1>1, <1>2, <1>3, <1>4

\* The worker takes the next boot: the emulator comes up, or does not start.
LEMMA StartBootHolds == ASSUME Handlers, IInv, StartBoot PROVE IInv'
<1> USE DEF IInv, Shape
<1>0. Free \in Int /\ processes \in Int
  BY CountedByFree DEF Counted
<1>1. /\ worker.pc = "idle" /\ worker.proc = FALSE /\ worker.by = "nobody" /\ queue # <<>>
      /\ queue' = Tail(queue)
      /\ UNCHANGED <<life, orphans, status, shown, farewell, watchers, leftover>>
  BY DEF StartBoot, JobsAreAwaited, HandsAreKnown, WorkerType
<1>2. PICK by \in Requester : by = Head(queue)
  BY <1>1, TailLeaves
<1>3. /\ QueueType' /\ Awaits(by)
      /\ \A i \in DOMAIN queue' : /\ queue'[i] \in Requester /\ Awaits(queue'[i])
                                  /\ queue'[i] # by \/ queue'[i] = "nobody"
      /\ \A i, k \in DOMAIN queue' : queue'[i] = queue'[k] /\ queue'[i] # "nobody" => i = k
  <2>1. /\ QueueType' /\ 1 \in DOMAIN queue /\ queue[1] = by
        /\ \A i \in DOMAIN queue : queue[i] \in Requester
        /\ \A i \in DOMAIN queue' : /\ i \in Nat \ {0} /\ i + 1 \in DOMAIN queue
                                    /\ queue'[i] = queue[i + 1]
    BY <1>1, <1>2, TailLeaves
  <2>2. Awaits(by) /\ \A i \in DOMAIN queue' : queue'[i] \in Requester /\ Awaits(queue'[i])
    BY <2>1 DEF JobsAreAwaited
  <2>3. ASSUME NEW i \in DOMAIN queue' PROVE queue'[i] # by \/ queue'[i] = "nobody"
    <3>1. i + 1 # 1 /\ i + 1 \in DOMAIN queue /\ queue'[i] = queue[i + 1]
      BY <2>1
    <3> QED
      BY <2>1, <3>1 DEF JobsAreAwaited
  <2>4. ASSUME NEW i \in DOMAIN queue', NEW k \in DOMAIN queue',
               queue'[i] = queue'[k], queue'[i] # "nobody"
        PROVE  i = k
    <3>1. i + 1 = k + 1
      BY <2>1, <2>4 DEF JobsAreAwaited
    <3> QED
      BY <2>1, <3>1
  <2> QED
    BY <2>1, <2>2, <2>3, <2>4
<1>4. LifeType' /\ StatusType' /\ RestType' /\ FarewellType'
  BY <1>1, TypesStay DEF FarewellType
<1>5. CASE processes' = processes + 1 /\ UNCHANGED <<handler, sup>>
           /\ worker' = [pc |-> "booting", by |-> Head(queue), proc |-> TRUE]
  <2>1. WorkerType' /\ worker'.pc = "booting" /\ worker'.by = by /\ worker'.proc = TRUE
    BY <1>2, <1>5 DEF WorkerType
  <2>2. Shape'
    BY <1>3, <1>4, <1>5, <2>1 DEF HandlerType, SupType
  <2>3. \A q \in Requester : Awaits(q) => Awaits(q)'
    BY <1>5 DEF Awaits
  <2>4. JobsAreAwaited'
    <3>1. ASSUME NEW i \in DOMAIN queue' PROVE Awaits(queue[i])'
      <4>1. PICK q \in Requester : q = queue'[i] /\ Awaits(q)
        BY <1>3
      <4>2. Awaits(q)'
        BY <2>3, <4>1
      <4> QED
        BY <4>1, <4>2 DEF Awaits
    <3>2. Awaits(worker.by)'
      <4>1. Awaits(by)'
        BY <1>3, <2>3
      <4> QED
        BY <2>1, <4>1 DEF Awaits
    <3> QED
      BY <1>3, <2>1, <3>1, <3>2 DEF JobsAreAwaited
  <2>5. HandsAreKnown'
    BY <1>1, <1>5, <2>1 DEF HandsAreKnown
  <2>6. Free' = Free
    BY <1>0, <1>1, <1>5, <2>1, LifecycleAssumption DEF Free, Bit, Recorded, RestType
  <2>7. Counted'
    BY <1>0, <1>5, <2>2, <2>6, FreeStep
  <2> QED
    BY <2>2, <2>4, <2>5, <2>7
<1>6. CASE Ack(by, FALSE) /\ UNCHANGED <<processes, worker>>
  <2>1. /\ HandlerType' /\ SupType' /\ sup'.proc = sup.proc
        /\ \A q \in Handler : handler'[q].proc = handler[q].proc
        /\ \A q \in Handler : handler'[q].proc => handler'[q].pc \in {"killing", "opened"}
        /\ sup'.proc => sup'.pc = "killing"
        /\ \A q \in Requester : q # by \/ q = "nobody" => (Awaits(q) => Awaits(q)')
    BY <1>3, <1>6, AckTells
  <2>2. Shape'
    BY <1>3, <1>4, <1>6, <2>1 DEF WorkerType
  <2>3. JobsAreAwaited'
    <3>1. ASSUME NEW i \in DOMAIN queue' PROVE Awaits(queue[i])'
      <4>1. PICK q \in Requester : q = queue'[i] /\ Awaits(q) /\ (q # by \/ q = "nobody")
        BY <1>3
      <4>2. Awaits(q)'
        BY <2>1, <4>1
      <4> QED
        BY <4>1, <4>2 DEF Awaits
    <3>2. Awaits(worker.by)'
      BY <1>1, <1>6, LifecycleAssumption DEF Awaits
    <3> QED
      BY <1>1, <1>3, <1>6, <3>1, <3>2 DEF JobsAreAwaited
  <2>4. HandsAreKnown'
    BY <1>1, <1>6, <2>1 DEF HandsAreKnown
  <2>5. Free' = Free
    BY <1>1, <1>6, <2>1 DEF Free, Recorded
  <2>6. Counted'
    BY <1>0, <1>6, <2>1, <2>2, <2>5, FreeStep
  <2> QED
    BY <2>2, <2>3, <2>4, <2>6
<1> QED
  BY <1>2, <1>5, <1>6 DEF StartBoot

\* The worker is done with a boot, and its requester hears of it.
LEMMA BootEndsHolds == ASSUME Handlers, IInv, BootFails \/ PublishBoot PROVE IInv'
<1> USE DEF IInv, Shape
<1>0. Free \in Int /\ processes \in Int /\ StatusType /\ worker.by \in Requester /\ worker.proc \in BOOLEAN
  BY CountedByFree DEF Counted, WorkerType
<1>1. /\ worker' = Waiting
      /\ UNCHANGED <<life, orphans, shown, queue, farewell, watchers, leftover>>
  BY DEF BootFails, PublishBoot
<1>2. PICK by \in Requester, ok \in BOOLEAN : by = worker.by /\ Ack(by, ok) /\ Awaits(by)
  <2>1. Awaits(worker.by)
    BY DEF JobsAreAwaited
  <2>2. Ack(worker.by, FALSE) \/ Ack(worker.by, TRUE)
    BY DEF BootFails, PublishBoot
  <2> QED
    BY <1>0, <2>1, <2>2
<1>3. /\ HandlerType' /\ SupType' /\ sup'.proc = sup.proc
      /\ \A q \in Handler : handler'[q].proc = handler[q].proc
      /\ \A q \in Handler : handler'[q].proc => handler'[q].pc \in {"killing", "opened"}
      /\ sup'.proc => sup'.pc = "killing"
      /\ \A q \in Requester : q # by \/ q = "nobody" => (Awaits(q) => Awaits(q)')
  BY <1>2, AckTells
<1>4. StatusType'
  <2>1. CASE BootFails
    BY <2>1 DEF BootFails, StatusType
  <2>2. CASE PublishBoot
    BY <2>2 DEF PublishBoot, StatusType
  <2> QED
    BY <2>1, <2>2
<1>5. WorkerType' /\ worker'.pc = "idle" /\ worker'.by = "nobody" /\ worker'.proc = FALSE
  BY <1>1 DEF WorkerType, Waiting, Requester
<1>6. Shape'
  BY <1>1, <1>3, <1>4, <1>5, TypesStay DEF QueueType, FarewellType
<1>7. JobsAreAwaited'
  <2>1. ASSUME NEW i \in DOMAIN queue' PROVE Awaits(queue[i])'
    <3>1. PICK q \in Requester : q = queue[i] /\ Awaits(q) /\ (q # by \/ q = "nobody")
      BY <1>1, <1>2, <2>1 DEF JobsAreAwaited, QueueType
    <3>2. Awaits(q)'
      BY <1>3, <3>1
    <3> QED
      BY <1>1, <3>1, <3>2 DEF Awaits
  <2>2. Awaits(worker.by)'
    BY <1>5, LifecycleAssumption DEF Awaits
  <2> QED
    BY <1>1, <1>5, <2>1, <2>2 DEF JobsAreAwaited
<1>8. HandsAreKnown'
  BY <1>1, <1>3, <1>5 DEF HandsAreKnown
<1>9. processes' \in Int /\ Free' >= Free /\ (KillOnDrop => Free' = Free)
  <2>1. CASE BootFails
    <3>1. processes' = processes - Bit(worker.proc /\ KillOnDrop)
      BY <2>1 DEF BootFails, Drop, Kill
    <3> QED
      BY <1>0, <1>1, <1>3, <1>5, <3>1, LifecycleAssumption DEF Free, Bit, Recorded, RestType
  <2>2. CASE PublishBoot
    <3>1. processes' = processes /\ worker.proc = FALSE
      BY <2>2 DEF PublishBoot, HandsAreKnown, WorkerType
    <3> QED
      BY <1>0, <1>1, <1>3, <1>5, <3>1, LifecycleAssumption DEF Free, Bit, Recorded, RestType
  <2> QED
    BY <2>1, <2>2
<1>10. Counted'
  BY <1>3, <1>6, <1>9, FreeStep
<1> QED
  BY <1>6, <1>7, <1>8, <1>10

\* A process that ends was held by one, and is no longer.
LEMMA ExitHolds == ASSUME Handlers, IInv, Exit PROVE IInv'
<1> USE DEF IInv, Shape
<1>0. Free \in Int /\ LifeType /\ processes' \in Int /\ processes' = processes - 1 /\ processes \in Int
  BY CountedByFree DEF Counted, Exit, Kill, Bit
<1>1. UNCHANGED <<orphans, status, shown, queue, sup, farewell, watchers, leftover>>
  BY DEF Exit
<1>2. StatusType' /\ RestType' /\ FarewellType' /\ (farewell'.proc => farewell'.pc = "killing")
  BY <1>1, TypesStay DEF FarewellType, HandsAreKnown
<1>3. CASE Recorded /\ life' = [life EXCEPT !.process = "dead"] /\ UNCHANGED <<worker, handler>>
  <2>1. LifeType' /\ life'.process = "dead" /\ life'.gui = life.gui
    BY <1>0, <1>3 DEF LifeType
  <2>2. Free' = Free
    BY <1>0, <1>1, <1>3, <2>1, LifecycleAssumption DEF Free, Bit, Recorded, RestType
  <2> QED
    BY <1>0, <1>1, <1>2, <1>3, <2>1, <2>2, OtherStep
<1>4. CASE life.gui /\ life' = [life EXCEPT !.gui = FALSE] /\ UNCHANGED <<worker, handler>>
  <2>1. LifeType' /\ life'.process = life.process /\ life'.gui = FALSE
    BY <1>0, <1>4 DEF LifeType
  <2>2. Free' = Free
    BY <1>0, <1>1, <1>4, <2>1, LifecycleAssumption DEF Free, Bit, Recorded, RestType
  <2> QED
    BY <1>0, <1>1, <1>2, <1>4, <2>1, <2>2, OtherStep
<1>5. CASE worker.proc /\ worker' = [worker EXCEPT !.proc = FALSE] /\ UNCHANGED <<life, handler>>
  <2>1. WorkerType' /\ worker'.pc = worker.pc /\ worker'.by = worker.by /\ worker'.proc = FALSE
    BY <1>5 DEF WorkerType
  <2>2. LifeType' /\ Free' = Free /\ worker.pc \in {"booting", "up"}
    BY <1>0, <1>1, <1>5, <2>1, LifecycleAssumption
    DEF Free, Bit, Recorded, RestType, LifeType, HandsAreKnown
  <2> QED
    BY <1>0, <1>1, <1>2, <1>5, <2>1, <2>2, WorkerStep
<1>6. ASSUME NEW h \in Handler, handler[h].pc = "opened", handler[h].proc,
             handler' = [handler EXCEPT ![h] = [pc |-> "opened", proc |-> FALSE]],
             UNCHANGED <<life, worker>>
      PROVE  IInv'
  <2>1. LifeType' /\ Free' = Free - 1
    BY <1>0, <1>1, <1>6, LifecycleAssumption DEF Free, Bit, Recorded, RestType, LifeType
  <2>2. Free' - Bit(FALSE) >= Free - Bit(handler[h].proc)
        /\ Free' - Bit(FALSE) = Free - Bit(handler[h].proc)
    BY <1>0, <1>6, <2>1 DEF Bit
  <2> QED
    BY <1>0, <1>1, <1>2, <1>6, <2>1, <2>2, HandlerStep DEF HandlerPc
<1> QED
  BY <1>3, <1>4, <1>5, <1>6 DEF Exit
-----------------------------------------------------------------------------
(***************************************************************************)
(* The theorems.                                                           *)
(***************************************************************************)
\* A stuttering step changes nothing.
LEMMA StutterHolds == ASSUME Handlers, IInv, UNCHANGED vars PROVE IInv'
<1> USE DEF IInv, Shape, vars
<1>1. LifeType' /\ StatusType' /\ RestType' /\ FarewellType' /\ processes' \in Int
      /\ (farewell'.proc => farewell'.pc = "killing")
  BY TypesStay DEF FarewellType, HandsAreKnown, Counted
<1>2. Free' = Free /\ Free \in Int
  BY CountedByFree DEF Free, Recorded, Counted
<1> QED
  BY <1>1, <1>2, OtherStep

\* Every step keeps the invariant.
LEMMA NextHolds == ASSUME Handlers, IInv, [Next]_vars PROVE IInv'
<1>1. ASSUME NEW h \in Handler, Requests(h) \/ Progress(h) \/ DropHandler(h) PROVE IInv'
  <2>1. CASE Launch(h) \/ QuitGame(h) \/ OpenSettings(h) \/ LaunchFails(h) \/ LaunchDone(h)
    BY <2>1, EmptyHandlersHold
  <2>2. CASE QuitKill(h) \/ QuitClear(h)
    BY <2>2, QuitHolds
  <2>3. CASE SpawnGui(h) \/ RecordGui(h)
    BY <2>3, GuiHolds
  <2>4. CASE Shutdown(h)
    BY <2>4, FarewellHolds
  <2>5. CASE QueueBoot(h)
    BY <2>5, QueueBootHolds
  <2>6. CASE DropHandler(h)
    BY <2>6, DropHolds
  <2> QED
    BY <1>1, <2>1, <2>2, <2>3, <2>4, <2>5, <2>6 DEF Requests, Progress
<1>2. CASE Work
  BY <1>2, StartBootHolds, BootHolds, BootEndsHolds DEF Work
<1>3. CASE Supervise
  BY <1>3, RecoveryHolds, RespawnHolds DEF Supervise
<1>4. CASE Depart
  BY <1>4, FarewellHolds DEF Depart
<1>5. CASE Watch \/ Poll \/ Frame \/ Restart
  BY <1>5, LooksHold DEF Watch
<1>6. CASE Exit \/ OrphanEnds
  BY <1>6, ExitHolds, OrphanHolds
<1>7. CASE UNCHANGED vars
  BY <1>7, StutterHolds
<1> QED
  BY <1>1, <1>2, <1>3, <1>4, <1>5, <1>6, <1>7 DEF Next

\* The invariant of the lifecycle.
LEMMA Invariant == ASSUME Handlers PROVE Spec => []IInv
<1>1. Init => IInv
  BY InitHolds
<1>2. IInv /\ [Next]_vars => IInv'
  BY NextHolds
<1> QED
  BY <1>1, <1>2, PTL DEF Spec

\* The states of the lifecycle have their types: there are never more boots in
\* the channel than it holds, nor more restarts of a game than MAX_RESPAWNS.
THEOREM TypeCorrect == ASSUME Handlers PROVE Spec => []TypeOK
<1>1. IInv => TypeOK
  <2> SUFFICES ASSUME IInv PROVE TypeOK
    OBVIOUS
  <2> USE DEF IInv, Shape
  <2>1. Cardinality(Holders) \in Nat
    BY HoldersCount
  <2>2. processes \in Nat
    BY <2>1, LifecycleAssumption DEF Counted, Held, Bit, RestType
  <2> QED
    BY <2>2 DEF TypeOK, HandlerType, QueueType, WorkerType, SupType, LifeType, StatusType,
                FarewellType, RestType
<1> QED
  BY <1>1, Invariant, PTL

\* Where dropping a handle kills its process, every process that runs is in
\* somebody's hands, however handlers, boots, recoveries and crashes overlap.
THEOREM NoProcessIsLostCorrect ==
  ASSUME Handlers, KillOnDrop PROVE Spec => []NoProcessIsLost
<1>1. IInv => NoProcessIsLost
  BY DEF IInv, Counted, NoProcessIsLost
<1> QED
  BY <1>1, Invariant, PTL
-----------------------------------------------------------------------------
(***************************************************************************)
(* LOADING.                                                                *)
(***************************************************************************)
\* A launch has yet to be answered, or a recovery to end.
Pending ==
  \/ \E h \in Handler : handler[h].pc \in {"launching", "waiting", "failed"}
  \/ sup.pc \in {"boot", "await", "booted", "failed", "giveup"}

\* A launch that is answered well leaves the rest to the game that now runs.
Reason == status.loading => status.running \/ leftover \/ Pending

\* A step that leaves LOADING and its other reasons alone keeps what is pending.
LEMMA StaysPending ==
  ASSUME Reason, Pending => Pending', leftover' = leftover,
         status'.loading = status.loading, status'.running = status.running
  PROVE  Reason'
<1> DEFINE Clear == status.loading /\ ~status.running /\ ~leftover
<1>1. Clear => Pending
  BY DEF Reason
<1>2. Clear' => Clear
  OBVIOUS
<1>3. Reason' <=> (Clear' => Pending')
  BY DEF Reason
<1> QED
  BY <1>1, <1>2, <1>3

\* A handler that goes on is pending still, or was not.
LEMMA HandlerPending ==
  ASSUME HandlerType, NEW h \in Handler, NEW pc, NEW proc, UNCHANGED sup,
         handler' = [handler EXCEPT ![h] = [pc |-> pc, proc |-> proc]],
         handler[h].pc \in {"launching", "waiting", "failed"} => pc \in {"launching", "waiting", "failed"}
  PROVE  Pending => Pending'
<1>1. handler'[h].pc = pc /\ \A q \in Handler \ {h} : handler'[q] = handler[q]
  BY DEF HandlerType
<1> QED
  BY <1>1 DEF Pending

\* What a handler does keeps the reason for LOADING.
LEMMA HandlerReason ==
  ASSUME IInv, Reason, NEW h \in Handler,
         Requests(h) \/ Progress(h) \/ DropHandler(h)
  PROVE  Reason'
<1> USE DEF IInv, Shape
<1>1. CASE Launch(h)
  <2>1. handler'[h].pc = "launching"
    BY <1>1 DEF Launch, Goto, HandlerType
  <2> QED
    BY <2>1 DEF Reason, Pending
<1>2. CASE LaunchFails(h)
  BY <1>2 DEF LaunchFails, StatusType, Reason
<1>3. CASE QuitClear(h)
  BY <1>3 DEF QuitClear, StatusType, Reason
<1>4. CASE QueueBoot(h) \/ LaunchDone(h) \/ QuitKill(h) \/ OpenSettings(h) \/ SpawnGui(h)
  <2>1. UNCHANGED <<status, sup, leftover>>
    BY <1>4 DEF QueueBoot, LaunchDone, QuitKill, OpenSettings, SpawnGui
  <2>2. \/ handler[h].pc = "launching" /\ Goto(h, "waiting")
        \/ /\ handler[h].pc \notin {"launching", "waiting", "failed"}
           /\ \E pc, proc : handler' = [handler EXCEPT ![h] = [pc |-> pc, proc |-> proc]]
    BY <1>4, Moves DEF QueueBoot, LaunchDone, QuitKill, OpenSettings, SpawnGui
  <2>3. PICK pc, proc :
          /\ handler' = [handler EXCEPT ![h] = [pc |-> pc, proc |-> proc]]
          /\ handler[h].pc \in {"launching", "waiting", "failed"} => pc = "waiting"
    <3>1. handler[h].pc \in {"launching", "waiting", "failed"} => Goto(h, "waiting")
      BY <2>2
    <3> QED
      BY <2>2, <3>1, Moves
  <2>4. Pending => Pending'
    BY <2>1, <2>3, HandlerPending
  <2> QED
    BY <2>1, <2>4, StaysPending
<1>5. CASE QuitGame(h) \/ RecordGui(h)
  <2>1. UNCHANGED <<sup, leftover>> /\ handler[h].pc \in {"idle", "opened"}
        /\ status'.loading = status.loading /\ status'.running = status.running
    BY <1>5 DEF QuitGame, RecordGui, StatusType
  <2>2. \E pc, proc : handler' = [handler EXCEPT ![h] = [pc |-> pc, proc |-> proc]]
    BY <1>5, Moves DEF QuitGame, RecordGui
  <2>3. Pending => Pending'
    BY <2>1, <2>2, HandlerPending
  <2> QED
    BY <2>1, <2>3, StaysPending
<1>6. CASE Shutdown(h)
  <2>1. status'.loading = status.loading /\ status'.running = status.running
    BY <1>6 DEF Shutdown, StatusType
  <2>2. UNCHANGED <<handler, sup, leftover>>
    BY <1>6 DEF Shutdown
  <2> QED
    BY <2>1, <2>2, StaysPending DEF Pending
<1>7. CASE DropHandler(h)
  <2>1. UNCHANGED sup /\ handler' = [handler EXCEPT ![h] = [pc |-> "idle", proc |-> FALSE]]
    BY <1>7, Moves DEF DropHandler
  <2>2. CASE status' = [status EXCEPT !.loading = FALSE]
    BY <2>2 DEF StatusType, Reason
  <2>3. CASE UNCHANGED <<status, leftover>>
             /\ handler[h].pc \notin {"launching", "waiting", "booted", "failed"}
    <3>1. Pending => Pending'
      BY <2>1, <2>3, HandlerPending
    <3> QED
      BY <2>3, <3>1, StaysPending
  <2> QED
    BY <1>7, <2>2, <2>3 DEF DropHandler
<1> QED
  BY <1>1, <1>2, <1>3, <1>4, <1>5, <1>6, <1>7 DEF Requests, Progress

\* A boot that is answered badly is pending until its requester has dealt with it.
LEMMA AckPending ==
  ASSUME HandlerType, SupType, NEW by \in Requester, Ack(by, FALSE)
  PROVE  Pending => Pending'
<1>1. CASE by \in Handler
  <2>1. handler'[by].pc = "failed"
    BY <1>1 DEF Ack, HandlerType
  <2> QED
    BY <1>1, <2>1 DEF Pending
<1>2. CASE by = "supervisor"
  <2>1. sup'.pc = "failed"
    BY <1>2 DEF Ack, SupType
  <2> QED
    BY <2>1 DEF Pending
<1>3. CASE by \notin Handler /\ by # "supervisor"
  BY <1>3 DEF Ack, Pending
<1> QED
  BY <1>1, <1>2, <1>3

\* What worker and supervisor do keeps it too.
LEMMA TaskReason ==
  ASSUME IInv, Reason, Work \/ Supervise PROVE Reason'
<1> USE DEF IInv, Shape
<1>1. CASE BootUp \/ PublishBoot
  <2>1. status'.running = TRUE
    BY <1>1 DEF BootUp, PublishBoot, StatusType
  <2> QED
    BY <2>1 DEF Reason
<1>2. CASE StartBoot \/ BootFails
  <2>1. UNCHANGED <<status, leftover>>
    BY <1>2 DEF StartBoot, BootFails
  <2>2. Pending => Pending'
    <3>1. UNCHANGED <<handler, sup>> \/ \E by \in Requester : Ack(by, FALSE)
      BY <1>2, TailLeaves DEF StartBoot, BootFails, WorkerType
    <3> QED
      BY <3>1, AckPending DEF Pending
  <2> QED
    BY <2>1, <2>2, StaysPending
<1>3. CASE RecordBoot
  BY <1>3, StaysPending DEF RecordBoot, Pending
<1>4. CASE ResetStatus
  <2>1. status'.loading = sup.game /\ sup.game \in BOOLEAN
    BY <1>4 DEF ResetStatus, StatusType, SupType
  <2>2. sup.game => sup'.pc = "boot"
    BY <1>4 DEF ResetStatus, SupType
  <2> QED
    BY <2>1, <2>2 DEF Reason, Pending
<1>5. CASE Recovered \/ GiveUp
  <2>1. status'.loading = FALSE
    BY <1>5 DEF Recovered, GiveUp, StatusType
  <2> QED
    BY <2>1 DEF Reason
<1>6. CASE NoticeCrash \/ NoticeFreeze \/ SeeFreeze
  <2>1. UNCHANGED <<status, handler, leftover>> /\ sup.pc \in {"watch", "look"}
    BY <1>6 DEF NoticeCrash, NoticeFreeze, SeeFreeze, TakeForRecovery
  <2>2. Pending => Pending'
    BY <2>1 DEF Pending
  <2> QED
    BY <2>1, <2>2, StaysPending
<1>7. CASE Respawn
  <2>1. UNCHANGED <<status, handler, leftover>> /\ sup'.pc = "await"
    BY <1>7 DEF Respawn, SupType
  <2> QED
    BY <2>1, StaysPending DEF Pending
<1> QED
  BY <1>1, <1>2, <1>3, <1>4, <1>5, <1>6, <1>7 DEF Work, Supervise

\* And what the rest does.
LEMMA RestReason ==
  ASSUME IInv, Reason,
         Exit \/ OrphanEnds \/ Depart \/ Watch \/ Poll \/ Frame \/ Restart \/ UNCHANGED vars
  PROVE  Reason'
<1> USE DEF IInv, Shape
<1>1. CASE Exit
  <2>1. UNCHANGED <<status, sup, leftover>>
    BY <1>1 DEF Exit
  <2>2. UNCHANGED handler \/ \E h \in Handler :
          handler[h].pc = "opened" /\ handler' = [handler EXCEPT ![h] = [pc |-> "opened", proc |-> FALSE]]
    BY <1>1 DEF Exit
  <2>3. Pending => Pending'
    BY <2>1, <2>2, HandlerPending DEF Pending
  <2> QED
    BY <2>1, <2>3, StaysPending
<1>2. CASE OrphanEnds \/ FarewellForget \/ FarewellKill \/ Reap \/ UNCHANGED vars
  <2>1. UNCHANGED <<status, handler, sup, leftover>>
    BY <1>2 DEF OrphanEnds, FarewellForget, FarewellKill, Reap, vars
  <2> QED
    BY <2>1, StaysPending DEF Pending
<1>3. CASE FarewellClear \/ Restart
  <2>1. status'.loading = status.loading /\ leftover' = status.loading
    BY <1>3 DEF FarewellClear, Restart, StatusType
  <2> QED
    BY <2>1 DEF Reason
<1>4. CASE ReapedFlag \/ Poll
  <2>1. UNCHANGED <<handler, sup, leftover>>
        /\ status'.loading = status.loading /\ status'.running = status.running
    BY <1>4 DEF ReapedFlag, Poll, PollStopped, PollReady, PollFrozen, PollUnsure, Latch, StatusType
  <2> QED
    BY <2>1, StaysPending DEF Pending
<1>5. CASE Frame
  <2>1. PICK keep \in BOOLEAN :
          /\ status' = [status EXCEPT !.loading = status.loading /\ keep]
          /\ leftover' = (leftover /\ keep)
          /\ UNCHANGED <<handler, sup>>
    <3>1. PICK next \in NextShown :
            /\ status' = [status EXCEPT !.loading = status.loading /\ ~Returning /\ next # "game"]
            /\ leftover' = (leftover /\ ~Returning /\ next # "game")
            /\ UNCHANGED <<handler, sup>>
      BY <1>5 DEF Frame
    <3>2. PICK keep \in BOOLEAN : keep = (~Returning /\ next # "game")
      OBVIOUS
    <3> QED
      BY <3>1, <3>2
  <2>2. CASE keep
    <3>1. status'.loading = status.loading /\ status'.running = status.running /\ leftover' = leftover
      BY <2>1, <2>2 DEF StatusType, RestType
    <3> QED
      BY <2>1, <3>1, StaysPending DEF Pending
  <2>3. CASE ~keep
    BY <2>1, <2>3 DEF StatusType, Reason
  <2> QED
    BY <2>2, <2>3
<1> QED
  BY <1>1, <1>2, <1>3, <1>4, <1>5 DEF Depart, Watch

\* LOADING shows while a game starts or runs, or was left over by what cleared
\* the running flag before the reveal: no launch, failure, hang-up or recovery
\* leaves it on by itself.
THEOREM LoadingHasReasonCorrect == ASSUME Handlers PROVE Spec => []LoadingHasReason
<1>1. Init => Reason
  BY DEF Init, Reason
<1>2. IInv /\ Reason /\ [Next]_vars => Reason'
  BY HandlerReason, TaskReason, RestReason DEF Next
<1>3. IInv /\ Reason => LoadingHasReason
  BY DEF LoadingHasReason, Reason, Pending, Starting
<1> QED
  BY <1>1, <1>2, <1>3, Invariant, PTL DEF Spec
=============================================================================
