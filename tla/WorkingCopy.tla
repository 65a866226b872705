---------------------------- MODULE WorkingCopy ----------------------------
(***************************************************************************)
(* One profile's working copy of one figure: the file that holds the       *)
(* player's progress. Loads, edits and resets are requests of their own    *)
(* that look at the file and at the portal at different moments, and that  *)
(* write it by a plain copy (fork, reset) or by renaming a temporary file  *)
(* over it (edit), while the emulator may have it open; a crash may come   *)
(* between any two steps. Edits share the name of the temporary file: one  *)
(* may write to what another has created, truncated or already renamed.    *)
(***************************************************************************)
CONSTANTS Request, LetCrash

\* What the file is: torn is a copy cut short or still running, mangled a whole
\* file computed from a torn one.
Contents == {"absent", "torn", "pack", "played", "edited", "mangled"}

VARIABLES
  file,    \* contents of working/<profile>/<figure>.sky
  figure,  \* the slot: "off", "loading", "on", "clearing"
  tmp,     \* contents of working/<profile>/<figure>.sky.tmp
  held,    \* the emulator has the present file open, not one renamed over
  task,    \* Request -> the operation it performs, where it stands, what it read
  cut      \* history: a crash or a failed write has left a file torn

fileVars == <<file, figure, tmp, held, task, cut>>

Stages == {"idle", "resolve", "copy", "mark", "queued", "read", "write", "writing", "rename"}
\* bad: what an edit has read was no whole figure. into: where the file is now
\* that it has opened to write. behind: the figure has come (back) onto the
\* portal since this request began.
Task == [op : {"load", "edit", "reset", "resetSlot"}, pc : Stages, bad : BOOLEAN,
         into : {"tmp", "file", "gone"}, behind : BOOLEAN]
NewTask(op, pc) == [op |-> op, pc |-> pc, bad |-> FALSE, into |-> "gone", behind |-> FALSE]
NoTask == NewTask("load", "idle")

TypeOK ==
  /\ file \in Contents
  /\ tmp \in {"absent", "torn", "edited", "mangled"}
  /\ figure \in {"off", "loading", "on", "clearing"}
  /\ held \in BOOLEAN /\ (held => figure \in {"on", "clearing"})
  /\ task \in [Request -> Task]
  /\ cut \in BOOLEAN

Init ==
  /\ file = "absent" /\ figure = "off" /\ tmp = "absent" /\ held = FALSE
  /\ task = [r \in Request |-> NoTask]
  /\ cut = FALSE

At(r, pc)       == task[r].pc = pc
Begin(r, op, pc) == At(r, "idle") /\ task' = [task EXCEPT ![r] = NewTask(op, pc)]
Step(r, pc)     == task' = [task EXCEPT ![r].pc = pc]
Edits(r, pc, bad, into) ==
  task' = [task EXCEPT ![r] = [op |-> "edit", pc |-> pc, bad |-> bad, into |-> into,
                               behind |-> task[r].behind]]
End(r)          == task' = [task EXCEPT ![r] = NoTask]
Overtaken(q) == IF At(q, "idle") THEN task[q] ELSE [task[q] EXCEPT !.behind = TRUE]
Overtakes(r, mine) == task' = [q \in Request |-> IF q = r THEN mine ELSE Overtaken(q)]
Resolved(r)     == IF task[r].op = "load" THEN "mark" ELSE "read"
-----------------------------------------------------------------------------
\* load_slot resolves the path before it looks at the slot.
Load(r) == Begin(r, "load", "resolve") /\ UNCHANGED <<file, figure, tmp, held, cut>>

\* Mutant of Edit: the portal is not looked at.
EditAnyway(r) == Begin(r, "edit", "resolve") /\ UNCHANGED <<file, figure, tmp, held, cut>>

\* The portal check of both handlers: 409 while the figure is loading or loaded.
\* A slot that is being cleared no longer names its figure.
NotOnPortal == figure \in {"off", "clearing"}

\* edit_figure
Edit(r) ==
  /\ NotOnPortal
  /\ Begin(r, "edit", "resolve")
  /\ UNCHANGED <<file, figure, tmp, held, cut>>

\* reset_figure
ResetFigure(r) ==
  /\ NotOnPortal
  /\ file' = "torn"
  /\ Begin(r, "reset", "copy")
  /\ UNCHANGED <<figure, tmp, held, cut>>

\* reset_slot: the slot is marked, and the copy starts.
ResetSlot(r) ==
  /\ figure \in {"off", "on"}
  /\ figure' = "loading" /\ held' = FALSE
  /\ file' = "torn"
  /\ At(r, "idle")
  /\ Overtakes(r, NewTask("resetSlot", "copy"))
  /\ UNCHANGED <<tmp, cut>>

\* resolve_load_path: an existing file is taken as it is.
Reuse(r) ==
  /\ At(r, "resolve") /\ file # "absent"
  /\ Step(r, Resolved(r))
  /\ UNCHANGED <<file, figure, tmp, held, cut>>

\* ... or fork_from_pack begins: exists() and the copy are two calls.
LookAbsent(r) ==
  /\ At(r, "resolve") /\ file = "absent"
  /\ Step(r, "copy")
  /\ file' \in {"absent", "torn"}
  /\ UNCHANGED <<figure, tmp, held, cut>>

CopyRuns(r) ==
  /\ At(r, "copy") /\ file # "torn"
  /\ file' = "torn"
  /\ UNCHANGED <<figure, tmp, held, task, cut>>

CopyEnds(r) ==
  /\ At(r, "copy") /\ file = "torn"
  /\ file' = "pack"
  /\ Step(r, CASE task[r].op = "resetSlot" -> "queued"
               [] task[r].op = "reset"     -> "idle"
               [] OTHER                    -> Resolved(r))
  /\ UNCHANGED <<figure, tmp, held, cut>>

\* The slot is busy (429), or is marked and the job sent.
Mark(r) ==
  /\ At(r, "mark")
  /\ IF figure \in {"loading", "clearing"} THEN End(r) /\ UNCHANGED <<figure, held>>
     ELSE figure' = "loading" /\ held' = FALSE /\ Overtakes(r, [task[r] EXCEPT !.pc = "queued"])
  /\ UNCHANGED <<file, tmp, cut>>

\* The worker's load: the emulator opens the file. Whether it takes a torn one
\* is the emulator's affair.
Opens(r) ==
  /\ At(r, "queued")
  /\ \/ /\ figure' = "on" /\ held' = TRUE
        /\ Overtakes(r, NoTask)
     \/ /\ figure' = "off" /\ held' = FALSE
        /\ End(r)
  /\ UNCHANGED <<file, tmp, cut>>

\* Mutant of Read: the length of the file is not checked.
ReadUnchecked(r) ==
  /\ At(r, "read")
  /\ Edits(r, "write", file \in {"torn", "mangled"}, "gone")
  /\ UNCHANGED <<file, figure, tmp, held, cut>>

\* A file of the wrong size is refused (422).
Read(r) ==
  /\ At(r, "read")
  /\ IF file = "torn" THEN End(r)
     ELSE Edits(r, "write", file \in {"torn", "mangled"}, "gone")
  /\ UNCHANGED <<file, figure, tmp, held, cut>>

\* The temporary file is created, or truncated as another edit left it.
OpenTmp(r) ==
  /\ At(r, "write")
  /\ tmp' = "torn"
  /\ Edits(r, "writing", task[r].bad, "tmp")
  /\ UNCHANGED <<file, figure, held, cut>>

Result(r) == IF task[r].bad THEN "mangled" ELSE "edited"

\* What was opened is written, wherever it has been renamed to meanwhile.
WriteTmp(r) ==
  /\ At(r, "writing")
  /\ tmp'  = IF task[r].into = "tmp"  THEN Result(r) ELSE tmp
  /\ file' = IF task[r].into = "file" THEN Result(r) ELSE file
  /\ Step(r, "rename")
  /\ UNCHANGED <<figure, held, cut>>

\* The disk is full: the truncated file stays as it is.
WriteFails(r) ==
  /\ At(r, "writing")
  /\ End(r)
  /\ cut' = (cut \/ <<task[r].into, tmp>> = <<"tmp", "torn">> \/ <<task[r].into, file>> = <<"file", "torn">>)
  /\ UNCHANGED <<file, figure, tmp, held>>

\* Whoever writes to what is renamed, or replaced, goes on writing to it.
Moved(t) ==
  [t EXCEPT !.into = CASE t.into = "tmp" -> "file" [] OTHER -> "gone"]

\* The temporary file takes the place of the working copy, whoever has written
\* it; the emulator keeps the file it has open.
Rename(r) ==
  /\ At(r, "rename") /\ tmp # "absent"
  /\ file' = tmp /\ tmp' = "absent"
  /\ held' = FALSE
  /\ task' = [q \in Request |-> IF q = r THEN NoTask ELSE Moved(task[q])]
  /\ UNCHANGED <<figure, cut>>

\* The rename is refused, or the temporary file has been renamed by another edit
\* (500): it is removed if it is there.
RenameFails(r) ==
  /\ At(r, "rename")
  /\ tmp' = "absent"
  /\ task' = [q \in Request |-> IF q = r THEN NoTask
                ELSE IF task[q].into = "tmp" THEN [task[q] EXCEPT !.into = "gone"] ELSE task[q]]
  /\ UNCHANGED <<file, figure, held, cut>>

\* The emulator writes the figure's progress to the file it has open.
Play ==
  /\ figure \in {"on", "clearing"}
  /\ file' = IF held THEN "played" ELSE file
  /\ UNCHANGED <<figure, tmp, held, task, cut>>

Clear ==
  /\ figure = "on"
  /\ figure' = "clearing"
  /\ UNCHANGED <<file, tmp, held, task, cut>>

\* The worker takes the figure off, or fails to and puts the slot back.
Remove ==
  /\ figure = "clearing"
  /\ \/ figure' = "off" /\ held' = FALSE /\ UNCHANGED task
     \/ /\ figure' = "on"
        /\ task' = [q \in Request |-> Overtaken(q)]
        /\ UNCHANGED held
  /\ UNCHANGED <<file, tmp, cut>>

Crash ==
  /\ LetCrash
  /\ figure' = "off" /\ held' = FALSE
  /\ task' = [r \in Request |-> NoTask]
  /\ cut' = (cut \/ file = "torn")
  /\ UNCHANGED <<file, tmp>>

Next ==
  \/ \E r \in Request :
       \/ Load(r) \/ Edit(r) \/ ResetFigure(r) \/ ResetSlot(r)
       \/ Reuse(r) \/ LookAbsent(r) \/ CopyRuns(r) \/ CopyEnds(r)
       \/ Mark(r) \/ Opens(r) \/ Read(r)
       \/ OpenTmp(r) \/ WriteTmp(r) \/ WriteFails(r) \/ Rename(r) \/ RenameFails(r)
  \/ Play \/ Clear \/ Remove \/ Crash

Spec == Init /\ [][Next]_fileVars
-----------------------------------------------------------------------------
\* An edit has opened what is the working copy now.
Exposed == \E r \in Request : At(r, "writing") /\ task[r].into = "file"

\* No request passes a torn file on as a figure: although a fork may be read
\* while it runs, and a crash may leave it torn for good, an edit never makes a
\* whole-looking file of it; and only a running copy, an edit that another has
\* renamed under its hands, a full disk or a crash leaves one torn.
TornStaysTorn ==
  /\ file # "mangled" /\ tmp # "mangled"
  /\ file = "torn" => cut \/ Exposed \/ \E r \in Request : At(r, "copy")

\* sky_edit.rs: "Atomic write (tmp file + rename)": an edit never has the file
\* be anything but whole.
EditIsAtomic ==
  file = "torn" => cut \/ \E r \in Request : At(r, "copy")

\* Progress is lost only on purpose: a played file is overwritten, or renamed
\* away from under the emulator, only by a reset, by an edit of a figure that is
\* off the portal or being taken off it, or by a request overtaken by the
\* figure's arrival there.
LosesProgress ==
  (file = "played" /\ file' # "played") \/ (held /\ ~held' /\ figure' \in {"on", "clearing"})
ProgressIsKeptStep ==
  LosesProgress => \E r \in Request :
    \/ ResetFigure(r) \/ ResetSlot(r)
    \/ CopyRuns(r) /\ (task[r].behind \/ task[r].op # "load")
    \/ (WriteTmp(r) \/ Rename(r)) /\ (task[r].behind \/ NotOnPortal)
ProgressIsKept == [][ProgressIsKeptStep]_fileVars

\* Requests for a load, for an edit and for the resets go through stages of their own.
StagesOfOps == \A r \in Request :
  /\ At(r, "resolve") => task[r].op \in {"load", "edit"}
  /\ task[r].pc \in {"mark", "queued"} => task[r].op # "edit"
  /\ task[r].pc \in {"read", "write", "writing", "rename"} => task[r].op = "edit"

\* What the emulator has open, or is about to open, is there.
FileIsThere ==
  held \/ (\E r \in Request : task[r].pc \in {"mark", "queued"}) => file # "absent"

\* An edit that has not been overtaken has the figure off the portal, and a fork
\* that has not been is of a file without progress.
OvertakenAreBehind == \A r \in Request :
  ~task[r].behind =>
    /\ task[r].op = "edit" /\ ~At(r, "idle") => NotOnPortal
    /\ task[r].op = "load" /\ At(r, "copy") => file # "played" /\ ~held

KeepInv ==
  /\ task \in [Request -> Task] /\ tmp # "played"
  /\ StagesOfOps /\ FileIsThere /\ OvertakenAreBehind
=============================================================================
