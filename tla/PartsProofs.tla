----------------------------- MODULE PartsProofs -----------------------------
(***************************************************************************)
(* The properties of Parts, for every value of its constants.              *)
(*                                                                         *)
(* Each part has been proved right where its module's proofs are; here     *)
(* those theorems are brought to the one specification that the run        *)
(* checks. An instance of a module of proofs (SlotsT, ...) talks of the    *)
(* same variables as the instance of the model in Parts (Slots, ...), but  *)
(* each has definitions of its own: a lemma named ...Same says that they   *)
(* agree, and a lemma named ...Run that Spec is the part's specification   *)
(* from start to end, or never has to do with it. The assumptions of Parts *)
(* give what the theorems ask of their constants.                          *)
(***************************************************************************)
EXTENDS Parts, TLAPS
-----------------------------------------------------------------------------
(***************************************************************************)
(* A figure's files.                                                       *)
(***************************************************************************)
FilesT == INSTANCE FileProofs WITH
  Figure <- OfFigures.Figure, GamePools <- OfFigures.GamePools, NoEdit <- Absent,
  figure <- x1, copy <- x2, edited <- x3,
  Request <- OfCopies.Request, LetCrash <- OfCopies.LetCrash,
  file <- x1, toy <- x2, tmp <- x3, held <- x4, task <- x5, cut <- x6

\* The working copy here and there are the same.
LEMMA WorkSame ==
  /\ Work!Init <=> FilesT!Work!Init
  /\ Work!Next <=> FilesT!Work!Next
  /\ Work!fileVars = FilesT!Work!fileVars
  /\ Work!TypeOK <=> FilesT!Work!TypeOK
  /\ Work!TornStaysTorn <=> FilesT!Work!TornStaysTorn
  /\ Work!ProgressIsKeptStep <=> FilesT!Work!ProgressIsKeptStep
<1>1. Work!Init <=> FilesT!Work!Init
  BY Zenon
     DEF Work!Init, Work!NoTask, Work!NewTask, FilesT!Work!Init, FilesT!Work!NoTask,
         FilesT!Work!NewTask
<1>2. Work!Next <=> FilesT!Work!Next
  BY Zenon
     DEF Work!Next, Work!Load, Work!Edit, Work!ResetFigure, Work!ResetSlot, Work!Reuse,
         Work!LookAbsent, Work!CopyRuns, Work!CopyEnds, Work!Mark, Work!Opens, Work!Read,
         Work!OpenTmp, Work!WriteTmp, Work!WriteFails, Work!Rename, Work!RenameFails, Work!Play,
         Work!Clear, Work!Remove, Work!Crash, Work!Begin, Work!NotOnPortal, Work!At,
         Work!Overtakes, Work!NewTask, Work!Step, Work!Resolved, Work!End, Work!NoTask,
         Work!Edits, Work!Result, Work!Moved, Work!Overtaken, FilesT!Work!Next,
         FilesT!Work!Load, FilesT!Work!Edit, FilesT!Work!ResetFigure, FilesT!Work!ResetSlot,
         FilesT!Work!Reuse, FilesT!Work!LookAbsent, FilesT!Work!CopyRuns, FilesT!Work!CopyEnds,
         FilesT!Work!Mark, FilesT!Work!Opens, FilesT!Work!Read, FilesT!Work!OpenTmp,
         FilesT!Work!WriteTmp, FilesT!Work!WriteFails, FilesT!Work!Rename,
         FilesT!Work!RenameFails, FilesT!Work!Play, FilesT!Work!Clear, FilesT!Work!Remove,
         FilesT!Work!Crash, FilesT!Work!Begin, FilesT!Work!NotOnPortal, FilesT!Work!At,
         FilesT!Work!Overtakes, FilesT!Work!NewTask, FilesT!Work!Step, FilesT!Work!Resolved,
         FilesT!Work!End, FilesT!Work!NoTask, FilesT!Work!Edits, FilesT!Work!Result,
         FilesT!Work!Moved, FilesT!Work!Overtaken
<1>3. Work!fileVars = FilesT!Work!fileVars
  BY Zenon DEF Work!fileVars, FilesT!Work!fileVars
<1>4. Work!TypeOK <=> FilesT!Work!TypeOK
  BY Zenon
     DEF Work!TypeOK, Work!Contents, Work!Task, Work!Stages, FilesT!Work!TypeOK,
         FilesT!Work!Contents, FilesT!Work!Task, FilesT!Work!Stages
<1>5. Work!TornStaysTorn <=> FilesT!Work!TornStaysTorn
  BY Zenon
     DEF Work!TornStaysTorn, Work!Exposed, Work!At, FilesT!Work!TornStaysTorn,
         FilesT!Work!Exposed, FilesT!Work!At
<1>6. Work!ProgressIsKeptStep <=> FilesT!Work!ProgressIsKeptStep
  BY Zenon
     DEF Work!ProgressIsKeptStep, Work!LosesProgress, Work!ResetFigure, Work!ResetSlot,
         Work!CopyRuns, Work!WriteTmp, Work!Rename, Work!NotOnPortal, Work!Begin, Work!At,
         Work!Overtakes, Work!NewTask, Work!Result, Work!Step, Work!NoTask, Work!Moved,
         Work!Overtaken, FilesT!Work!ProgressIsKeptStep, FilesT!Work!LosesProgress,
         FilesT!Work!ResetFigure, FilesT!Work!ResetSlot, FilesT!Work!CopyRuns,
         FilesT!Work!WriteTmp, FilesT!Work!Rename, FilesT!Work!NotOnPortal, FilesT!Work!Begin,
         FilesT!Work!At, FilesT!Work!Overtakes, FilesT!Work!NewTask, FilesT!Work!Result,
         FilesT!Work!Step, FilesT!Work!NoTask, FilesT!Work!Moved, FilesT!Work!Overtaken
<1> QED
  BY <1>1, <1>2, <1>3, <1>4, <1>5, <1>6

\* Spec runs the working copy, or something else throughout.
LEMMA WorkRun ==
  Spec => \/ FilesT!Work!Spec /\ [](part = "working copy")
          \/ []~(part = "working copy")
<1>1. Init /\ part = "working copy" => FilesT!Work!Init
  BY WorkSame DEF Init
<1>2. [Next]_xs /\ part = "working copy"
      => [FilesT!Work!Next]_(FilesT!Work!fileVars) /\ (part = "working copy")'
  <2>1. CASE Next
    BY <2>1, WorkSame DEF Next
  <2>2. CASE UNCHANGED xs
    BY <2>2 DEF xs, r3, FilesT!Work!fileVars
  <2> QED
    BY <2>1, <2>2
<1>3. [Next]_xs /\ ~(part = "working copy") => ~(part = "working copy")'
  BY DEF Next, xs
<1> QED
  BY <1>1, <1>2, <1>3, PTL DEF Spec, FilesT!Work!Spec

\* What its theorems ask of the constants of the working copy.
LEMMA FilesFormatAssumption == FilesT!FormatAssumption
  BY FormatAssumption DEF FilesT!FormatAssumption

\* The types of the working copy.
LEMMA WorkTypes == Spec => [](part = "working copy" => Work!TypeOK)
<1>1. FilesT!Work!Spec => []FilesT!Work!TypeOK
  BY FilesFormatAssumption, FilesT!WorkTypesCorrect
<1>2. FilesT!Work!TypeOK => (part = "working copy" => Work!TypeOK)
  BY WorkSame
<1> QED
  BY <1>1, <1>2, WorkRun, PTL

\* A torn working copy is never made a whole-looking one, for any set of overlapping
\* requests and crashes (working_copies.rs, sky_edit.rs).
THEOREM TornStaysTornCorrect == Spec => []TornStaysTorn
<1>1. FilesT!Work!Spec => []FilesT!Work!TornStaysTorn
  BY FilesFormatAssumption, FilesT!TornStaysTornCorrect
<1>2. (part = "working copy" => FilesT!Work!TornStaysTorn) => TornStaysTorn
  BY WorkSame DEF TornStaysTorn
<1> QED
  BY <1>1, <1>2, WorkRun, PTL

\* A player's progress is overwritten only on purpose, for any set of overlapping requests
\* and crashes (working_copies.rs).
THEOREM ProgressIsKeptCorrect == Spec => ProgressIsKept
<1>1. FilesT!Work!Spec => FilesT!Work!ProgressIsKept
  BY FilesFormatAssumption, FilesT!ProgressIsKeptCorrect
<1>2. [Next]_xs /\ part = "working copy" /\ [FilesT!Work!ProgressIsKeptStep]_(FilesT!Work!fileVars)
      => [Work!ProgressIsKeptStep]_<<x1, x2, r3>>
  BY WorkSame DEF Next, xs, FilesT!Work!fileVars, r3, r7
<1> QED
  BY <1>1, <1>2, WorkRun, PTL DEF Spec, ProgressIsKept, FilesT!Work!ProgressIsKept

\* The steps of the figure's file are the same, one helper at a time.
LEMMA DistributeXpSame == ASSUME NEW u, NEW v
  PROVE Edits!DistributeXp(u, v) = FilesT!DistributeXp(u, v)
  BY DEF Edits!DistributeXp, Edits!AtMost, Edits!XpForLevel, Edits!MaxLevel, Edits!CAP_2011,
         Edits!CAP_2012, Edits!OnlyFirst, Edits!FirstTwo, Edits!LEVEL_THRESHOLDS,
         Edits!MAX_LEVEL, FilesT!DistributeXp, FilesT!AtMost, FilesT!XpForLevel,
         FilesT!MaxLevel, FilesT!CAP_2011, FilesT!CAP_2012, FilesT!OnlyFirst, FilesT!FirstTwo,
         FilesT!LEVEL_THRESHOLDS, FilesT!MAX_LEVEL

LEMMA SetGoldSame == ASSUME NEW u, NEW v PROVE Edits!SetGold(u, v) = FilesT!SetGold(u, v)
  BY DEF Edits!SetGold, Edits!Target, Edits!Stamped, Edits!Active, Edits!After, Edits!Newer,
         FilesT!SetGold, FilesT!Target, FilesT!Stamped, FilesT!Active, FilesT!After,
         FilesT!Newer

LEMMA SetXpSame == ASSUME NEW u, NEW v PROVE Edits!SetXp(u, v) = FilesT!SetXp(u, v)
  BY DEF Edits!SetXp, Edits!Target, Edits!Stamped, Edits!Active, Edits!After, Edits!Newer,
         FilesT!SetXp, FilesT!Target, FilesT!Stamped, FilesT!Active, FilesT!After, FilesT!Newer

LEMMA EncryptSame == ASSUME NEW u, NEW v PROVE Edits!Encrypt(u, v) = FilesT!Encrypt(u, v)
  BY DEF Edits!Encrypt, Edits!Side, Edits!BlankA, Edits!BlankB, FilesT!Encrypt, FilesT!Side,
         FilesT!BlankA, FilesT!BlankB

LEMMA XpForLevelSame == ASSUME NEW u PROVE Edits!XpForLevel(u) = FilesT!XpForLevel(u)
  BY DEF Edits!XpForLevel, Edits!LEVEL_THRESHOLDS, FilesT!XpForLevel, FilesT!LEVEL_THRESHOLDS

LEMMA MaxLevelSame == ASSUME NEW u PROVE Edits!MaxLevel(u) = FilesT!MaxLevel(u)
  BY DEF Edits!MaxLevel, Edits!OnlyFirst, Edits!FirstTwo, Edits!MAX_LEVEL, FilesT!MaxLevel,
         FilesT!OnlyFirst, FilesT!FirstTwo, FilesT!MAX_LEVEL

LEMMA SavesSame == ASSUME NEW u, NEW v PROVE Edits!GameSaves(u, v) <=> FilesT!GameSaves(u, v)
  BY DEF Edits!GameSaves, Edits!Target, Edits!Stamped, Edits!Active, Edits!After, Edits!Newer,
         FilesT!GameSaves, FilesT!Target, FilesT!Stamped, FilesT!Active, FilesT!After,
         FilesT!Newer

LEMMA RefillSame == Edits!ResetFigure <=> FilesT!ResetFigure
  BY DEF Edits!ResetFigure, FilesT!ResetFigure

LEMMA EditSame == ASSUME NEW l, NEW g PROVE Edits!Edit(l, g) <=> FilesT!Edit(l, g)
  BY DistributeXpSame, SetGoldSame, SetXpSame, EncryptSame, XpForLevelSame, MaxLevelSame
     DEF Edits!Edit, FilesT!Edit

\* The figure's file here and there are the same.
LEMMA EditsSame ==
  /\ Edits!Init <=> FilesT!Init
  /\ Edits!Next <=> FilesT!Next
  /\ Edits!figureVars = FilesT!figureVars
  /\ Edits!TypeOK <=> FilesT!TypeOK
  /\ Edits!EditReadsBack <=> FilesT!EditReadsBack
<1>1. Edits!Init <=> FilesT!Init
  BY DEF Edits!Init, FilesT!Init
<1>2. Edits!Next <=> FilesT!Next
  BY EditSame, SavesSame, RefillSame
     DEF Edits!Next, Edits!Level, Edits!MAX_LEVEL, FilesT!Next, FilesT!Level, FilesT!MAX_LEVEL
<1>3. Edits!figureVars = FilesT!figureVars
  BY DEF Edits!figureVars, FilesT!figureVars
<1>4. Edits!TypeOK <=> FilesT!TypeOK
  BY DEF Edits!TypeOK, Edits!File, Edits!Level, Edits!Side, Edits!MirrorA, Edits!MirrorB,
         Edits!MAX_LEVEL, Edits!Sequence, FilesT!TypeOK, FilesT!File, FilesT!Level, FilesT!Side,
         FilesT!MirrorA, FilesT!MirrorB, FilesT!MAX_LEVEL, FilesT!Sequence
<1>5. Edits!EditReadsBack <=> FilesT!EditReadsBack
  BY DEF Edits!EditReadsBack, Edits!Written, Edits!Parse, Edits!AtMost, Edits!ReadableLevel,
         Edits!Active, Edits!LevelFromXp, Edits!CountedXp, Edits!FirstTwo, Edits!AllThree,
         Edits!MAX_LEVEL, Edits!Newer, Edits!Level, Edits!LEVEL_THRESHOLDS, Edits!After,
         FilesT!EditReadsBack, FilesT!Written, FilesT!Parse, FilesT!AtMost,
         FilesT!ReadableLevel, FilesT!Active, FilesT!LevelFromXp, FilesT!CountedXp,
         FilesT!FirstTwo, FilesT!AllThree, FilesT!MAX_LEVEL, FilesT!Newer, FilesT!Level,
         FilesT!LEVEL_THRESHOLDS, FilesT!After, Edits!Cardinality, FilesT!Cardinality
<1> QED
  BY <1>1, <1>2, <1>3, <1>4, <1>5

\* Spec runs the figure's file, or something else throughout.
LEMMA EditsRun ==
  Spec => \/ FilesT!Spec /\ [](part = "figure file")
          \/ []~(part = "figure file")
<1>1. Init /\ part = "figure file" => FilesT!Init
  BY EditsSame DEF Init
<1>2. [Next]_xs /\ part = "figure file"
      => [FilesT!Next]_(FilesT!figureVars) /\ (part = "figure file")'
  <2>1. CASE Next
    BY <2>1, EditsSame DEF Next
  <2>2. CASE UNCHANGED xs
    BY <2>2 DEF xs, r3, FilesT!figureVars
  <2> QED
    BY <2>1, <2>2
<1>3. [Next]_xs /\ ~(part = "figure file") => ~(part = "figure file")'
  BY DEF Next, xs
<1> QED
  BY <1>1, <1>2, <1>3, PTL DEF Spec, FilesT!Spec

\* What its theorems ask of the constants of the figure's file.
LEMMA FilesGoodFigures == FilesT!GoodFigures
  BY FilesAssumption
     DEF FilesT!File, FilesT!Side, FilesT!MirrorA, FilesT!MirrorB, FilesT!Sequence, File, Side,
         MirrorA, MirrorB, Sequence, FilesT!GoodFigures, FilesT!Generation, Generation

\* The types of the figure's file.
LEMMA EditsTypes == Spec => [](part = "figure file" => Edits!TypeOK)
<1>1. FilesT!Spec => []FilesT!TypeOK
  BY FilesFormatAssumption, FilesGoodFigures, FilesT!FigureTypesCorrect
<1>2. FilesT!TypeOK => (part = "figure file" => Edits!TypeOK)
  BY EditsSame
<1> QED
  BY <1>1, <1>2, EditsRun, PTL

\* What an edit announced is what the figure shows when it is read back, as far as its tag can
\* show it, for any figures, known to the catalogue and the tag or not, pools of the games and
\* amounts of gold (sky_edit.rs, sky-parser).
THEOREM EditReadsBackCorrect == Spec => []EditReadsBack
<1>1. FilesT!Spec => []FilesT!EditReadsBack
  BY FilesFormatAssumption, FilesGoodFigures, FilesT!EditReadsBackCorrect
<1>2. (part = "figure file" => FilesT!EditReadsBack) => EditReadsBack
  BY EditsSame DEF EditReadsBack
<1> QED
  BY <1>1, <1>2, EditsRun, PTL

-----------------------------------------------------------------------------
(***************************************************************************)
(* The profile store.                                                      *)
(***************************************************************************)
StoreT == INSTANCE ProfileStoreProofs WITH
  Attempt <- OfLockouts.Attempt, LOCKOUT_STRIKES <- OfLockouts.LOCKOUT_STRIKES,
  LOCKOUT_DURATION <- OfLockouts.LOCKOUT_DURATION, MaxClock <- OfLockouts.MaxClock,
  clock <- x1, strikes <- x2, lockedUntil <- x3, attempt <- x4, window <- x5, tested <- x6,
  Creator <- OfEnrolment.Creator, MAX_PROFILES <- OfEnrolment.MAX_PROFILES,
  enrolled <- x1, creator <- x2,
  Profile <- OfProfiles.Profile, Session <- OfProfiles.Session, Place <- OfProfiles.Place,
  NoProfile <- Absent, NoLayout <- Unused,
  rows <- x1, minted <- x2, layout <- x3, seat <- x4, bound <- x5, unlocking <- x6, place <- x7,
  cleaning <- x8, saver <- x9, story <- x10

\* The PIN attempts here and there are the same.
LEMMA LockSame ==
  /\ Lock!Init <=> StoreT!Init
  /\ Lock!Next <=> StoreT!Next
  /\ Lock!lockoutVars = StoreT!lockoutVars
  /\ Lock!TypeOK <=> StoreT!TypeOK
  /\ Lock!GuessingIsSlow <=> StoreT!GuessingIsSlow
<1>1. Lock!Init <=> StoreT!Init
  BY Zenon DEF Lock!Init, Lock!Idle, Lock!Instants, StoreT!Init, StoreT!Idle, StoreT!Instants
<1>2. Lock!Next <=> StoreT!Next
  BY Zenon
     DEF Lock!Next, Lock!Begin, Lock!Check, Lock!Verify, Lock!RecordFailure, Lock!RecordSuccess,
         Lock!Tick, Lock!Idle, Lock!InWindow, StoreT!Next, StoreT!Begin, StoreT!Check,
         StoreT!Verify, StoreT!RecordFailure, StoreT!RecordSuccess, StoreT!Tick, StoreT!Idle,
         StoreT!InWindow
<1>3. Lock!lockoutVars = StoreT!lockoutVars
  BY Zenon DEF Lock!lockoutVars, StoreT!lockoutVars
<1>4. Lock!TypeOK <=> StoreT!TypeOK
  BY Zenon DEF Lock!TypeOK, Lock!Instants, StoreT!TypeOK, StoreT!Instants
<1>5. Lock!GuessingIsSlow <=> StoreT!GuessingIsSlow
  BY Zenon
     DEF Lock!GuessingIsSlow, Lock!Twice, StoreT!GuessingIsSlow, StoreT!Twice, Lock!Cardinality,
         StoreT!Cardinality
<1> QED
  BY <1>1, <1>2, <1>3, <1>4, <1>5

\* Spec runs the PIN attempts, or something else throughout.
LEMMA LockRun ==
  Spec => \/ StoreT!Spec /\ [](part = "lockouts")
          \/ []~(part = "lockouts")
<1>1. Init /\ part = "lockouts" => StoreT!Init
  BY LockSame DEF Init
<1>2. [Next]_xs /\ part = "lockouts"
      => [StoreT!Next]_(StoreT!lockoutVars) /\ (part = "lockouts")'
  <2>1. CASE Next
    BY <2>1, LockSame DEF Next
  <2>2. CASE UNCHANGED xs
    BY <2>2 DEF xs, r3, StoreT!lockoutVars
  <2> QED
    BY <2>1, <2>2
<1>3. [Next]_xs /\ ~(part = "lockouts") => ~(part = "lockouts")'
  BY DEF Next, xs
<1> QED
  BY <1>1, <1>2, <1>3, PTL DEF Spec, StoreT!Spec

\* What its theorems ask of the constants of the PIN attempts.
LEMMA StorePolicy == StoreT!Policy
  BY StoreAssumption DEF StoreT!Policy, StoreT!IsFiniteSet, IsFiniteSet

\* The types of the PIN attempts.
LEMMA LockTypes == Spec => [](part = "lockouts" => Lock!TypeOK)
<1>1. StoreT!Spec => []StoreT!TypeOK
  BY StorePolicy, StoreT!LockoutTypesCorrect
<1>2. StoreT!TypeOK => (part = "lockouts" => Lock!TypeOK)
  BY LockSame
<1> QED
  BY <1>1, <1>2, LockRun, PTL

\* However many attempts overlap, wrong PINs are tried at a bounded rate, for every number of
\* strikes and length of a lockout (profiles.rs).
THEOREM GuessingIsSlowCorrect == Spec => []GuessingIsSlow
<1>1. StoreT!Spec => []StoreT!GuessingIsSlow
  BY StorePolicy, StoreT!GuessingCorrect
<1>2. (part = "lockouts" => StoreT!GuessingIsSlow) => GuessingIsSlow
  BY LockSame DEF GuessingIsSlow
<1> QED
  BY <1>1, <1>2, LockRun, PTL

\* The requests for new profiles here and there are the same.
LEMMA EnrolSame ==
  /\ Enrol!Init <=> StoreT!Enrol!Init
  /\ Enrol!Next <=> StoreT!Enrol!Next
  /\ Enrol!enrolmentVars = StoreT!Enrol!enrolmentVars
  /\ Enrol!TypeOK <=> StoreT!Enrol!TypeOK
  /\ Enrol!LimitIsSoft <=> StoreT!Enrol!LimitIsSoft
<1>1. Enrol!Init <=> StoreT!Enrol!Init
  BY Zenon DEF Enrol!Init, StoreT!Enrol!Init
<1>2. Enrol!Next <=> StoreT!Enrol!Next
  BY Zenon
     DEF Enrol!Next, Enrol!CountProfiles, Enrol!InsertProfile, Enrol!DeleteProfile,
         StoreT!Enrol!Next, StoreT!Enrol!CountProfiles, StoreT!Enrol!InsertProfile,
         StoreT!Enrol!DeleteProfile
<1>3. Enrol!enrolmentVars = StoreT!Enrol!enrolmentVars
  BY Zenon DEF Enrol!enrolmentVars, StoreT!Enrol!enrolmentVars
<1>4. Enrol!TypeOK <=> StoreT!Enrol!TypeOK
  BY Zenon DEF Enrol!TypeOK, StoreT!Enrol!TypeOK
<1>5. Enrol!LimitIsSoft <=> StoreT!Enrol!LimitIsSoft
  BY Zenon
     DEF Enrol!LimitIsSoft, StoreT!Enrol!LimitIsSoft, Enrol!Cardinality,
         StoreT!Enrol!Cardinality
<1> QED
  BY <1>1, <1>2, <1>3, <1>4, <1>5

\* Spec runs the requests for new profiles, or something else throughout.
LEMMA EnrolRun ==
  Spec => \/ StoreT!Enrol!Spec /\ [](part = "enrolment")
          \/ []~(part = "enrolment")
<1>1. Init /\ part = "enrolment" => StoreT!Enrol!Init
  BY EnrolSame DEF Init
<1>2. [Next]_xs /\ part = "enrolment"
      => [StoreT!Enrol!Next]_(StoreT!Enrol!enrolmentVars) /\ (part = "enrolment")'
  <2>1. CASE Next
    BY <2>1, EnrolSame DEF Next
  <2>2. CASE UNCHANGED xs
    BY <2>2 DEF xs, r3, StoreT!Enrol!enrolmentVars
  <2> QED
    BY <2>1, <2>2
<1>3. [Next]_xs /\ ~(part = "enrolment") => ~(part = "enrolment")'
  BY DEF Next, xs
<1> QED
  BY <1>1, <1>2, <1>3, PTL DEF Spec, StoreT!Enrol!Spec

\* What its theorems ask of the constants of the requests for new profiles.
LEMMA StoreLimits == StoreT!Limits
  BY StoreAssumption DEF StoreT!Limits, StoreT!IsFiniteSet, IsFiniteSet

\* The types of the requests for new profiles.
LEMMA EnrolTypes == Spec => [](part = "enrolment" => Enrol!TypeOK)
<1>1. StoreT!Enrol!Spec => []StoreT!Enrol!TypeOK
  BY StoreLimits, StoreT!EnrolmentTypesCorrect
<1>2. StoreT!Enrol!TypeOK => (part = "enrolment" => Enrol!TypeOK)
  BY EnrolSame
<1> QED
  BY <1>1, <1>2, EnrolRun, PTL

\* Any number of overlapping create_profile requests exceed any limit by a known number
\* (profiles.rs).
THEOREM LimitIsSoftCorrect == Spec => []LimitIsSoft
<1>1. StoreT!Enrol!Spec => []StoreT!Enrol!LimitIsSoft
  BY StoreLimits, StoreT!LimitIsSoftCorrect
<1>2. (part = "enrolment" => StoreT!Enrol!LimitIsSoft) => LimitIsSoft
  BY EnrolSame DEF LimitIsSoft
<1> QED
  BY <1>1, <1>2, EnrolRun, PTL

\* The profiles and layouts here and there are the same.
LEMMA ProfSame ==
  /\ Prof!Init <=> StoreT!Rows!Init
  /\ Prof!Next <=> StoreT!Rows!Next
  /\ Prof!profileVars = StoreT!Rows!profileVars
  /\ Prof!TypeOK <=> StoreT!Rows!TypeOK
  /\ Prof!LayoutOutlivesCleanUp <=> StoreT!Rows!LayoutOutlivesCleanUp
<1>1. Prof!Init <=> StoreT!Rows!Init
  BY Zenon
     DEF Prof!Init, Prof!Nothing, Prof!AtRest, StoreT!Rows!Init, StoreT!Rows!Nothing,
         StoreT!Rows!AtRest
<1>2. Prof!Next <=> StoreT!Rows!Next
  BY Zenon
     DEF Prof!Next, Prof!CreateProfile, Prof!DeleteProfile, Prof!ClearResume, Prof!CleanUp,
         Prof!Arrive, Prof!SetProfile, Prof!LockProfile, Prof!Depart, Prof!Reclaim,
         Prof!ExpireGhost, Prof!ReadProfile, Prof!ReadRow, Prof!Request, Prof!FinishJob,
         Prof!TakeSnapshot, Prof!ReadIds, Prof!SaveLayout, Prof!EndPersist, Prof!registry,
         Prof!Goes, Prof!AtRest, Prof!Nothing, StoreT!Rows!Next, StoreT!Rows!CreateProfile,
         StoreT!Rows!DeleteProfile, StoreT!Rows!ClearResume, StoreT!Rows!CleanUp,
         StoreT!Rows!Arrive, StoreT!Rows!SetProfile, StoreT!Rows!LockProfile,
         StoreT!Rows!Depart, StoreT!Rows!Reclaim, StoreT!Rows!ExpireGhost,
         StoreT!Rows!ReadProfile, StoreT!Rows!ReadRow, StoreT!Rows!Request,
         StoreT!Rows!FinishJob, StoreT!Rows!TakeSnapshot, StoreT!Rows!ReadIds,
         StoreT!Rows!SaveLayout, StoreT!Rows!EndPersist, StoreT!Rows!registry, StoreT!Rows!Goes,
         StoreT!Rows!AtRest, StoreT!Rows!Nothing
<1>3. Prof!profileVars = StoreT!Rows!profileVars
  BY Zenon DEF Prof!profileVars, StoreT!Rows!profileVars
<1>4. Prof!TypeOK <=> StoreT!Rows!TypeOK
  BY Zenon
     DEF Prof!TypeOK, Prof!Layout, Prof!Owner, Prof!Spot, StoreT!Rows!TypeOK,
         StoreT!Rows!Layout, StoreT!Rows!Owner, StoreT!Rows!Spot
<1>5. Prof!LayoutOutlivesCleanUp <=> StoreT!Rows!LayoutOutlivesCleanUp
  BY Zenon DEF Prof!LayoutOutlivesCleanUp, StoreT!Rows!LayoutOutlivesCleanUp
<1> QED
  BY <1>1, <1>2, <1>3, <1>4, <1>5

\* Spec runs the profiles and layouts, or something else throughout.
LEMMA ProfRun ==
  Spec => \/ StoreT!Rows!Spec /\ [](part = "profiles")
          \/ []~(part = "profiles")
<1>1. Init /\ part = "profiles" => StoreT!Rows!Init
  BY ProfSame DEF Init
<1>2. [Next]_xs /\ part = "profiles"
      => [StoreT!Rows!Next]_(StoreT!Rows!profileVars) /\ (part = "profiles")'
  <2>1. CASE Next
    BY <2>1, ProfSame DEF Next
  <2>2. CASE UNCHANGED xs
    BY <2>2 DEF xs, r3, StoreT!Rows!profileVars
  <2> QED
    BY <2>1, <2>2
<1>3. [Next]_xs /\ ~(part = "profiles") => ~(part = "profiles")'
  BY DEF Next, xs
<1> QED
  BY <1>1, <1>2, <1>3, PTL DEF Spec, StoreT!Rows!Spec

\* What its theorems ask of the constants of the profiles and layouts.
LEMMA StoreIds == StoreT!Ids
  BY StoreAssumption DEF StoreT!Ids

\* The types of the profiles and layouts.
LEMMA ProfTypes == Spec => [](part = "profiles" => Prof!TypeOK)
<1>1. StoreT!Rows!Spec => []StoreT!Rows!TypeOK
  BY StoreIds, StoreT!LayoutTypesCorrect
<1>2. StoreT!Rows!TypeOK => (part = "profiles" => Prof!TypeOK)
  BY ProfSame
<1> QED
  BY <1>1, <1>2, ProfRun, PTL

\* The clean-up of a player who left never reaches the layout that the player is offered to
\* resume, for any profiles, sessions and slots (persist_layout).
THEOREM LayoutCorrect == Spec => []LayoutOutlivesCleanUp
<1>1. StoreT!Rows!Spec => []StoreT!Rows!LayoutOutlivesCleanUp
  BY StoreIds, StoreT!LayoutCorrect
<1>2. (part = "profiles" => StoreT!Rows!LayoutOutlivesCleanUp) => LayoutOutlivesCleanUp
  BY ProfSame DEF LayoutOutlivesCleanUp
<1> QED
  BY <1>1, <1>2, ProfRun, PTL

-----------------------------------------------------------------------------
(***************************************************************************)
(* The launcher's set-up, its NFC reader, its looks at the game, and a button of a*)
(* menu.                                                                   *)
(***************************************************************************)
MenuT == INSTANCE SmallProofs WITH
  Platform <- OfSetup.Platform, MaxKeys <- OfSetup.MaxKeys,
  file <- x1, json <- x2, app <- x3, wizard <- x4, run <- x5, pending <- x6, edit <- x7,
  keys <- x8, qr <- x9, asked <- x10, raced <- x11, cut <- x12,
  Tag <- OfScanner.Tag, KindOf <- OfScanner.KindOf, Blocks <- OfScanner.Blocks, NoTag <- Absent,
  pad <- x1, reader <- x2, field <- x3, dump <- x4, scanned <- x5, pack <- x6, cards <- x7,
  known <- x8, fresh <- x9,
  Subject <- OfMenu.Subject, HOLD <- OfMenu.HOLD, LINGER <- OfMenu.LINGER,
  DISMISS <- OfMenu.DISMISS, Dialog <- FALSE, NoTarget <- Absent,
  target <- x1, holding <- x2, fired <- x3, timers <- x4, rest <- x5, down <- x6, held <- x7,
  spent <- x8,
  SAMPLE_BUFFER <- OfPoller.SAMPLE_BUFFER, FreezeTicks <- OfPoller.FreezeTicks,
  MaxGap <- OfPoller.MaxGap, Failing <- OfPoller.Failing, NoSample <- Absent,
  game <- x1, status <- x2, poller <- x3, sample <- x4, looked <- x5

\* The launcher's set-up here and there are the same.
LEMMA WizardSame ==
  /\ Wizard!Init <=> MenuT!Init
  /\ Wizard!Next <=> MenuT!Next
  /\ Wizard!setupVars = MenuT!setupVars
  /\ Wizard!TypeOK <=> MenuT!TypeOK
  /\ Wizard!KeySurvives <=> MenuT!KeySurvives
  /\ Wizard!SettingsStick <=> MenuT!SettingsStick
  /\ Wizard!TornForAReason <=> MenuT!TornForAReason
<1>1. Wizard!Init <=> MenuT!Init
  BY Zenon
     DEF Wizard!Init, Wizard!Unset, Wizard!NoWizard, Wizard!Handler, Wizard!Resting,
         Wizard!SettingsOf, MenuT!Init, MenuT!Unset, MenuT!NoWizard, MenuT!Handler,
         MenuT!Resting, MenuT!SettingsOf
<1>2. Wizard!Next <=> MenuT!Next
  BY Zenon
     DEF Wizard!Next, Wizard!StartMock, Wizard!StartNormally, Wizard!GiveKey, Wizard!SaveEnds,
         Wizard!SaveFails, Wizard!StartWizard, Wizard!Pages, Wizard!Turn, Wizard!Enter,
         Wizard!Finish, Wizard!Close, Wizard!Cancel, Wizard!Handler, Wizard!Modes,
         Wizard!ReadConfig, Wizard!ReadFails, Wizard!WriteStarts, Wizard!WriteEnds,
         Wizard!WriteFails, Wizard!Die, Wizard!Unset, Wizard!history, Wizard!ComeUp,
         Wizard!NoWizard, Wizard!Leads, Wizard!SettingsOf, Wizard!Change, Wizard!Resting,
         Wizard!DriverOf, MenuT!Next, MenuT!StartMock, MenuT!StartNormally, MenuT!GiveKey,
         MenuT!SaveEnds, MenuT!SaveFails, MenuT!StartWizard, MenuT!Pages, MenuT!Turn,
         MenuT!Enter, MenuT!Finish, MenuT!Close, MenuT!Cancel, MenuT!Handler, MenuT!Modes,
         MenuT!ReadConfig, MenuT!ReadFails, MenuT!WriteStarts, MenuT!WriteEnds,
         MenuT!WriteFails, MenuT!Die, MenuT!Unset, MenuT!history, MenuT!ComeUp, MenuT!NoWizard,
         MenuT!Leads, MenuT!SettingsOf, MenuT!Change, MenuT!Resting, MenuT!DriverOf
<1>3. Wizard!setupVars = MenuT!setupVars
  BY Zenon DEF Wizard!setupVars, MenuT!setupVars
<1>4. Wizard!TypeOK <=> MenuT!TypeOK
  BY Zenon
     DEF Wizard!TypeOK, Wizard!Config, Wizard!Pages, Wizard!Modes, Wizard!Handler, MenuT!TypeOK,
         MenuT!Config, MenuT!Pages, MenuT!Modes, MenuT!Handler
<1>5. Wizard!KeySurvives <=> MenuT!KeySurvives
  BY Zenon DEF Wizard!KeySurvives, MenuT!KeySurvives
<1>6. Wizard!SettingsStick <=> MenuT!SettingsStick
  BY Zenon DEF Wizard!SettingsStick, Wizard!SettingsOf, MenuT!SettingsStick, MenuT!SettingsOf
<1>7. Wizard!TornForAReason <=> MenuT!TornForAReason
  BY Zenon DEF Wizard!TornForAReason, Wizard!Handler, MenuT!TornForAReason, MenuT!Handler
<1> QED
  BY <1>1, <1>2, <1>3, <1>4, <1>5, <1>6, <1>7

\* Spec runs the launcher's set-up, or something else throughout.
LEMMA WizardRun ==
  Spec => \/ MenuT!Spec /\ [](part = "set-up")
          \/ []~(part = "set-up")
<1>1. Init /\ part = "set-up" => MenuT!Init
  BY WizardSame DEF Init
<1>2. [Next]_xs /\ part = "set-up"
      => [MenuT!Next]_(MenuT!setupVars) /\ (part = "set-up")'
  <2>1. CASE Next
    BY <2>1, WizardSame DEF Next
  <2>2. CASE UNCHANGED xs
    BY <2>2 DEF xs, r3, MenuT!setupVars
  <2> QED
    BY <2>1, <2>2
<1>3. [Next]_xs /\ ~(part = "set-up") => ~(part = "set-up")'
  BY DEF Next, xs
<1> QED
  BY <1>1, <1>2, <1>3, PTL DEF Spec, MenuT!Spec

\* What its theorems ask of the constants of the launcher's set-up.
LEMMA MenuKeys == MenuT!Keys
  BY DeskAssumption DEF MenuT!Keys

\* The types of the launcher's set-up.
LEMMA WizardTypes == Spec => [](part = "set-up" => Wizard!TypeOK)
<1>1. MenuT!Spec => []MenuT!TypeOK
  BY MenuKeys, MenuT!SetupTypesCorrect
<1>2. MenuT!TypeOK => (part = "set-up" => Wizard!TypeOK)
  BY WizardSame
<1> QED
  BY <1>1, <1>2, WizardRun, PTL

\* A scanned QR code stays valid until the setup is run again, for any number of keys
\* (config.rs).
THEOREM KeyCorrect == Spec => []KeySurvives
<1>1. MenuT!Spec => []MenuT!KeySurvives
  BY MenuKeys, MenuT!KeyCorrect
<1>2. (part = "set-up" => MenuT!KeySurvives) => KeySurvives
  BY WizardSame DEF KeySurvives
<1> QED
  BY <1>1, <1>2, WizardRun, PTL

\* An acknowledged setting stays in config.json, unless handlers overlapped (config.rs).
THEOREM SettingsCorrect == Spec => []SettingsStick
<1>1. MenuT!Spec => []MenuT!SettingsStick
  BY MenuKeys, MenuT!SettingsCorrect
<1>2. (part = "set-up" => MenuT!SettingsStick) => SettingsStick
  BY WizardSame DEF SettingsStick
<1> QED
  BY <1>1, <1>2, WizardRun, PTL

\* Only a write that was cut short, by a death or a failure, or overlapping writes leave
\* config.json unreadable (config.rs, http.rs).
THEOREM TornForAReasonCorrect == Spec => []TornForAReason
<1>1. MenuT!Spec => []MenuT!TornForAReason
  BY MenuKeys, MenuT!TornCorrect
<1>2. (part = "set-up" => MenuT!TornForAReason) => TornForAReason
  BY WizardSame DEF TornForAReason
<1> QED
  BY <1>1, <1>2, WizardRun, PTL

\* The NFC reader here and there are the same.
LEMMA PadSame ==
  /\ Pad!Init <=> MenuT!Nfc!Init
  /\ Pad!Next <=> MenuT!Nfc!Next
  /\ Pad!scannerVars = MenuT!Nfc!scannerVars
  /\ Pad!TypeOK <=> MenuT!Nfc!TypeOK
  /\ Pad!DumpIsOfOneFigure <=> MenuT!Nfc!DumpIsOfOneFigure
  /\ Pad!OnceForEachTapStep <=> MenuT!Nfc!OnceForEachTapStep
  /\ Pad!OneCardForEachKind <=> MenuT!Nfc!OneCardForEachKind
<1>1. Pad!Init <=> MenuT!Nfc!Init
  BY Zenon
     DEF Pad!Init, Pad!Polling, Pad!Kinds, MenuT!Nfc!Init, MenuT!Nfc!Polling, MenuT!Nfc!Kinds
<1>2. Pad!Next <=> MenuT!Nfc!Next
  BY Zenon
     DEF Pad!Next, Pad!Place, Pad!Lift, Pad!OpenReader, Pad!ReaderGone, Pad!SeeEmptyField,
         Pad!SeeTag, Pad!ReadBlock, Pad!DumpFails, Pad!DumpDone, Pad!WriteStarts, Pad!WriteEnds,
         Pad!WriteFails, Pad!Orders, Pad!Restart, Pad!disk, Pad!Polling, Pad!Merge, Pad!Keep,
         MenuT!Nfc!Next, MenuT!Nfc!Place, MenuT!Nfc!Lift, MenuT!Nfc!OpenReader,
         MenuT!Nfc!ReaderGone, MenuT!Nfc!SeeEmptyField, MenuT!Nfc!SeeTag, MenuT!Nfc!ReadBlock,
         MenuT!Nfc!DumpFails, MenuT!Nfc!DumpDone, MenuT!Nfc!WriteStarts, MenuT!Nfc!WriteEnds,
         MenuT!Nfc!WriteFails, MenuT!Nfc!Orders, MenuT!Nfc!Restart, MenuT!Nfc!disk,
         MenuT!Nfc!Polling, MenuT!Nfc!Merge, MenuT!Nfc!Keep, Pad!Cardinality,
         MenuT!Nfc!Cardinality
<1>3. Pad!scannerVars = MenuT!Nfc!scannerVars
  BY Zenon DEF Pad!scannerVars, MenuT!Nfc!scannerVars
<1>4. Pad!TypeOK <=> MenuT!Nfc!TypeOK
  BY Zenon DEF Pad!TypeOK, Pad!Kinds, MenuT!Nfc!TypeOK, MenuT!Nfc!Kinds
<1>5. Pad!DumpIsOfOneFigure <=> MenuT!Nfc!DumpIsOfOneFigure
  BY Zenon DEF Pad!DumpIsOfOneFigure, MenuT!Nfc!DumpIsOfOneFigure
<1>6. Pad!OnceForEachTapStep <=> MenuT!Nfc!OnceForEachTapStep
  BY Zenon
     DEF Pad!OnceForEachTapStep, Pad!WriteEnds, Pad!Polling, MenuT!Nfc!OnceForEachTapStep,
         MenuT!Nfc!WriteEnds, MenuT!Nfc!Polling
<1>7. Pad!OneCardForEachKind <=> MenuT!Nfc!OneCardForEachKind
  BY Zenon DEF Pad!OneCardForEachKind, MenuT!Nfc!OneCardForEachKind
<1> QED
  BY <1>1, <1>2, <1>3, <1>4, <1>5, <1>6, <1>7

\* Spec runs the NFC reader, or something else throughout.
LEMMA PadRun ==
  Spec => \/ MenuT!Nfc!Spec /\ [](part = "scanner")
          \/ []~(part = "scanner")
<1>1. Init /\ part = "scanner" => MenuT!Nfc!Init
  BY PadSame DEF Init
<1>2. [Next]_xs /\ part = "scanner"
      => [MenuT!Nfc!Next]_(MenuT!Nfc!scannerVars) /\ (part = "scanner")'
  <2>1. CASE Next
    BY <2>1, PadSame DEF Next
  <2>2. CASE UNCHANGED xs
    BY <2>2 DEF xs, r3, MenuT!Nfc!scannerVars
  <2> QED
    BY <2>1, <2>2
<1>3. [Next]_xs /\ ~(part = "scanner") => ~(part = "scanner")'
  BY DEF Next, xs
<1> QED
  BY <1>1, <1>2, <1>3, PTL DEF Spec, MenuT!Nfc!Spec

\* What its theorems ask of the constants of the NFC reader.
LEMMA MenuTags == MenuT!Tags
  BY DeskAssumption DEF MenuT!Tags, MenuT!IsFiniteSet, IsFiniteSet

\* The types of the NFC reader.
LEMMA PadTypes == Spec => [](part = "scanner" => Pad!TypeOK)
<1>1. MenuT!Nfc!Spec => []MenuT!Nfc!TypeOK
  BY MenuTags, MenuT!ScanTypesCorrect
<1>2. MenuT!Nfc!TypeOK => (part = "scanner" => Pad!TypeOK)
  BY PadSame
<1> QED
  BY <1>1, <1>2, PadRun, PTL

\* A dump holds one figure, for any tags and number of blocks, however figures are swapped
\* meanwhile (dump_figure).
THEOREM DumpCorrect == Spec => []DumpIsOfOneFigure
<1>1. MenuT!Nfc!Spec => []MenuT!Nfc!DumpIsOfOneFigure
  BY MenuTags, MenuT!DumpIsOfOneFigureCorrect
<1>2. (part = "scanner" => MenuT!Nfc!DumpIsOfOneFigure) => DumpIsOfOneFigure
  BY PadSame DEF DumpIsOfOneFigure
<1> QED
  BY <1>1, <1>2, PadRun, PTL

\* A figure that stays on the pad is announced once, for any tags (run_scanner_worker).
THEOREM OnceForEachTapCorrect == Spec => OnceForEachTap
<1>1. MenuT!Nfc!Spec => MenuT!Nfc!OnceForEachTap
  BY MenuTags, MenuT!OnceForEachTapCorrect
<1>2. [Next]_xs /\ part = "scanner" /\ [MenuT!Nfc!OnceForEachTapStep]_(MenuT!Nfc!scannerVars)
      => [Pad!OnceForEachTapStep]_<<x1, x2, r3>>
  BY PadSame DEF Next, xs, MenuT!Nfc!scannerVars, r3, r10
<1> QED
  BY <1>1, <1>2, PadRun, PTL DEF Spec, OnceForEachTap, MenuT!Nfc!OnceForEachTap

\* A start makes one library card for each identity among pack and dumps, for any finite set
\* of tags and whichever order the merge meets them in (dedup_and_merge).
THEOREM OneCardCorrect == Spec => []OneCardForEachKind
<1>1. MenuT!Nfc!Spec => []MenuT!Nfc!OneCardForEachKind
  BY MenuTags, MenuT!OneCardCorrect
<1>2. (part = "scanner" => MenuT!Nfc!OneCardForEachKind) => OneCardForEachKind
  BY PadSame DEF OneCardForEachKind
<1> QED
  BY <1>1, <1>2, PadRun, PTL

\* The looks at the game here and there are the same.
LEMMA LooksSame ==
  /\ Looks!Init <=> MenuT!Poll!Init
  /\ Looks!Next <=> MenuT!Poll!Next
  /\ Looks!pollerVars = MenuT!Poll!pollerVars
  /\ Looks!TypeOK <=> MenuT!Poll!TypeOK
  /\ Looks!CoverHolds <=> MenuT!Poll!CoverHolds
  /\ Looks!FreezeIsReal <=> MenuT!Poll!FreezeIsReal
<1>1. Looks!Init <=> MenuT!Poll!Init
  BY Zenon DEF Looks!Init, Looks!NewGame, MenuT!Poll!Init, MenuT!Poll!NewGame
<1>2. Looks!Next <=> MenuT!Poll!Next
  BY Zenon
     DEF Looks!Next, Looks!EmulatorGoesOn, Looks!EmulatorEnds, Looks!Spawn, Looks!BootDirect,
         Looks!Quit, Looks!Recover, Looks!Poll, Looks!Becomes, Looks!NewGame, Looks!TakeSample,
         Looks!NoSampleTaken, Looks!ApplySample, Looks!Moved, Looks!Answer, Looks!Least,
         Looks!NoAnswer, Looks!Latch, Looks!ReadyRun, Looks!StallTicks, Looks!Ever,
         Looks!Stable, Looks!FrozenNow, Looks!Ready, MenuT!Poll!Next, MenuT!Poll!EmulatorGoesOn,
         MenuT!Poll!EmulatorEnds, MenuT!Poll!Spawn, MenuT!Poll!BootDirect, MenuT!Poll!Quit,
         MenuT!Poll!Recover, MenuT!Poll!Poll, MenuT!Poll!Becomes, MenuT!Poll!NewGame,
         MenuT!Poll!TakeSample, MenuT!Poll!NoSampleTaken, MenuT!Poll!ApplySample,
         MenuT!Poll!Moved, MenuT!Poll!Answer, MenuT!Poll!Least, MenuT!Poll!NoAnswer,
         MenuT!Poll!Latch, MenuT!Poll!ReadyRun, MenuT!Poll!StallTicks, MenuT!Poll!Ever,
         MenuT!Poll!Stable, MenuT!Poll!FrozenNow, MenuT!Poll!Ready
<1>3. Looks!pollerVars = MenuT!Poll!pollerVars
  BY Zenon DEF Looks!pollerVars, MenuT!Poll!pollerVars
<1>4. Looks!TypeOK <=> MenuT!Poll!TypeOK
  BY Zenon
     DEF Looks!TypeOK, Looks!Phase, Looks!Look, MenuT!Poll!TypeOK, MenuT!Poll!Phase,
         MenuT!Poll!Look
<1>5. Looks!CoverHolds <=> MenuT!Poll!CoverHolds
  BY Zenon DEF Looks!CoverHolds, MenuT!Poll!CoverHolds
<1>6. Looks!FreezeIsReal <=> MenuT!Poll!FreezeIsReal
  BY Zenon DEF Looks!FreezeIsReal, MenuT!Poll!FreezeIsReal
<1> QED
  BY <1>1, <1>2, <1>3, <1>4, <1>5, <1>6

\* Spec runs the looks at the game, or something else throughout.
LEMMA LooksRun ==
  Spec => \/ MenuT!Poll!Spec /\ [](part = "poller")
          \/ []~(part = "poller")
<1>1. Init /\ part = "poller" => MenuT!Poll!Init
  BY LooksSame DEF Init
<1>2. [Next]_xs /\ part = "poller"
      => [MenuT!Poll!Next]_(MenuT!Poll!pollerVars) /\ (part = "poller")'
  <2>1. CASE Next
    BY <2>1, LooksSame DEF Next
  <2>2. CASE UNCHANGED xs
    BY <2>2 DEF xs, r3, MenuT!Poll!pollerVars
  <2> QED
    BY <2>1, <2>2
<1>3. [Next]_xs /\ ~(part = "poller") => ~(part = "poller")'
  BY DEF Next, xs
<1> QED
  BY <1>1, <1>2, <1>3, PTL DEF Spec, MenuT!Poll!Spec

\* What its theorems ask of the constants of the looks at the game.
LEMMA MenuBrief == MenuT!Brief
  BY DeskAssumption DEF MenuT!Brief, MenuT!Poll!Look, Looks!Look

\* The types of the looks at the game.
LEMMA LooksTypes == Spec => [](part = "poller" => Looks!TypeOK)
<1>1. MenuT!Poll!Spec => []MenuT!Poll!TypeOK
  BY MenuBrief, MenuT!PollTypesCorrect
<1>2. MenuT!Poll!TypeOK => (part = "poller" => Looks!TypeOK)
  BY LooksSame
<1> QED
  BY <1>1, <1>2, LooksRun, PTL

\* The cover is lifted for a game that has rendered only, for every sample buffer and gap
\* between compile phases that it outlasts (spawn_state_poller).
THEOREM CoverHoldsCorrect == Spec => []CoverHolds
<1>1. MenuT!Poll!Spec => []MenuT!Poll!CoverHolds
  BY MenuBrief, MenuT!CoverHoldsCorrect
<1>2. (part = "poller" => MenuT!Poll!CoverHolds) => CoverHolds
  BY LooksSame DEF CoverHolds
<1> QED
  BY <1>1, <1>2, LooksRun, PTL

\* What is called frozen does not move, for every confirmation count (FreezeDetector).
THEOREM FreezeIsRealCorrect == Spec => []FreezeIsReal
<1>1. MenuT!Poll!Spec => []MenuT!Poll!FreezeIsReal
  BY MenuBrief, MenuT!FreezeIsRealCorrect
<1>2. (part = "poller" => MenuT!Poll!FreezeIsReal) => FreezeIsReal
  BY LooksSame DEF FreezeIsReal
<1> QED
  BY <1>1, <1>2, LooksRun, PTL

\* The menu's button here and there are the same.
LEMMA MenuSame ==
  /\ Menu!Init <=> MenuT!Button!Init
  /\ Menu!Next <=> MenuT!Button!Next
  /\ Menu!holdVars = MenuT!Button!holdVars
  /\ Menu!TypeOK <=> MenuT!Button!TypeOK
  /\ Menu!ActsUnderFingerStep <=> MenuT!Button!ActsUnderFingerStep
<1>1. Menu!Init <=> MenuT!Button!Init
  BY Zenon DEF Menu!Init, MenuT!Button!Init
<1>2. Menu!Next <=> MenuT!Button!Next
  BY Zenon
     DEF Menu!Next, Menu!Open, Menu!Close, Menu!Press, Menu!Lift, Menu!TimerEnds, Menu!Tick,
         Menu!AtRest, Menu!Gone, Menu!Act, MenuT!Button!Next, MenuT!Button!Open,
         MenuT!Button!Close, MenuT!Button!Press, MenuT!Button!Lift, MenuT!Button!TimerEnds,
         MenuT!Button!Tick, MenuT!Button!AtRest, MenuT!Button!Gone, MenuT!Button!Act
<1>3. Menu!holdVars = MenuT!Button!holdVars
  BY Zenon DEF Menu!holdVars, MenuT!Button!holdVars
<1>4. Menu!TypeOK <=> MenuT!Button!TypeOK
  BY Zenon DEF Menu!TypeOK, MenuT!Button!TypeOK
<1>5. Menu!ActsUnderFingerStep <=> MenuT!Button!ActsUnderFingerStep
  BY Zenon
     DEF Menu!ActsUnderFingerStep, Menu!Acts, MenuT!Button!ActsUnderFingerStep,
         MenuT!Button!Acts
<1> QED
  BY <1>1, <1>2, <1>3, <1>4, <1>5

\* Spec runs the menu's button, or something else throughout.
LEMMA MenuRun ==
  Spec => \/ MenuT!Button!Spec /\ [](part = "menu")
          \/ []~(part = "menu")
<1>1. Init /\ part = "menu" => MenuT!Button!Init
  BY MenuSame DEF Init
<1>2. [Next]_xs /\ part = "menu"
      => [MenuT!Button!Next]_(MenuT!Button!holdVars) /\ (part = "menu")'
  <2>1. CASE Next
    BY <2>1, MenuSame DEF Next
  <2>2. CASE UNCHANGED xs
    BY <2>2 DEF xs, r3, MenuT!Button!holdVars
  <2> QED
    BY <2>1, <2>2
<1>3. [Next]_xs /\ ~(part = "menu") => ~(part = "menu")'
  BY DEF Next, xs
<1> QED
  BY <1>1, <1>2, <1>3, PTL DEF Spec, MenuT!Button!Spec

\* What its theorems ask of the constants of the menu's button.
LEMMA MenuTimes == MenuT!Times
  BY PhoneAssumption DEF ButtonOK, MenuT!Times

\* The types of the menu's button.
LEMMA MenuTypes == Spec => [](part = "menu" => Menu!TypeOK)
<1>1. MenuT!Button!Spec => []MenuT!Button!TypeOK
  BY MenuTimes, MenuT!ButtonTypesCorrect
<1>2. MenuT!Button!TypeOK => (part = "menu" => Menu!TypeOK)
  BY MenuSame
<1> QED
  BY <1>1, <1>2, MenuRun, PTL

-----------------------------------------------------------------------------
(***************************************************************************)
(* A button of a dialog.                                                   *)
(***************************************************************************)
ResetT == INSTANCE SmallProofs WITH
  Platform <- OfSetup.Platform, MaxKeys <- OfSetup.MaxKeys,
  file <- x1, json <- x2, app <- x3, wizard <- x4, run <- x5, pending <- x6, edit <- x7,
  keys <- x8, qr <- x9, asked <- x10, raced <- x11, cut <- x12,
  Tag <- OfScanner.Tag, KindOf <- OfScanner.KindOf, Blocks <- OfScanner.Blocks, NoTag <- Absent,
  pad <- x1, reader <- x2, field <- x3, dump <- x4, scanned <- x5, pack <- x6, cards <- x7,
  known <- x8, fresh <- x9,
  Subject <- OfReset.Subject, HOLD <- OfReset.HOLD, LINGER <- OfReset.LINGER,
  DISMISS <- OfReset.DISMISS, Dialog <- TRUE, NoTarget <- Absent,
  target <- x1, holding <- x2, fired <- x3, timers <- x4, rest <- x5, down <- x6, held <- x7,
  spent <- x8,
  SAMPLE_BUFFER <- OfPoller.SAMPLE_BUFFER, FreezeTicks <- OfPoller.FreezeTicks,
  MaxGap <- OfPoller.MaxGap, Failing <- OfPoller.Failing, NoSample <- Absent,
  game <- x1, status <- x2, poller <- x3, sample <- x4, looked <- x5

\* The dialog's button here and there are the same.
LEMMA ResetSame ==
  /\ Reset!Init <=> ResetT!Button!Init
  /\ Reset!Next <=> ResetT!Button!Next
  /\ Reset!holdVars = ResetT!Button!holdVars
  /\ Reset!TypeOK <=> ResetT!Button!TypeOK
  /\ Reset!ActsUnderFingerStep <=> ResetT!Button!ActsUnderFingerStep
  /\ Reset!ClosesInTheEnd <=> ResetT!Button!ClosesInTheEnd
<1>1. Reset!Init <=> ResetT!Button!Init
  BY Zenon DEF Reset!Init, ResetT!Button!Init
<1>2. Reset!Next <=> ResetT!Button!Next
  BY Zenon
     DEF Reset!Next, Reset!Open, Reset!Close, Reset!Press, Reset!Lift, Reset!TimerEnds,
         Reset!Tick, Reset!AtRest, Reset!Gone, Reset!Act, ResetT!Button!Next,
         ResetT!Button!Open, ResetT!Button!Close, ResetT!Button!Press, ResetT!Button!Lift,
         ResetT!Button!TimerEnds, ResetT!Button!Tick, ResetT!Button!AtRest, ResetT!Button!Gone,
         ResetT!Button!Act
<1>3. Reset!holdVars = ResetT!Button!holdVars
  BY Zenon DEF Reset!holdVars, ResetT!Button!holdVars
<1>4. Reset!TypeOK <=> ResetT!Button!TypeOK
  BY Zenon DEF Reset!TypeOK, ResetT!Button!TypeOK
<1>5. Reset!ActsUnderFingerStep <=> ResetT!Button!ActsUnderFingerStep
  BY Zenon
     DEF Reset!ActsUnderFingerStep, Reset!Acts, ResetT!Button!ActsUnderFingerStep,
         ResetT!Button!Acts
<1>6. Reset!ClosesInTheEnd <=> ResetT!Button!ClosesInTheEnd
  BY Zenon DEF Reset!ClosesInTheEnd, ResetT!Button!ClosesInTheEnd
<1> QED
  BY <1>1, <1>2, <1>3, <1>4, <1>5, <1>6

\* Spec runs the dialog's button, or something else throughout.
LEMMA ResetRun ==
  Spec => \/ ResetT!Button!Spec /\ [](part = "reset")
          \/ []~(part = "reset")
<1>1. Init /\ part = "reset" => ResetT!Button!Init
  BY ResetSame DEF Init
<1>2. [Next]_xs /\ part = "reset"
      => [ResetT!Button!Next]_(ResetT!Button!holdVars) /\ (part = "reset")'
  <2>1. CASE Next
    BY <2>1, ResetSame DEF Next
  <2>2. CASE UNCHANGED xs
    BY <2>2 DEF xs, r3, ResetT!Button!holdVars
  <2> QED
    BY <2>1, <2>2
<1>3. [Next]_xs /\ ~(part = "reset") => ~(part = "reset")'
  BY DEF Next, xs
<1> QED
  BY <1>1, <1>2, <1>3, PTL DEF Spec, ResetT!Button!Spec

\* What its theorems ask of the constants of the dialog's button.
LEMMA ResetTimes == ResetT!Times
  BY PhoneAssumption DEF ButtonOK, ResetT!Times

\* The types of the dialog's button.
LEMMA ResetTypes == Spec => [](part = "reset" => Reset!TypeOK)
<1>1. ResetT!Button!Spec => []ResetT!Button!TypeOK
  BY ResetTimes, ResetT!ButtonTypesCorrect
<1>2. ResetT!Button!TypeOK => (part = "reset" => Reset!TypeOK)
  BY ResetSame
<1> QED
  BY <1>1, <1>2, ResetRun, PTL

\* A button that must be held acts under the finger, once for each press, for every hold,
\* linger and dismissal time (action_button.rs, modals.rs).
THEOREM ActsUnderFingerCorrect == Spec => ActsUnderFinger
<1>1. MenuT!Button!Spec => MenuT!Button!ActsUnderFinger
  BY MenuTimes, MenuT!ActsCorrect
<1>2. ResetT!Button!Spec => ResetT!Button!ActsUnderFinger
  BY ResetTimes, ResetT!ActsCorrect
<1>3. [Next]_xs /\ part = "menu" /\ [MenuT!Button!ActsUnderFingerStep]_(MenuT!Button!holdVars)
      => [Menu!ActsUnderFingerStep]_<<x1, x2, r3>>
  BY MenuSame DEF Next, xs, MenuT!Button!holdVars, r3, r9
<1>4. [Next]_xs /\ part = "reset" /\ [ResetT!Button!ActsUnderFingerStep]_(ResetT!Button!holdVars)
      => [Reset!ActsUnderFingerStep]_<<x1, x2, r3>>
  BY ResetSame DEF Next, xs, ResetT!Button!holdVars, r3, r9
<1> QED
  BY <1>1, <1>2, <1>3, <1>4, MenuRun, ResetRun, PTL
     DEF Spec, ActsUnderFinger, MenuT!Button!ActsUnderFinger, ResetT!Button!ActsUnderFinger

\* A dialog that cannot be closed because it has acted closes by itself, for every hold and
\* dismissal time (modals.rs).
THEOREM ClosesCorrect == Spec => []ClosesInTheEnd
<1>1. ResetT!Button!Spec => []ResetT!Button!ClosesInTheEnd
  BY ResetTimes, ResetT!ClosesCorrect
<1>2. (part = "reset" => ResetT!Button!ClosesInTheEnd) => ClosesInTheEnd
  BY ResetSame DEF ClosesInTheEnd
<1> QED
  BY <1>1, <1>2, ResetRun, PTL

-----------------------------------------------------------------------------
(***************************************************************************)
(* The phone.                                                              *)
(***************************************************************************)
PlayT == INSTANCE PhoneProofs WITH
  Profile <- OfPlay.Profile, Call <- OfPlay.Call, LastSession <- OfPlay.LastSession,
  WireCap <- OfPlay.WireCap, Playing <- OfPlay.Playing, NoProfile <- Absent, NoCall <- Absent,
  session <- x1, saved <- x2, game <- x3, socket <- x4, wire <- x5, call <- x6, page <- x7,
  picker <- x8, amiss <- x9,
  Chain <- OfLink.Chain, First <- OfLink.First, RETRY_THRESHOLD <- OfLink.RETRY_THRESHOLD,
  NoChain <- Absent,
  reachable <- x1, chain <- x2, pending <- x3, attempts <- x4, graces <- x5, visible <- x6,
  forked <- x7,
  Writer <- OfFan.Writer, Cap <- OfFan.Cap, ReplayLimit <- OfFan.ReplayLimit,
  MaxSessions <- OfFan.MaxSessions, MaxChanges <- OfFan.MaxChanges,
  MaxTaunts <- OfFan.MaxTaunts, MaxSwitches <- OfFan.MaxSwitches, MaxDrops <- OfFan.MaxDrops,
  MaxRestarts <- OfFan.MaxRestarts, NoEvent <- Absent,
  truth <- x1, writer <- x2, seat <- x3, ghosts <- x4, minted <- x5, boot <- x6, taunt <- x7,
  link <- x8, phone <- x9, off <- x10, seen <- x11, excused <- x12, spent <- x13

\* The requests during a game here and there are the same.
LEMMA PlaySame ==
  /\ Play!Init <=> PlayT!Init
  /\ Play!Next <=> PlayT!Next
  /\ Play!signInVars = PlayT!signInVars
  /\ Play!TypeOK <=> PlayT!TypeOK
  /\ Play!SettledAgrees <=> PlayT!SettledAgrees
  /\ Play!TriedOnce <=> PlayT!TriedOnce
<1>1. Play!Init <=> PlayT!Init
  BY Zenon
     DEF Play!Init, Play!Session, Play!NoSocket, Play!Idle, Play!Grid, PlayT!Init,
         PlayT!Session, PlayT!NoSocket, PlayT!Idle, PlayT!Grid
<1>2. Play!Next <=> PlayT!Next
  BY Zenon
     DEF Play!Next, Play!Pick, Play!SaveLayout, Play!Back, Play!EnterHub, Play!Resume,
         Play!Type, Play!GiveUp, Play!Submit, Play!Answered, Play!Fails, Play!StartFresh,
         Play!Refuse, Play!Bind, Play!LookedAtAll, Play!Announce, Play!Offer, Play!ClearResume,
         Play!ToggleKaos, Play!Session, Play!Look, Play!GameChanges, Play!TellProfile,
         Play!Prompt, Play!Subscribe, Play!Drop, Play!Receive, Play!Connect, Play!Depart,
         Play!ExpireGhost, Play!Locked, Play!PinFor, Play!server, Play!Grid, Play!OfferShown,
         Play!Ask, Play!Refused, Play!Idle, Play!At, Play!Goto, Play!Send, Play!Serving,
         Play!Put, Play!NoSocket, Play!Mine, Play!Ghosts, PlayT!Next, PlayT!Pick,
         PlayT!SaveLayout, PlayT!Back, PlayT!EnterHub, PlayT!Resume, PlayT!Type, PlayT!GiveUp,
         PlayT!Submit, PlayT!Answered, PlayT!Fails, PlayT!StartFresh, PlayT!Refuse, PlayT!Bind,
         PlayT!LookedAtAll, PlayT!Announce, PlayT!Offer, PlayT!ClearResume, PlayT!ToggleKaos,
         PlayT!Session, PlayT!Look, PlayT!GameChanges, PlayT!TellProfile, PlayT!Prompt,
         PlayT!Subscribe, PlayT!Drop, PlayT!Receive, PlayT!Connect, PlayT!Depart,
         PlayT!ExpireGhost, PlayT!Locked, PlayT!PinFor, PlayT!server, PlayT!Grid,
         PlayT!OfferShown, PlayT!Ask, PlayT!Refused, PlayT!Idle, PlayT!At, PlayT!Goto,
         PlayT!Send, PlayT!Serving, PlayT!Put, PlayT!NoSocket, PlayT!Mine, PlayT!Ghosts
<1>3. Play!signInVars = PlayT!signInVars
  BY Zenon DEF Play!signInVars, PlayT!signInVars
<1>4. Play!TypeOK <=> PlayT!TypeOK
  BY Zenon
     DEF Play!TypeOK, Play!Session, Play!Player, Play!Event, PlayT!TypeOK, PlayT!Session,
         PlayT!Player, PlayT!Event
<1>5. Play!SettledAgrees <=> PlayT!SettledAgrees
  BY Zenon
     DEF Play!SettledAgrees, Play!Settled, Play!Serving, PlayT!SettledAgrees, PlayT!Settled,
         PlayT!Serving
<1>6. Play!TriedOnce <=> PlayT!TriedOnce
  BY Zenon DEF Play!TriedOnce, PlayT!TriedOnce
<1> QED
  BY <1>1, <1>2, <1>3, <1>4, <1>5, <1>6

\* Spec runs the requests during a game, or something else throughout.
LEMMA PlayRun ==
  Spec => \/ PlayT!Spec /\ [](part = "play")
          \/ []~(part = "play")
<1>1. Init /\ part = "play" => PlayT!Init
  BY PlaySame DEF Init
<1>2. [Next]_xs /\ part = "play"
      => [PlayT!Next]_(PlayT!signInVars) /\ (part = "play")'
  <2>1. CASE Next
    BY <2>1, PlaySame DEF Next
  <2>2. CASE UNCHANGED xs
    BY <2>2 DEF xs, r3, PlayT!signInVars
  <2> QED
    BY <2>1, <2>2
<1>3. [Next]_xs /\ ~(part = "play") => ~(part = "play")'
  BY DEF Next, xs
<1> QED
  BY <1>1, <1>2, <1>3, PTL DEF Spec, PlayT!Spec

\* What its theorems ask of the constants of the requests during a game.
LEMMA PlayNames == PlayT!Names
  BY PhoneAssumption DEF SignInOK, PlayT!Names

\* What its theorems ask of the constants of the requests during a game.
LEMMA PlayRoomToConnect == PlayT!RoomToConnect
  BY PhoneAssumption DEF SignInOK, PlayT!RoomToConnect

\* The types of the requests during a game.
LEMMA PlayTypes == Spec => [](part = "play" => Play!TypeOK)
<1>1. PlayT!Spec => []PlayT!TypeOK
  BY PlayNames, PlayRoomToConnect, PlayT!SignInTypesCorrect
<1>2. PlayT!TypeOK => (part = "play" => Play!TypeOK)
  BY PlaySame
<1> QED
  BY <1>1, <1>2, PlayRun, PTL

ReturnT == INSTANCE PhoneProofs WITH
  Profile <- OfReturn.Profile, Call <- OfReturn.Call, LastSession <- OfReturn.LastSession,
  WireCap <- OfReturn.WireCap, Playing <- OfReturn.Playing, NoProfile <- Absent,
  NoCall <- Absent,
  session <- x1, saved <- x2, game <- x3, socket <- x4, wire <- x5, call <- x6, page <- x7,
  picker <- x8, amiss <- x9,
  Chain <- OfLink.Chain, First <- OfLink.First, RETRY_THRESHOLD <- OfLink.RETRY_THRESHOLD,
  NoChain <- Absent,
  reachable <- x1, chain <- x2, pending <- x3, attempts <- x4, graces <- x5, visible <- x6,
  forked <- x7,
  Writer <- OfTaunts.Writer, Cap <- OfTaunts.Cap, ReplayLimit <- OfTaunts.ReplayLimit,
  MaxSessions <- OfTaunts.MaxSessions, MaxChanges <- OfTaunts.MaxChanges,
  MaxTaunts <- OfTaunts.MaxTaunts, MaxSwitches <- OfTaunts.MaxSwitches,
  MaxDrops <- OfTaunts.MaxDrops, MaxRestarts <- OfTaunts.MaxRestarts, NoEvent <- Absent,
  truth <- x1, writer <- x2, seat <- x3, ghosts <- x4, minted <- x5, boot <- x6, taunt <- x7,
  link <- x8, phone <- x9, off <- x10, seen <- x11, excused <- x12, spent <- x13

\* The requests after a return here and there are the same.
LEMMA ReturnSame ==
  /\ Return!Init <=> ReturnT!Init
  /\ Return!Next <=> ReturnT!Next
  /\ Return!signInVars = ReturnT!signInVars
  /\ Return!TypeOK <=> ReturnT!TypeOK
  /\ Return!SettledAgrees <=> ReturnT!SettledAgrees
  /\ Return!TriedOnce <=> ReturnT!TriedOnce
<1>1. Return!Init <=> ReturnT!Init
  BY Zenon
     DEF Return!Init, Return!Session, Return!NoSocket, Return!Idle, Return!Grid, ReturnT!Init,
         ReturnT!Session, ReturnT!NoSocket, ReturnT!Idle, ReturnT!Grid
<1>2. Return!Next <=> ReturnT!Next
  BY Zenon
     DEF Return!Next, Return!Pick, Return!SaveLayout, Return!Back, Return!EnterHub,
         Return!Resume, Return!Type, Return!GiveUp, Return!Submit, Return!Answered,
         Return!Fails, Return!StartFresh, Return!Refuse, Return!Bind, Return!LookedAtAll,
         Return!Announce, Return!Offer, Return!ClearResume, Return!ToggleKaos, Return!Session,
         Return!Look, Return!GameChanges, Return!TellProfile, Return!Prompt, Return!Subscribe,
         Return!Drop, Return!Receive, Return!Connect, Return!Depart, Return!ExpireGhost,
         Return!Locked, Return!PinFor, Return!server, Return!Grid, Return!OfferShown,
         Return!Ask, Return!Refused, Return!Idle, Return!At, Return!Goto, Return!Send,
         Return!Serving, Return!Put, Return!NoSocket, Return!Mine, Return!Ghosts, ReturnT!Next,
         ReturnT!Pick, ReturnT!SaveLayout, ReturnT!Back, ReturnT!EnterHub, ReturnT!Resume,
         ReturnT!Type, ReturnT!GiveUp, ReturnT!Submit, ReturnT!Answered, ReturnT!Fails,
         ReturnT!StartFresh, ReturnT!Refuse, ReturnT!Bind, ReturnT!LookedAtAll,
         ReturnT!Announce, ReturnT!Offer, ReturnT!ClearResume, ReturnT!ToggleKaos,
         ReturnT!Session, ReturnT!Look, ReturnT!GameChanges, ReturnT!TellProfile,
         ReturnT!Prompt, ReturnT!Subscribe, ReturnT!Drop, ReturnT!Receive, ReturnT!Connect,
         ReturnT!Depart, ReturnT!ExpireGhost, ReturnT!Locked, ReturnT!PinFor, ReturnT!server,
         ReturnT!Grid, ReturnT!OfferShown, ReturnT!Ask, ReturnT!Refused, ReturnT!Idle,
         ReturnT!At, ReturnT!Goto, ReturnT!Send, ReturnT!Serving, ReturnT!Put, ReturnT!NoSocket,
         ReturnT!Mine, ReturnT!Ghosts
<1>3. Return!signInVars = ReturnT!signInVars
  BY Zenon DEF Return!signInVars, ReturnT!signInVars
<1>4. Return!TypeOK <=> ReturnT!TypeOK
  BY Zenon
     DEF Return!TypeOK, Return!Session, Return!Player, Return!Event, ReturnT!TypeOK,
         ReturnT!Session, ReturnT!Player, ReturnT!Event
<1>5. Return!SettledAgrees <=> ReturnT!SettledAgrees
  BY Zenon
     DEF Return!SettledAgrees, Return!Settled, Return!Serving, ReturnT!SettledAgrees,
         ReturnT!Settled, ReturnT!Serving
<1>6. Return!TriedOnce <=> ReturnT!TriedOnce
  BY Zenon DEF Return!TriedOnce, ReturnT!TriedOnce
<1> QED
  BY <1>1, <1>2, <1>3, <1>4, <1>5, <1>6

\* Spec runs the requests after a return, or something else throughout.
LEMMA ReturnRun ==
  Spec => \/ ReturnT!Spec /\ [](part = "return")
          \/ []~(part = "return")
<1>1. Init /\ part = "return" => ReturnT!Init
  BY ReturnSame DEF Init
<1>2. [Next]_xs /\ part = "return"
      => [ReturnT!Next]_(ReturnT!signInVars) /\ (part = "return")'
  <2>1. CASE Next
    BY <2>1, ReturnSame DEF Next
  <2>2. CASE UNCHANGED xs
    BY <2>2 DEF xs, r3, ReturnT!signInVars
  <2> QED
    BY <2>1, <2>2
<1>3. [Next]_xs /\ ~(part = "return") => ~(part = "return")'
  BY DEF Next, xs
<1> QED
  BY <1>1, <1>2, <1>3, PTL DEF Spec, ReturnT!Spec

\* What its theorems ask of the constants of the requests after a return.
LEMMA ReturnNames == ReturnT!Names
  BY PhoneAssumption DEF SignInOK, ReturnT!Names

\* What its theorems ask of the constants of the requests after a return.
LEMMA ReturnRoomToConnect == ReturnT!RoomToConnect
  BY PhoneAssumption DEF SignInOK, ReturnT!RoomToConnect

\* The types of the requests after a return.
LEMMA ReturnTypes == Spec => [](part = "return" => Return!TypeOK)
<1>1. ReturnT!Spec => []ReturnT!TypeOK
  BY ReturnNames, ReturnRoomToConnect, ReturnT!SignInTypesCorrect
<1>2. ReturnT!TypeOK => (part = "return" => Return!TypeOK)
  BY ReturnSame
<1> QED
  BY <1>1, <1>2, ReturnRun, PTL

\* The taunts for a phone here and there are the same.
LEMMA TauntsSame ==
  /\ Taunts!Init <=> ReturnT!Fan!Init
  /\ Taunts!Next <=> ReturnT!Fan!Next
  /\ Taunts!vars = ReturnT!Fan!vars
  /\ Taunts!TypeOK <=> ReturnT!Fan!TypeOK
  /\ Taunts!ViewIsTrue <=> ReturnT!Fan!ViewIsTrue
  /\ Taunts!TauntIsShownOnce <=> ReturnT!Fan!TauntIsShownOnce
<1>1. Taunts!Init <=> ReturnT!Fan!Init
  BY Zenon
     DEF Taunts!Init, Taunts!NoSeat, Taunts!Down, Taunts!Page, Taunts!Taunts, ReturnT!Fan!Init,
         ReturnT!Fan!NoSeat, ReturnT!Fan!Down, ReturnT!Fan!Page, ReturnT!Fan!Taunts
<1>2. Taunts!Next <=> ReturnT!Fan!Next
  BY Zenon
     DEF Taunts!Next, Taunts!ChangeState, Taunts!SwitchProfile, Taunts!SendEvent,
         Taunts!PushTaunt, Taunts!SendTaunt, Taunts!Serve, Taunts!GhostExpires,
         Taunts!AnswerStatus, Taunts!OpenSocket, Taunts!OnMessage, Taunts!ApplyStatus,
         Taunts!Drop, Taunts!Restart, Taunts!Event, Taunts!Receive, Taunts!OffAfter,
         Taunts!Overflows, Taunts!Topic, Taunts!TauntsIn, Taunts!Buffered, Taunts!Kept,
         Taunts!Subscribed, Taunts!Reclaim, Taunts!Register, Taunts!Welcome, Taunts!Reload,
         Taunts!ShowPortal, Taunts!TellProfile, Taunts!Subscribe, Taunts!GoDeaf, Taunts!Depart,
         Taunts!Taunts, Taunts!InSeq, Taunts!At, Taunts!Applied, Taunts!Running, Taunts!Break,
         Taunts!NoSeat, Taunts!Down, Taunts!Now, Taunts!NewerPending, Taunts!Exposed,
         Taunts!Page, ReturnT!Fan!Next, ReturnT!Fan!ChangeState, ReturnT!Fan!SwitchProfile,
         ReturnT!Fan!SendEvent, ReturnT!Fan!PushTaunt, ReturnT!Fan!SendTaunt, ReturnT!Fan!Serve,
         ReturnT!Fan!GhostExpires, ReturnT!Fan!AnswerStatus, ReturnT!Fan!OpenSocket,
         ReturnT!Fan!OnMessage, ReturnT!Fan!ApplyStatus, ReturnT!Fan!Drop, ReturnT!Fan!Restart,
         ReturnT!Fan!Event, ReturnT!Fan!Receive, ReturnT!Fan!OffAfter, ReturnT!Fan!Overflows,
         ReturnT!Fan!Topic, ReturnT!Fan!TauntsIn, ReturnT!Fan!Buffered, ReturnT!Fan!Kept,
         ReturnT!Fan!Subscribed, ReturnT!Fan!Reclaim, ReturnT!Fan!Register, ReturnT!Fan!Welcome,
         ReturnT!Fan!Reload, ReturnT!Fan!ShowPortal, ReturnT!Fan!TellProfile,
         ReturnT!Fan!Subscribe, ReturnT!Fan!GoDeaf, ReturnT!Fan!Depart, ReturnT!Fan!Taunts,
         ReturnT!Fan!InSeq, ReturnT!Fan!At, ReturnT!Fan!Applied, ReturnT!Fan!Running,
         ReturnT!Fan!Break, ReturnT!Fan!NoSeat, ReturnT!Fan!Down, ReturnT!Fan!Now,
         ReturnT!Fan!NewerPending, ReturnT!Fan!Exposed, ReturnT!Fan!Page
<1>3. Taunts!vars = ReturnT!Fan!vars
  BY Zenon DEF Taunts!vars, ReturnT!Fan!vars
<1>4. Taunts!TypeOK <=> ReturnT!Fan!TypeOK
  BY Zenon
     DEF Taunts!TypeOK, Taunts!Stages, Taunts!Topic, Taunts!Taunts, ReturnT!Fan!TypeOK,
         ReturnT!Fan!Stages, ReturnT!Fan!Topic, ReturnT!Fan!Taunts
<1>5. Taunts!ViewIsTrue <=> ReturnT!Fan!ViewIsTrue
  BY Zenon
     DEF Taunts!ViewIsTrue, Taunts!CaughtUp, Taunts!Running, ReturnT!Fan!ViewIsTrue,
         ReturnT!Fan!CaughtUp, ReturnT!Fan!Running
<1>6. Taunts!TauntIsShownOnce <=> ReturnT!Fan!TauntIsShownOnce
  BY Zenon
     DEF Taunts!TauntIsShownOnce, Taunts!InSeq, Taunts!Event, ReturnT!Fan!TauntIsShownOnce,
         ReturnT!Fan!InSeq, ReturnT!Fan!Event
<1> QED
  BY <1>1, <1>2, <1>3, <1>4, <1>5, <1>6

\* Spec runs the taunts for a phone, or something else throughout.
LEMMA TauntsRun ==
  Spec => \/ ReturnT!Fan!Spec /\ [](part = "taunts")
          \/ []~(part = "taunts")
<1>1. Init /\ part = "taunts" => ReturnT!Fan!Init
  BY TauntsSame DEF Init
<1>2. [Next]_xs /\ part = "taunts"
      => [ReturnT!Fan!Next]_(ReturnT!Fan!vars) /\ (part = "taunts")'
  <2>1. CASE Next
    BY <2>1, TauntsSame DEF Next
  <2>2. CASE UNCHANGED xs
    BY <2>2 DEF xs, r3, ReturnT!Fan!vars
  <2> QED
    BY <2>1, <2>2
<1>3. [Next]_xs /\ ~(part = "taunts") => ~(part = "taunts")'
  BY DEF Next, xs
<1> QED
  BY <1>1, <1>2, <1>3, PTL DEF Spec, ReturnT!Fan!Spec

\* What its theorems ask of the constants of the taunts for a phone.
LEMMA ReturnRooms == ReturnT!Rooms
  BY PhoneAssumption DEF FanoutOK, ReturnT!Rooms

\* What its theorems ask of the constants of the taunts for a phone.
LEMMA ReturnNoneSent == ReturnT!NoneSent
  BY PhoneAssumption DEF FanoutOK, ReturnT!NoneSent, ReturnT!Sent, ReturnT!Fan!Taunts

\* The types of the taunts for a phone.
LEMMA TauntsTypes == Spec => [](part = "taunts" => Taunts!TypeOK)
<1>1. ReturnT!Fan!Spec => []ReturnT!Fan!TypeOK
  BY ReturnRooms, ReturnNoneSent, ReturnT!FanTypesCorrect
<1>2. ReturnT!Fan!TypeOK => (part = "taunts" => Taunts!TypeOK)
  BY TauntsSame
<1> QED
  BY <1>1, <1>2, TauntsRun, PTL

RushT == INSTANCE PhoneProofs WITH
  Profile <- OfRush.Profile, Call <- OfRush.Call, LastSession <- OfRush.LastSession,
  WireCap <- OfRush.WireCap, Playing <- OfRush.Playing, NoProfile <- Absent, NoCall <- Absent,
  session <- x1, saved <- x2, game <- x3, socket <- x4, wire <- x5, call <- x6, page <- x7,
  picker <- x8, amiss <- x9,
  Chain <- OfLink.Chain, First <- OfLink.First, RETRY_THRESHOLD <- OfLink.RETRY_THRESHOLD,
  NoChain <- Absent,
  reachable <- x1, chain <- x2, pending <- x3, attempts <- x4, graces <- x5, visible <- x6,
  forked <- x7,
  Writer <- OfFan.Writer, Cap <- OfFan.Cap, ReplayLimit <- OfFan.ReplayLimit,
  MaxSessions <- OfFan.MaxSessions, MaxChanges <- OfFan.MaxChanges,
  MaxTaunts <- OfFan.MaxTaunts, MaxSwitches <- OfFan.MaxSwitches, MaxDrops <- OfFan.MaxDrops,
  MaxRestarts <- OfFan.MaxRestarts, NoEvent <- Absent,
  truth <- x1, writer <- x2, seat <- x3, ghosts <- x4, minted <- x5, boot <- x6, taunt <- x7,
  link <- x8, phone <- x9, off <- x10, seen <- x11, excused <- x12, spent <- x13

\* The requests in a hurry here and there are the same.
LEMMA RushSame ==
  /\ Rush!Init <=> RushT!Init
  /\ Rush!Next <=> RushT!Next
  /\ Rush!signInVars = RushT!signInVars
  /\ Rush!TypeOK <=> RushT!TypeOK
  /\ Rush!SettledAgrees <=> RushT!SettledAgrees
  /\ Rush!TriedOnce <=> RushT!TriedOnce
<1>1. Rush!Init <=> RushT!Init
  BY Zenon
     DEF Rush!Init, Rush!Session, Rush!NoSocket, Rush!Idle, Rush!Grid, RushT!Init,
         RushT!Session, RushT!NoSocket, RushT!Idle, RushT!Grid
<1>2. Rush!Next <=> RushT!Next
  BY Zenon
     DEF Rush!Next, Rush!Pick, Rush!SaveLayout, Rush!Back, Rush!EnterHub, Rush!Resume,
         Rush!Type, Rush!GiveUp, Rush!Submit, Rush!Answered, Rush!Fails, Rush!StartFresh,
         Rush!Refuse, Rush!Bind, Rush!LookedAtAll, Rush!Announce, Rush!Offer, Rush!ClearResume,
         Rush!ToggleKaos, Rush!Session, Rush!Look, Rush!GameChanges, Rush!TellProfile,
         Rush!Prompt, Rush!Subscribe, Rush!Drop, Rush!Receive, Rush!Connect, Rush!Depart,
         Rush!ExpireGhost, Rush!Locked, Rush!PinFor, Rush!server, Rush!Grid, Rush!OfferShown,
         Rush!Ask, Rush!Refused, Rush!Idle, Rush!At, Rush!Goto, Rush!Send, Rush!Serving,
         Rush!Put, Rush!NoSocket, Rush!Mine, Rush!Ghosts, RushT!Next, RushT!Pick,
         RushT!SaveLayout, RushT!Back, RushT!EnterHub, RushT!Resume, RushT!Type, RushT!GiveUp,
         RushT!Submit, RushT!Answered, RushT!Fails, RushT!StartFresh, RushT!Refuse, RushT!Bind,
         RushT!LookedAtAll, RushT!Announce, RushT!Offer, RushT!ClearResume, RushT!ToggleKaos,
         RushT!Session, RushT!Look, RushT!GameChanges, RushT!TellProfile, RushT!Prompt,
         RushT!Subscribe, RushT!Drop, RushT!Receive, RushT!Connect, RushT!Depart,
         RushT!ExpireGhost, RushT!Locked, RushT!PinFor, RushT!server, RushT!Grid,
         RushT!OfferShown, RushT!Ask, RushT!Refused, RushT!Idle, RushT!At, RushT!Goto,
         RushT!Send, RushT!Serving, RushT!Put, RushT!NoSocket, RushT!Mine, RushT!Ghosts
<1>3. Rush!signInVars = RushT!signInVars
  BY Zenon DEF Rush!signInVars, RushT!signInVars
<1>4. Rush!TypeOK <=> RushT!TypeOK
  BY Zenon
     DEF Rush!TypeOK, Rush!Session, Rush!Player, Rush!Event, RushT!TypeOK, RushT!Session,
         RushT!Player, RushT!Event
<1>5. Rush!SettledAgrees <=> RushT!SettledAgrees
  BY Zenon
     DEF Rush!SettledAgrees, Rush!Settled, Rush!Serving, RushT!SettledAgrees, RushT!Settled,
         RushT!Serving
<1>6. Rush!TriedOnce <=> RushT!TriedOnce
  BY Zenon DEF Rush!TriedOnce, RushT!TriedOnce
<1> QED
  BY <1>1, <1>2, <1>3, <1>4, <1>5, <1>6

\* Spec runs the requests in a hurry, or something else throughout.
LEMMA RushRun ==
  Spec => \/ RushT!Spec /\ [](part = "rush")
          \/ []~(part = "rush")
<1>1. Init /\ part = "rush" => RushT!Init
  BY RushSame DEF Init
<1>2. [Next]_xs /\ part = "rush"
      => [RushT!Next]_(RushT!signInVars) /\ (part = "rush")'
  <2>1. CASE Next
    BY <2>1, RushSame DEF Next
  <2>2. CASE UNCHANGED xs
    BY <2>2 DEF xs, r3, RushT!signInVars
  <2> QED
    BY <2>1, <2>2
<1>3. [Next]_xs /\ ~(part = "rush") => ~(part = "rush")'
  BY DEF Next, xs
<1> QED
  BY <1>1, <1>2, <1>3, PTL DEF Spec, RushT!Spec

\* What its theorems ask of the constants of the requests in a hurry.
LEMMA RushNames == RushT!Names
  BY PhoneAssumption DEF SignInOK, RushT!Names

\* What its theorems ask of the constants of the requests in a hurry.
LEMMA RushRoomToConnect == RushT!RoomToConnect
  BY PhoneAssumption DEF SignInOK, RushT!RoomToConnect

\* The types of the requests in a hurry.
LEMMA RushTypes == Spec => [](part = "rush" => Rush!TypeOK)
<1>1. RushT!Spec => []RushT!TypeOK
  BY RushNames, RushRoomToConnect, RushT!SignInTypesCorrect
<1>2. RushT!TypeOK => (part = "rush" => Rush!TypeOK)
  BY RushSame
<1> QED
  BY <1>1, <1>2, RushRun, PTL

\* A wrong PIN is tried once, though whatever is shown is submitted, for any number of
\* requests, sessions and players (PinEntry).
THEOREM TriedOnceCorrect == Spec => []TriedOnce
<1>1. RushT!Spec => []RushT!TriedOnce
  BY RushNames, RushT!TriedOnceCorrect
<1>2. ReturnT!Spec => []ReturnT!TriedOnce
  BY ReturnNames, ReturnT!TriedOnceCorrect
<1>3. PlayT!Spec => []PlayT!TriedOnce
  BY PlayNames, PlayT!TriedOnceCorrect
<1>4. /\ (part = "rush" => RushT!TriedOnce)
      /\ (part = "return" => ReturnT!TriedOnce)
      /\ (part = "play" => PlayT!TriedOnce)
      => TriedOnce
  BY RushSame, ReturnSame, PlaySame DEF TriedOnce
<1> QED
  BY <1>1, <1>2, <1>3, <1>4, RushRun, ReturnRun, PlayRun, PTL

\* When all is quiet, the page and its session agree on who is signed in, for any number of
\* requests, sessions and events on their way, unless an unlock overtook what the page was told
\* in one of the ways that the model names (unlock_profile, handle_ws, ws.rs).
THEOREM SettledCorrect == Spec => []SettledAgrees
<1>1. RushT!Spec => []RushT!SettledAgrees
  BY RushNames, RushT!SettledAgreesCorrect
<1>2. ReturnT!Spec => []ReturnT!SettledAgrees
  BY ReturnNames, ReturnT!SettledAgreesCorrect
<1>3. PlayT!Spec => []PlayT!SettledAgrees
  BY PlayNames, PlayT!SettledAgreesCorrect
<1>4. /\ (part = "rush" => RushT!SettledAgrees)
      /\ (part = "return" => ReturnT!SettledAgrees)
      /\ (part = "play" => PlayT!SettledAgrees)
      => SettledAgrees
  BY RushSame, ReturnSame, PlaySame DEF SettledAgrees
<1> QED
  BY <1>1, <1>2, <1>3, <1>4, RushRun, ReturnRun, PlayRun, PTL

\* The events for a phone here and there are the same.
LEMMA FanSame ==
  /\ Fan!Init <=> RushT!Fan!Init
  /\ Fan!Next <=> RushT!Fan!Next
  /\ Fan!vars = RushT!Fan!vars
  /\ Fan!TypeOK <=> RushT!Fan!TypeOK
  /\ Fan!ViewIsTrue <=> RushT!Fan!ViewIsTrue
  /\ Fan!TauntIsShownOnce <=> RushT!Fan!TauntIsShownOnce
<1>1. Fan!Init <=> RushT!Fan!Init
  BY Zenon
     DEF Fan!Init, Fan!NoSeat, Fan!Down, Fan!Page, Fan!Taunts, RushT!Fan!Init, RushT!Fan!NoSeat,
         RushT!Fan!Down, RushT!Fan!Page, RushT!Fan!Taunts
<1>2. Fan!Next <=> RushT!Fan!Next
  BY Zenon
     DEF Fan!Next, Fan!ChangeState, Fan!SwitchProfile, Fan!SendEvent, Fan!PushTaunt,
         Fan!SendTaunt, Fan!Serve, Fan!GhostExpires, Fan!AnswerStatus, Fan!OpenSocket,
         Fan!OnMessage, Fan!ApplyStatus, Fan!Drop, Fan!Restart, Fan!Event, Fan!Receive,
         Fan!OffAfter, Fan!Overflows, Fan!Topic, Fan!TauntsIn, Fan!Buffered, Fan!Kept,
         Fan!Subscribed, Fan!Reclaim, Fan!Register, Fan!Welcome, Fan!Reload, Fan!ShowPortal,
         Fan!TellProfile, Fan!Subscribe, Fan!GoDeaf, Fan!Depart, Fan!Taunts, Fan!InSeq, Fan!At,
         Fan!Applied, Fan!Running, Fan!Break, Fan!NoSeat, Fan!Down, Fan!Now, Fan!NewerPending,
         Fan!Exposed, Fan!Page, RushT!Fan!Next, RushT!Fan!ChangeState, RushT!Fan!SwitchProfile,
         RushT!Fan!SendEvent, RushT!Fan!PushTaunt, RushT!Fan!SendTaunt, RushT!Fan!Serve,
         RushT!Fan!GhostExpires, RushT!Fan!AnswerStatus, RushT!Fan!OpenSocket,
         RushT!Fan!OnMessage, RushT!Fan!ApplyStatus, RushT!Fan!Drop, RushT!Fan!Restart,
         RushT!Fan!Event, RushT!Fan!Receive, RushT!Fan!OffAfter, RushT!Fan!Overflows,
         RushT!Fan!Topic, RushT!Fan!TauntsIn, RushT!Fan!Buffered, RushT!Fan!Kept,
         RushT!Fan!Subscribed, RushT!Fan!Reclaim, RushT!Fan!Register, RushT!Fan!Welcome,
         RushT!Fan!Reload, RushT!Fan!ShowPortal, RushT!Fan!TellProfile, RushT!Fan!Subscribe,
         RushT!Fan!GoDeaf, RushT!Fan!Depart, RushT!Fan!Taunts, RushT!Fan!InSeq, RushT!Fan!At,
         RushT!Fan!Applied, RushT!Fan!Running, RushT!Fan!Break, RushT!Fan!NoSeat,
         RushT!Fan!Down, RushT!Fan!Now, RushT!Fan!NewerPending, RushT!Fan!Exposed,
         RushT!Fan!Page
<1>3. Fan!vars = RushT!Fan!vars
  BY Zenon DEF Fan!vars, RushT!Fan!vars
<1>4. Fan!TypeOK <=> RushT!Fan!TypeOK
  BY Zenon
     DEF Fan!TypeOK, Fan!Stages, Fan!Topic, Fan!Taunts, RushT!Fan!TypeOK, RushT!Fan!Stages,
         RushT!Fan!Topic, RushT!Fan!Taunts
<1>5. Fan!ViewIsTrue <=> RushT!Fan!ViewIsTrue
  BY Zenon
     DEF Fan!ViewIsTrue, Fan!CaughtUp, Fan!Running, RushT!Fan!ViewIsTrue, RushT!Fan!CaughtUp,
         RushT!Fan!Running
<1>6. Fan!TauntIsShownOnce <=> RushT!Fan!TauntIsShownOnce
  BY Zenon
     DEF Fan!TauntIsShownOnce, Fan!InSeq, Fan!Event, RushT!Fan!TauntIsShownOnce,
         RushT!Fan!InSeq, RushT!Fan!Event
<1> QED
  BY <1>1, <1>2, <1>3, <1>4, <1>5, <1>6

\* Spec runs the events for a phone, or something else throughout.
LEMMA FanRun ==
  Spec => \/ RushT!Fan!Spec /\ [](part = "fan-out")
          \/ []~(part = "fan-out")
<1>1. Init /\ part = "fan-out" => RushT!Fan!Init
  BY FanSame DEF Init
<1>2. [Next]_xs /\ part = "fan-out"
      => [RushT!Fan!Next]_(RushT!Fan!vars) /\ (part = "fan-out")'
  <2>1. CASE Next
    BY <2>1, FanSame DEF Next
  <2>2. CASE UNCHANGED xs
    BY <2>2 DEF xs, r3, RushT!Fan!vars
  <2> QED
    BY <2>1, <2>2
<1>3. [Next]_xs /\ ~(part = "fan-out") => ~(part = "fan-out")'
  BY DEF Next, xs
<1> QED
  BY <1>1, <1>2, <1>3, PTL DEF Spec, RushT!Fan!Spec

\* What its theorems ask of the constants of the events for a phone.
LEMMA RushRooms == RushT!Rooms
  BY PhoneAssumption DEF FanoutOK, RushT!Rooms

\* What its theorems ask of the constants of the events for a phone.
LEMMA RushNoneSent == RushT!NoneSent
  BY PhoneAssumption DEF FanoutOK, RushT!NoneSent, RushT!Sent, RushT!Fan!Taunts

\* The types of the events for a phone.
LEMMA FanTypes == Spec => [](part = "fan-out" => Fan!TypeOK)
<1>1. RushT!Fan!Spec => []RushT!Fan!TypeOK
  BY RushRooms, RushNoneSent, RushT!FanTypesCorrect
<1>2. RushT!Fan!TypeOK => (part = "fan-out" => Fan!TypeOK)
  BY FanSame
<1> QED
  BY <1>1, <1>2, FanRun, PTL

\* The phone shows what the server has, unless an event went amiss in a way that the model
\* names, for any writers and capacities (handle_ws, ws.rs).
THEOREM ViewIsTrueCorrect == Spec => []ViewIsTrue
<1>1. RushT!Fan!Spec => []RushT!Fan!ViewIsTrue
  BY RushRooms, RushNoneSent, RushT!ViewIsTrueCorrect
<1>2. ReturnT!Fan!Spec => []ReturnT!Fan!ViewIsTrue
  BY ReturnRooms, ReturnNoneSent, ReturnT!ViewIsTrueCorrect
<1>3. /\ (part = "fan-out" => RushT!Fan!ViewIsTrue)
      /\ (part = "taunts" => ReturnT!Fan!ViewIsTrue)
      => ViewIsTrue
  BY FanSame, TauntsSame DEF ViewIsTrue
<1> QED
  BY <1>1, <1>2, <1>3, FanRun, TauntsRun, PTL

\* A taunt is shown once by each page, though it is both broadcast and replayed, for any
\* capacities (handle_ws, ws.rs).
THEOREM TauntCorrect == Spec => []TauntIsShownOnce
<1>1. RushT!Fan!Spec => []RushT!Fan!TauntIsShownOnce
  BY RushRooms, RushNoneSent, RushT!TauntIsShownOnceCorrect
<1>2. ReturnT!Fan!Spec => []ReturnT!Fan!TauntIsShownOnce
  BY ReturnRooms, ReturnNoneSent, ReturnT!TauntIsShownOnceCorrect
<1>3. /\ (part = "fan-out" => RushT!Fan!TauntIsShownOnce)
      /\ (part = "taunts" => ReturnT!Fan!TauntIsShownOnce)
      => TauntIsShownOnce
  BY FanSame, TauntsSame DEF TauntIsShownOnce
<1> QED
  BY <1>1, <1>2, <1>3, FanRun, TauntsRun, PTL

\* The phone's socket here and there are the same.
LEMMA LinkSame ==
  /\ Link!Init <=> RushT!Link!Init
  /\ Link!Next <=> RushT!Link!Next
  /\ Link!linkVars = RushT!Link!linkVars
  /\ Link!TypeOK <=> RushT!Link!TypeOK
  /\ Link!LinkIsTended <=> RushT!Link!LinkIsTended
<1>1. Link!Init <=> RushT!Link!Init
  BY Zenon DEF Link!Init, RushT!Link!Init
<1>2. Link!Next <=> RushT!Link!Next
  BY Zenon
     DEF Link!Next, Link!ServerComesAndGoes, Link!Reveal, Link!Open, Link!Close, Link!Fire,
         Link!TryAgain, Link!Count, Link!Upto, RushT!Link!Next, RushT!Link!ServerComesAndGoes,
         RushT!Link!Reveal, RushT!Link!Open, RushT!Link!Close, RushT!Link!Fire,
         RushT!Link!TryAgain, RushT!Link!Count, RushT!Link!Upto
<1>3. Link!linkVars = RushT!Link!linkVars
  BY Zenon DEF Link!linkVars, RushT!Link!linkVars
<1>4. Link!TypeOK <=> RushT!Link!TypeOK
  BY Zenon DEF Link!TypeOK, RushT!Link!TypeOK
<1>5. Link!LinkIsTended <=> RushT!Link!LinkIsTended
  BY Zenon
     DEF Link!LinkIsTended, Link!InUse, RushT!Link!LinkIsTended, RushT!Link!InUse,
         Link!Cardinality, RushT!Link!Cardinality
<1> QED
  BY <1>1, <1>2, <1>3, <1>4, <1>5

\* Spec runs the phone's socket, or something else throughout.
LEMMA LinkRun ==
  Spec => \/ RushT!Link!Init /\ [][RushT!Link!Next]_(RushT!Link!linkVars) /\ [](part = "link")
          \/ []~(part = "link")
<1>1. Init /\ part = "link" => RushT!Link!Init
  BY LinkSame DEF Init
<1>2. [Next]_xs /\ part = "link"
      => [RushT!Link!Next]_(RushT!Link!linkVars) /\ (part = "link")'
  <2>1. CASE Next
    BY <2>1, LinkSame DEF Next
  <2>2. CASE UNCHANGED xs
    BY <2>2 DEF xs, r3, RushT!Link!linkVars
  <2> QED
    BY <2>1, <2>2
<1>3. [Next]_xs /\ ~(part = "link") => ~(part = "link")'
  BY DEF Next, xs
<1> QED
  BY <1>1, <1>2, <1>3, PTL DEF Spec

\* What its theorems ask of the constants of the phone's socket.
LEMMA RushChains == RushT!Chains
  BY PhoneAssumption DEF RushT!Chains

\* The types of the phone's socket.
LEMMA LinkTypes == Spec => [](part = "link" => Link!TypeOK)
<1>1. RushT!Link!Init /\ [][RushT!Link!Next]_(RushT!Link!linkVars) => []RushT!Link!TypeOK
  BY RushChains, RushT!LinkTypesCorrect
<1>2. RushT!Link!TypeOK => (part = "link" => Link!TypeOK)
  BY LinkSame
<1> QED
  BY <1>1, <1>2, LinkRun, PTL

\* The page always has one socket, or one timer that will open one, for any number of chains
\* and any threshold (ws.rs).
THEOREM LinkCorrect == Spec => []LinkIsTended
<1>1. RushT!Link!Init /\ [][RushT!Link!Next]_(RushT!Link!linkVars) => []RushT!Link!LinkIsTended
  BY RushChains, RushT!TendedCorrect
<1>2. (part = "link" => RushT!Link!LinkIsTended) => LinkIsTended
  BY LinkSame DEF LinkIsTended
<1> QED
  BY <1>1, <1>2, LinkRun, PTL

-----------------------------------------------------------------------------
(***************************************************************************)
(* The portal.                                                             *)
(***************************************************************************)
SlotsT == INSTANCE PortalProofs WITH
  SlotCount <- OfSlots.SlotCount, Figure <- OfSlots.Figure, Recognised <- OfSlots.Recognised,
  Profile <- OfSlots.Profile, KaosEnabled <- OfSlots.KaosEnabled, Request <- OfSlots.Request,
  Janitor <- OfSlots.Janitor, QueueCap <- OfSlots.QueueCap, MaxRespawns <- OfSlots.MaxRespawns,
  Faults <- OfSlots.Faults, Driver <- "uia", NoFigure <- Absent, NoProfile <- Absent,
  NoSwap <- Absent, Keep <- Unused,
  portal <- x1, todo <- x2, queue <- x3, worker <- x4, emu <- x5, up <- x6, current <- x7,
  swap <- x8, rescue <- x9, quit <- x10, stuck <- x11, bypassed <- x12

\* The portal's slots here and there are the same.
LEMMA SlotsSame ==
  /\ Slots!Init <=> SlotsT!Init
  /\ Slots!Next <=> SlotsT!Next
  /\ Slots!vars = SlotsT!vars
  /\ Slots!TypeOK <=> SlotsT!TypeOK
  /\ Slots!MirrorIsTrue <=> SlotsT!MirrorIsTrue
<1>1. Slots!Init <=> SlotsT!Init
  BY Zenon
     DEF Slots!Init, Slots!Slot, Slots!Empty, Slots!Task, Slots!WholeJob, Slots!Idle,
         Slots!NoFiles, Slots!Watching, Slots!NothingToWrite, Slots!Vacant, SlotsT!Init,
         SlotsT!Slot, SlotsT!Empty, SlotsT!Task, SlotsT!WholeJob, SlotsT!Idle, SlotsT!NoFiles,
         SlotsT!Watching, SlotsT!NothingToWrite, SlotsT!Vacant
<1>2. Slots!Next <=> SlotsT!Next
  BY Zenon
     DEF Slots!Next, Slots!Phones, Slots!Disconnects, Slots!Kaos, Slots!Task, Slots!Send,
         Slots!Work, Slots!Crash, Slots!Quit, Slots!Rescue, Slots!Slot, Slots!ClearSlot,
         Slots!Owner, Slots!LoadSlot, Slots!ResetSlot, Slots!ResetSlotFails,
         Slots!RefreshPortal, Slots!LaunchGame, Slots!DropRequest, Slots!ClearSlotsForProfile,
         Slots!SelectSwap, Slots!ExecuteKaosSwap, Slots!AbortKaosSwap, Slots!RunLoad,
         Slots!RunClear, Slots!RestoreAfterFailure, Slots!RunRefresh, Slots!ApplyResult,
         Slots!RunBoot, Slots!RunReboot, Slots!NoFiles, Slots!QuitGame, Slots!QuitKill,
         Slots!QuitReset, Slots!DropQuit, Slots!NoticeCrash, Slots!RememberPlaced,
         Slots!RescueReset, Slots!RescueBoot, Slots!RestoreFigure, Slots!RestoreDone,
         Slots!Mark, Slots!Clearing, Slots!Announce, Slots!ClearJob, Slots!Loading,
         Slots!LoadJob, Slots!Busy, Slots!WholeJob, Slots!For, Slots!OwnedBy, Slots!InOrder,
         Slots!InFlight, Slots!Placed, Slots!Take, Slots!LoadOk, Slots!ToApply, Slots!Loaded,
         Slots!LoadFail, Slots!ToReread, Slots!ClearOk, Slots!Empty, Slots!ClearFail,
         Slots!ReadOutcomes, Slots!NothingToWrite, Slots!ToSnapshot, Slots!Idle, Slots!Written,
         Slots!Announced, Slots!Queued, Slots!Boot, Slots!Watching, Slots!Vacant,
         Slots!ResetPortal, Slots!PlacedFigures, Slots!SlotState, Slots!SlotOp,
         Slots!Performing, Slots!Put, Slots!Target, Slots!Only, Slots!ReadBack, SlotsT!Next,
         SlotsT!Phones, SlotsT!Disconnects, SlotsT!Kaos, SlotsT!Task, SlotsT!Send, SlotsT!Work,
         SlotsT!Crash, SlotsT!Quit, SlotsT!Rescue, SlotsT!Slot, SlotsT!ClearSlot, SlotsT!Owner,
         SlotsT!LoadSlot, SlotsT!ResetSlot, SlotsT!ResetSlotFails, SlotsT!RefreshPortal,
         SlotsT!LaunchGame, SlotsT!DropRequest, SlotsT!ClearSlotsForProfile, SlotsT!SelectSwap,
         SlotsT!ExecuteKaosSwap, SlotsT!AbortKaosSwap, SlotsT!RunLoad, SlotsT!RunClear,
         SlotsT!RestoreAfterFailure, SlotsT!RunRefresh, SlotsT!ApplyResult, SlotsT!RunBoot,
         SlotsT!RunReboot, SlotsT!NoFiles, SlotsT!QuitGame, SlotsT!QuitKill, SlotsT!QuitReset,
         SlotsT!DropQuit, SlotsT!NoticeCrash, SlotsT!RememberPlaced, SlotsT!RescueReset,
         SlotsT!RescueBoot, SlotsT!RestoreFigure, SlotsT!RestoreDone, SlotsT!Mark,
         SlotsT!Clearing, SlotsT!Announce, SlotsT!ClearJob, SlotsT!Loading, SlotsT!LoadJob,
         SlotsT!Busy, SlotsT!WholeJob, SlotsT!For, SlotsT!OwnedBy, SlotsT!InOrder,
         SlotsT!InFlight, SlotsT!Placed, SlotsT!Take, SlotsT!LoadOk, SlotsT!ToApply,
         SlotsT!Loaded, SlotsT!LoadFail, SlotsT!ToReread, SlotsT!ClearOk, SlotsT!Empty,
         SlotsT!ClearFail, SlotsT!ReadOutcomes, SlotsT!NothingToWrite, SlotsT!ToSnapshot,
         SlotsT!Idle, SlotsT!Written, SlotsT!Announced, SlotsT!Queued, SlotsT!Boot,
         SlotsT!Watching, SlotsT!Vacant, SlotsT!ResetPortal, SlotsT!PlacedFigures,
         SlotsT!SlotState, SlotsT!SlotOp, SlotsT!Performing, SlotsT!Put, SlotsT!Target,
         SlotsT!Only, SlotsT!ReadBack, Slots!Cardinality, SlotsT!Cardinality
<1>3. Slots!vars = SlotsT!vars
  BY Zenon DEF Slots!vars, SlotsT!vars
<1>4. Slots!TypeOK <=> SlotsT!TypeOK
  BY Zenon
     DEF Slots!TypeOK, Slots!Slot, Slots!SlotState, Slots!Task, Slots!Job, Slots!Settled,
         Slots!File, Slots!Vacant, Slots!Swap, Slots!Rescued, Slots!Empty, Slots!Loading,
         Slots!Loaded, Slots!Owner, SlotsT!TypeOK, SlotsT!Slot, SlotsT!SlotState, SlotsT!Task,
         SlotsT!Job, SlotsT!Settled, SlotsT!File, SlotsT!Vacant, SlotsT!Swap, SlotsT!Rescued,
         SlotsT!Empty, SlotsT!Loading, SlotsT!Loaded, SlotsT!Owner
<1>5. Slots!MirrorIsTrue <=> SlotsT!MirrorIsTrue
  BY Zenon
     DEF Slots!MirrorIsTrue, Slots!ResetDue, Slots!Slot, Slots!Busy, Slots!InFlight,
         Slots!Shows, Slots!Loading, Slots!Announced, Slots!Queued, Slots!Performing,
         Slots!Vacant, Slots!Empty, Slots!Loaded, Slots!Task, Slots!For, Slots!SlotOp,
         SlotsT!MirrorIsTrue, SlotsT!ResetDue, SlotsT!Slot, SlotsT!Busy, SlotsT!InFlight,
         SlotsT!Shows, SlotsT!Loading, SlotsT!Announced, SlotsT!Queued, SlotsT!Performing,
         SlotsT!Vacant, SlotsT!Empty, SlotsT!Loaded, SlotsT!Task, SlotsT!For, SlotsT!SlotOp
<1> QED
  BY <1>1, <1>2, <1>3, <1>4, <1>5

\* Spec runs the portal's slots, or something else throughout.
LEMMA SlotsRun ==
  Spec => \/ SlotsT!Spec /\ [](part = "slots")
          \/ []~(part = "slots")
<1>1. Init /\ part = "slots" => SlotsT!Init
  BY SlotsSame DEF Init
<1>2. [Next]_xs /\ part = "slots"
      => [SlotsT!Next]_(SlotsT!vars) /\ (part = "slots")'
  <2>1. CASE Next
    BY <2>1, SlotsSame DEF Next
  <2>2. CASE UNCHANGED xs
    BY <2>2 DEF xs, r3, SlotsT!vars
  <2> QED
    BY <2>1, <2>2
<1>3. [Next]_xs /\ ~(part = "slots") => ~(part = "slots")'
  BY DEF Next, xs
<1> QED
  BY <1>1, <1>2, <1>3, PTL DEF Spec, SlotsT!Spec

\* What its theorems ask of the constants of the portal's slots.
LEMMA SlotsPortalAssumption == SlotsT!PortalAssumption
  BY PortalsAssumption DEF PortalOK, SlotsT!PortalAssumption, SlotsT!FaultKind

\* What its theorems ask of the constants of the portal's slots.
LEMMA SlotsKeepAssumption == SlotsT!KeepAssumption
  BY PortalsAssumption
     DEF SlotsT!KeepAssumption, SlotsT!SlotState, Slots!SlotState, SlotsT!Owner, Slots!Owner

\* The types of the portal's slots.
LEMMA SlotsTypes == Spec => [](part = "slots" => Slots!TypeOK)
<1>1. SlotsT!Spec => []SlotsT!TypeOK
  BY SlotsPortalAssumption, SlotsKeepAssumption, SlotsT!TypeCorrect
<1>2. SlotsT!TypeOK => (part = "slots" => Slots!TypeOK)
  BY SlotsSame
<1> QED
  BY <1>1, <1>2, SlotsRun, PTL

SwapsT == INSTANCE PortalProofs WITH
  SlotCount <- OfSwaps.SlotCount, Figure <- OfSwaps.Figure, Recognised <- OfSwaps.Recognised,
  Profile <- OfSwaps.Profile, KaosEnabled <- OfSwaps.KaosEnabled, Request <- OfSwaps.Request,
  Janitor <- OfSwaps.Janitor, QueueCap <- OfSwaps.QueueCap, MaxRespawns <- OfSwaps.MaxRespawns,
  Faults <- OfSwaps.Faults, Driver <- "uia", NoFigure <- Absent, NoProfile <- Absent,
  NoSwap <- Absent, Keep <- Unused,
  portal <- x1, todo <- x2, queue <- x3, worker <- x4, emu <- x5, up <- x6, current <- x7,
  swap <- x8, rescue <- x9, quit <- x10, stuck <- x11, bypassed <- x12

\* The second portal here and there are the same.
LEMMA SwapsSame ==
  /\ Swaps!Init <=> SwapsT!Init
  /\ Swaps!Next <=> SwapsT!Next
  /\ Swaps!vars = SwapsT!vars
  /\ Swaps!TypeOK <=> SwapsT!TypeOK
  /\ Swaps!MirrorIsTrue <=> SwapsT!MirrorIsTrue
<1>1. Swaps!Init <=> SwapsT!Init
  BY Zenon
     DEF Swaps!Init, Swaps!Slot, Swaps!Empty, Swaps!Task, Swaps!WholeJob, Swaps!Idle,
         Swaps!NoFiles, Swaps!Watching, Swaps!NothingToWrite, Swaps!Vacant, SwapsT!Init,
         SwapsT!Slot, SwapsT!Empty, SwapsT!Task, SwapsT!WholeJob, SwapsT!Idle, SwapsT!NoFiles,
         SwapsT!Watching, SwapsT!NothingToWrite, SwapsT!Vacant
<1>2. Swaps!Next <=> SwapsT!Next
  BY Zenon
     DEF Swaps!Next, Swaps!Phones, Swaps!Disconnects, Swaps!Kaos, Swaps!Task, Swaps!Send,
         Swaps!Work, Swaps!Crash, Swaps!Quit, Swaps!Rescue, Swaps!Slot, Swaps!ClearSlot,
         Swaps!Owner, Swaps!LoadSlot, Swaps!ResetSlot, Swaps!ResetSlotFails,
         Swaps!RefreshPortal, Swaps!LaunchGame, Swaps!DropRequest, Swaps!ClearSlotsForProfile,
         Swaps!SelectSwap, Swaps!ExecuteKaosSwap, Swaps!AbortKaosSwap, Swaps!RunLoad,
         Swaps!RunClear, Swaps!RestoreAfterFailure, Swaps!RunRefresh, Swaps!ApplyResult,
         Swaps!RunBoot, Swaps!RunReboot, Swaps!NoFiles, Swaps!QuitGame, Swaps!QuitKill,
         Swaps!QuitReset, Swaps!DropQuit, Swaps!NoticeCrash, Swaps!RememberPlaced,
         Swaps!RescueReset, Swaps!RescueBoot, Swaps!RestoreFigure, Swaps!RestoreDone,
         Swaps!Mark, Swaps!Clearing, Swaps!Announce, Swaps!ClearJob, Swaps!Loading,
         Swaps!LoadJob, Swaps!Busy, Swaps!WholeJob, Swaps!For, Swaps!OwnedBy, Swaps!InOrder,
         Swaps!InFlight, Swaps!Placed, Swaps!Take, Swaps!LoadOk, Swaps!ToApply, Swaps!Loaded,
         Swaps!LoadFail, Swaps!ToReread, Swaps!ClearOk, Swaps!Empty, Swaps!ClearFail,
         Swaps!ReadOutcomes, Swaps!NothingToWrite, Swaps!ToSnapshot, Swaps!Idle, Swaps!Written,
         Swaps!Announced, Swaps!Queued, Swaps!Boot, Swaps!Watching, Swaps!Vacant,
         Swaps!ResetPortal, Swaps!PlacedFigures, Swaps!SlotState, Swaps!SlotOp,
         Swaps!Performing, Swaps!Put, Swaps!Target, Swaps!Only, Swaps!ReadBack, SwapsT!Next,
         SwapsT!Phones, SwapsT!Disconnects, SwapsT!Kaos, SwapsT!Task, SwapsT!Send, SwapsT!Work,
         SwapsT!Crash, SwapsT!Quit, SwapsT!Rescue, SwapsT!Slot, SwapsT!ClearSlot, SwapsT!Owner,
         SwapsT!LoadSlot, SwapsT!ResetSlot, SwapsT!ResetSlotFails, SwapsT!RefreshPortal,
         SwapsT!LaunchGame, SwapsT!DropRequest, SwapsT!ClearSlotsForProfile, SwapsT!SelectSwap,
         SwapsT!ExecuteKaosSwap, SwapsT!AbortKaosSwap, SwapsT!RunLoad, SwapsT!RunClear,
         SwapsT!RestoreAfterFailure, SwapsT!RunRefresh, SwapsT!ApplyResult, SwapsT!RunBoot,
         SwapsT!RunReboot, SwapsT!NoFiles, SwapsT!QuitGame, SwapsT!QuitKill, SwapsT!QuitReset,
         SwapsT!DropQuit, SwapsT!NoticeCrash, SwapsT!RememberPlaced, SwapsT!RescueReset,
         SwapsT!RescueBoot, SwapsT!RestoreFigure, SwapsT!RestoreDone, SwapsT!Mark,
         SwapsT!Clearing, SwapsT!Announce, SwapsT!ClearJob, SwapsT!Loading, SwapsT!LoadJob,
         SwapsT!Busy, SwapsT!WholeJob, SwapsT!For, SwapsT!OwnedBy, SwapsT!InOrder,
         SwapsT!InFlight, SwapsT!Placed, SwapsT!Take, SwapsT!LoadOk, SwapsT!ToApply,
         SwapsT!Loaded, SwapsT!LoadFail, SwapsT!ToReread, SwapsT!ClearOk, SwapsT!Empty,
         SwapsT!ClearFail, SwapsT!ReadOutcomes, SwapsT!NothingToWrite, SwapsT!ToSnapshot,
         SwapsT!Idle, SwapsT!Written, SwapsT!Announced, SwapsT!Queued, SwapsT!Boot,
         SwapsT!Watching, SwapsT!Vacant, SwapsT!ResetPortal, SwapsT!PlacedFigures,
         SwapsT!SlotState, SwapsT!SlotOp, SwapsT!Performing, SwapsT!Put, SwapsT!Target,
         SwapsT!Only, SwapsT!ReadBack, Swaps!Cardinality, SwapsT!Cardinality
<1>3. Swaps!vars = SwapsT!vars
  BY Zenon DEF Swaps!vars, SwapsT!vars
<1>4. Swaps!TypeOK <=> SwapsT!TypeOK
  BY Zenon
     DEF Swaps!TypeOK, Swaps!Slot, Swaps!SlotState, Swaps!Task, Swaps!Job, Swaps!Settled,
         Swaps!File, Swaps!Vacant, Swaps!Swap, Swaps!Rescued, Swaps!Empty, Swaps!Loading,
         Swaps!Loaded, Swaps!Owner, SwapsT!TypeOK, SwapsT!Slot, SwapsT!SlotState, SwapsT!Task,
         SwapsT!Job, SwapsT!Settled, SwapsT!File, SwapsT!Vacant, SwapsT!Swap, SwapsT!Rescued,
         SwapsT!Empty, SwapsT!Loading, SwapsT!Loaded, SwapsT!Owner
<1>5. Swaps!MirrorIsTrue <=> SwapsT!MirrorIsTrue
  BY Zenon
     DEF Swaps!MirrorIsTrue, Swaps!ResetDue, Swaps!Slot, Swaps!Busy, Swaps!InFlight,
         Swaps!Shows, Swaps!Loading, Swaps!Announced, Swaps!Queued, Swaps!Performing,
         Swaps!Vacant, Swaps!Empty, Swaps!Loaded, Swaps!Task, Swaps!For, Swaps!SlotOp,
         SwapsT!MirrorIsTrue, SwapsT!ResetDue, SwapsT!Slot, SwapsT!Busy, SwapsT!InFlight,
         SwapsT!Shows, SwapsT!Loading, SwapsT!Announced, SwapsT!Queued, SwapsT!Performing,
         SwapsT!Vacant, SwapsT!Empty, SwapsT!Loaded, SwapsT!Task, SwapsT!For, SwapsT!SlotOp
<1> QED
  BY <1>1, <1>2, <1>3, <1>4, <1>5

\* Spec runs the second portal, or something else throughout.
LEMMA SwapsRun ==
  Spec => \/ SwapsT!Spec /\ [](part = "swaps")
          \/ []~(part = "swaps")
<1>1. Init /\ part = "swaps" => SwapsT!Init
  BY SwapsSame DEF Init
<1>2. [Next]_xs /\ part = "swaps"
      => [SwapsT!Next]_(SwapsT!vars) /\ (part = "swaps")'
  <2>1. CASE Next
    BY <2>1, SwapsSame DEF Next
  <2>2. CASE UNCHANGED xs
    BY <2>2 DEF xs, r3, SwapsT!vars
  <2> QED
    BY <2>1, <2>2
<1>3. [Next]_xs /\ ~(part = "swaps") => ~(part = "swaps")'
  BY DEF Next, xs
<1> QED
  BY <1>1, <1>2, <1>3, PTL DEF Spec, SwapsT!Spec

\* What its theorems ask of the constants of the second portal.
LEMMA SwapsPortalAssumption == SwapsT!PortalAssumption
  BY PortalsAssumption DEF PortalOK, SwapsT!PortalAssumption, SwapsT!FaultKind

\* What its theorems ask of the constants of the second portal.
LEMMA SwapsKeepAssumption == SwapsT!KeepAssumption
  BY PortalsAssumption
     DEF SwapsT!KeepAssumption, SwapsT!SlotState, Swaps!SlotState, SwapsT!Owner, Swaps!Owner

\* The types of the second portal.
LEMMA SwapsTypes == Spec => [](part = "swaps" => Swaps!TypeOK)
<1>1. SwapsT!Spec => []SwapsT!TypeOK
  BY SwapsPortalAssumption, SwapsKeepAssumption, SwapsT!TypeCorrect
<1>2. SwapsT!TypeOK => (part = "swaps" => Swaps!TypeOK)
  BY SwapsSame
<1> QED
  BY <1>1, <1>2, SwapsRun, PTL

\* A settled slot that no job is about to change shows what the emulator holds, for any number
\* of slots, figures, players and tasks and under every fault, with a driver that loads into the
\* slot it is told (state.rs).
THEOREM MirrorCorrect == Spec => []MirrorIsTrue
<1>1. SlotsT!Spec => []SlotsT!MirrorIsTrue
  BY SlotsPortalAssumption, SlotsKeepAssumption, SlotsT!MirrorCorrect
<1>2. SwapsT!Spec => []SwapsT!MirrorIsTrue
  BY SwapsPortalAssumption, SwapsKeepAssumption, SwapsT!MirrorCorrect
<1>3. /\ (part = "slots" => SlotsT!MirrorIsTrue)
      /\ (part = "swaps" => SwapsT!MirrorIsTrue)
      => MirrorIsTrue
  BY SlotsSame, SwapsSame DEF MirrorIsTrue
<1> QED
  BY <1>1, <1>2, <1>3, SlotsRun, SwapsRun, PTL

-----------------------------------------------------------------------------
\* Those parts that are of the server and its desk keep to their types.
TypedAtTheServer ==
  /\ part = "slots" => Slots!TypeOK
  /\ part = "swaps" => Swaps!TypeOK
  /\ part = "lockouts" => Lock!TypeOK
  /\ part = "enrolment" => Enrol!TypeOK
  /\ part = "profiles" => Prof!TypeOK
  /\ part = "working copy" => Work!TypeOK
  /\ part = "figure file" => Edits!TypeOK
  /\ part = "set-up" => Wizard!TypeOK
  /\ part = "scanner" => Pad!TypeOK
  /\ part = "poller" => Looks!TypeOK

\* So they do.
LEMMA AtTheServer == Spec => []TypedAtTheServer
  BY SlotsTypes, SwapsTypes, LockTypes, EnrolTypes, ProfTypes, WorkTypes, EditsTypes,
     WizardTypes, PadTypes, LooksTypes, PTL
     DEF TypedAtTheServer

\* Those parts that are of the phone keep to their types.
TypedAtThePhone ==
  /\ part = "fan-out" => Fan!TypeOK
  /\ part = "taunts" => Taunts!TypeOK
  /\ part = "rush" => Rush!TypeOK
  /\ part = "return" => Return!TypeOK
  /\ part = "play" => Play!TypeOK
  /\ part = "menu" => Menu!TypeOK
  /\ part = "reset" => Reset!TypeOK
  /\ part = "link" => Link!TypeOK

\* So they do.
LEMMA AtThePhone == Spec => []TypedAtThePhone
  BY FanTypes, TauntsTypes, RushTypes, ReturnTypes, PlayTypes, MenuTypes, ResetTypes, LinkTypes,
     PTL
     DEF TypedAtThePhone

\* Every part keeps to its types, and no queue, buffer or counter of one outgrows its
\* bound, for every value of the constants.
THEOREM TypesCorrect == Spec => []TypesOK
<1>1. TypedAtTheServer /\ TypedAtThePhone => TypesOK
  BY DEF TypedAtTheServer, TypedAtThePhone, TypesOK
<1> QED
  BY <1>1, AtTheServer, AtThePhone, PTL
===============================================================================
