SPECIFICATION Spec
CONSTANTS
  a = a  b = b  c = c  call1 = call1  call2 = call2
  OfSlots <- TwoSlots  OfSwaps <- OneSlot  OfLockouts <- TwoGuess
  OfEnrolment <- ThreeEnrol  OfProfiles <- TwoDevices  OfCopies <- TwoEdits
  OfFigures <- FourFigures  OfSetup <- OnWindows  OfScanner <- ThreeTags
  OfPoller <- ThreeLooks  OfFan <- TwoChanges  OfTaunts <- TwoTaunts
  OfRush <- TwoPlayers  OfReturn <- TwoSockets  OfPlay <- OnePlayer
  OfMenu <- OneTarget  OfReset <- TwoTargets  OfLink <- TwoChains
  Absent = Absent
  Unused = Unused
  SEQUENCES = 4
  Gold = {0, 300}
SYMMETRY Interchangeable
CHECK_DEADLOCK FALSE
INVARIANTS TypesOK MirrorIsTrue GuessingIsSlow LimitIsSoft LayoutOutlivesCleanUp TornStaysTorn EditReadsBack KeySurvives SettingsStick TornForAReason DumpIsOfOneFigure OneCardForEachKind CoverHolds FreezeIsReal ViewIsTrue TauntIsShownOnce SettledAgrees TriedOnce ClosesInTheEnd LinkIsTended
PROPERTIES ProgressIsKept OnceForEachTap ActsUnderFinger
