SPECIFICATION Spec
CONSTANTS
  shutDown = shutDown
  Dialog = FALSE
  Subject = {shutDown}
  HOLD = 4
  LINGER = 3
  DISMISS = 5
  NoTarget = NoTarget
CHECK_DEADLOCK FALSE
PROPERTY FullHold
