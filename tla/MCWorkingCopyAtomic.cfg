SPECIFICATION Spec
CONSTANTS
  r1 = r1  r2 = r2
  Request = {r1, r2}
  LetCrash = FALSE
CHECK_DEADLOCK FALSE
INVARIANT EditIsAtomic
