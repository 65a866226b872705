SPECIFICATION Spec
CONSTANTS
  c1 = c1  c2 = c2  c3 = c3  p1 = p1  p2 = p2
  Absent = Absent
  Unused = Unused
CHECK_DEADLOCK FALSE
PROPERTIES SpinnerEnds GhostsEnd Reconnects HangIsNoticed
