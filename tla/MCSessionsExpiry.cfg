SPECIFICATION Spec
CONSTANTS
  c1 = c1  c2 = c2  c3 = c3  c4 = c4
  p1 = p1  p2 = p2  s1 = s1
  Conn = {c1,c2,c3,c4}
  Profile = {p1}
  Slot = {s1}
  MaxSessions = 2
  NoProfile = NoProfile
  NoSession = NoSession
SYMMETRY Interchangeable
CHECK_DEADLOCK FALSE
PROPERTY LivePlayerKeepsFigures
