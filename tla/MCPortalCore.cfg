SPECIFICATION Spec
CONSTANTS
  f1 = f1  f2 = f2  p1 = p1  p2 = p2  r1 = r1  r2 = r2  j1 = j1
  SlotCount = 1
  Figure = {f1,f2}
  Recognised = {f1}
  Profile = {p1}
  KaosEnabled = {p1}
  Request = {r1,r2}
  Janitor = {j1}
  QueueCap = 1
  MaxRespawns = 1
  Driver = "uia"
  Faults = {"boot", "reset", "drop", "crash", "quit", "load"}
  NoFigure = NoFigure
  NoProfile = NoProfile
  NoSwap = NoSwap
  Keep = Keep
CONSTRAINT SwapsInPeace
SYMMETRY Interchangeable
INVARIANTS TypeOK BusyIsExclusive LoadingIsBacked MirrorIsTrue
PROPERTY ClearsOnlyOwn
