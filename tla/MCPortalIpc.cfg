SPECIFICATION Spec
CONSTANTS
  f1 = f1  f2 = f2  p1 = p1  p2 = p2  r1 = r1  r2 = r2  j1 = j1
  SlotCount = 2
  Figure = {f1}
  Recognised = {f1}
  Profile = {p1}
  KaosEnabled = {}
  Request = {r1,r2}
  Janitor = {}
  QueueCap = 2
  MaxRespawns = 1
  Driver = "ipc"
  Faults = {}
  NoFigure = NoFigure
  NoProfile = NoProfile
  NoSwap = NoSwap
  Keep = Keep
INVARIANT MirrorIsTrue
