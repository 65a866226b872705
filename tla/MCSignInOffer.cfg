SPECIFICATION Spec
CONSTANTS
  p1 = p1  p2 = p2  k1 = k1
  Profile = {p1, p2}
  Call = {k1}
  LastSession = 1
  WireCap = 2
  Playing = TRUE
  NoProfile = NoProfile
  NoCall = NoCall
SYMMETRY Interchangeable
CHECK_DEADLOCK FALSE
INVARIANT OfferIsForPlayer
