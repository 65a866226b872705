SPECIFICATION Spec
CONSTANTS
  h1 = h1  h2 = h2
  Handler = {h1}
  QueueCap = 1
  MaxRespawns = 1
  MaxWatchers = 1
  MaxOrphans = 1
  KillOnDrop = TRUE
  Events = {"boot", "drop"}
INVARIANTS NoStaleLoading
