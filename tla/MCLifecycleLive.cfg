SPECIFICATION FairSpec
CONSTANTS
  h1 = h1  h2 = h2
  Handler = {h1}
  QueueCap = 1
  MaxRespawns = 2
  MaxWatchers = 1
  MaxOrphans = 1
  KillOnDrop = TRUE
  Events = {"boot", "exit", "freeze", "settings"}
PROPERTIES RecoveryEnds SettingsFlagEnds
