SPECIFICATION AccessoriesSpec
CONSTANTS
  Mods = {"shift", "green"}
  Mapped = {"q"}
  Unmapped = {"gap"}
  Setups <- MCSetups
  Reports <- MCReports
  MaxFaults = 1
  MaxLights = 2
INVARIANTS ChatpadFollows
PROPERTIES KeepAliveContinues PlaybackEnds
CHECK_DEADLOCK FALSE
