SPECIFICATION Spec
CONSTANTS
  NumEvents = 15
  Setups <- MCSetups
  Filters <- MCFilters
  Handler <- MCHandler
  Cycles = {"weapons", "throttle"}
  Cycle <- MCCycle
  KeysOf <- MCKeysOf
  Keys = {k1, k2, k3}
  k1 = k1
  k2 = k2
  k3 = k3
  RelCodes = {wheel}
  wheel = wheel
  Deltas = {0, 1, 2}
  MaxTime = 4
INVARIANTS KeysFollowState SharedFollowState LetGoReleasesAll
PROPERTIES HeldFires MacroEnds
