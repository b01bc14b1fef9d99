SPECIFICATION Spec
CONSTANTS
  Setups <- MCSetups
  Sends <- MCSends
  Reports <- MCReports
  Events <- MCEvents
  Deltas = {0, 1}
  MaxTime = 3
  Second = 4
  Bits8 = 6
  Bits16 = 7
INVARIANTS ButtonsRemapped EndsReached RestStaysRest
PROPERTIES DirectionKept ThrottleFollows SticksFollowed
