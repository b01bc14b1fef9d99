SPECIFICATION Spec
CONSTANTS
  AutoId = AutoId
  MouseButtons = {"BTN_LEFT"}
  KeyboardKeys = {"KEY_UP", "KEY_DOWN"}
  Second = 4
  Loudest = 7
  FullGain = 3
  MotorStep = 2
  Ids = {0, 1}
  Setups <- MCSetups
  Effects <- MCEffects
  Gains = {1}
  Deltas = {0, 1}
  Ticks = {2}
  MaxEvents = 3
  MaxPlays = 3
  MaxFaults = 1
  MaxTurns = 2
INVARIANTS EffectsFollowKernel RestIsStill RepeatKeepsPace
PROPERTIES RumbleEnds
