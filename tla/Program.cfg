SPECIFICATION Spec
CONSTANTS
  CommandLines <- MCCommandLines
  Devices <- MCDevices
  NoPad = NoPad
  Files <- MCFiles
  Dir <- MCDir
  MouseFile <- MCMouse
  Numerals <- MCNumerals
  Percentages <- MCPercentages
  Pairs <- MCPairs
  Parts <- MCParts
  Inputs <- MCInputs
  Macros <- MCMacros
  EventCodes <- MCEventCodes
  DeviceIds <- MCDeviceIds
  EvdevAxes <- MCEvdevAxes
  Keycodes <- MCKeycodes
  ModifierTexts <- MCModifierTexts
INVARIANTS PresetsShareNoCode ContextIsOpenFiles LedOffAtExit
PROPERTY StopsByItself
CHECK_DEADLOCK FALSE
