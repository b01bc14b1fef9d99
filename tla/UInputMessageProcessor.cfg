SPECIFICATION Spec
CONSTANTS
  NumConfigs = 2
  NumButtons = 4
  Keys = {fire, jump, menu}
  fire = fire
  jump = jump
  menu = menu
  Bound <- MCBound
  KeysOf <- MCKeysOf
  Toggle = 1
  Types = {"XBOX", "XBOX360", "PS3USB"}
  ButtonsOf <- MCButtonsOf
  PadTypes = {"XBOX360", "XBOX", "PS3USB"}
  Modified <- MCUnmodified
  Wireless = TRUE
  DBus = TRUE
INVARIANTS PressedIsSelected NeutralReleasesAll OnlyCurrentPresses
PROPERTY ToggleOncePerPress
CHECK_DEADLOCK FALSE
