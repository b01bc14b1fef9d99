SPECIFICATION AxesSpec
CONSTANTS
  NumButtons = 2
  Types = {"XBOX", "XBOX360"}
  Axes = {x1}
  x1 = x1
  black = black
  AxesOf <- MCAxesOf
  BoundAxes <- MCOneShifts
  Values <- MCValues
INVARIANT ShiftedAxesLetGo
CHECK_DEADLOCK FALSE
