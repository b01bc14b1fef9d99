SPECIFICATION AxesSpec
CONSTANTS
  NumButtons = 3
  Types = {"XBOX", "XBOX360"}
  Axes = {x1, black}
  x1 = x1
  black = black
  AxesOf <- MCAxesOf
  BoundAxes <- MCShifted
  Values <- MCValues
INVARIANT NoAxisStuck
CHECK_DEADLOCK FALSE
