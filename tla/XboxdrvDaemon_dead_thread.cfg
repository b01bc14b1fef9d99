SPECIFICATION Spec
CONSTANTS
  NumSlots = 1
  Devices = {receiver}
  Controllers = {port0}
  NoController = none
  receiver = receiver
  pad1 = pad1
  pad2 = pad2
  port0 = port0
  port1 = port1
  wired1 = wired1
  wired2 = wired2
  none = none
  DeviceOf <- MCDeviceOf
  Ports <- MCPorts
  Wireless = {receiver}
  RuleSlots = {}
  Matches <- MCMatches
  MaxIdle = 2
CHECK_DEADLOCK FALSE
INVARIANT NoCallToDeadThread
