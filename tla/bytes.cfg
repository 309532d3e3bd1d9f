CONSTANTS
  OutSize = 4
  InSize = 4
  Settings <- MCSettings
  Shapes <- MCShapes
  Packed <- MCPacked
  MaxPackets = 2
SPECIFICATION TransferSpec
INVARIANTS ReturnedIsSent BrokenIsTorn AllArrives
PROPERTY ImplementsWire
CHECK_DEADLOCK FALSE
