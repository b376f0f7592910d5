SPECIFICATION Spec
CONSTANTS
  Cells = 2
  ImuRegs = {0, 1}
  MaxPackets = 3
PROPERTY NeverOlder
