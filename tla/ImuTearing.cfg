SPECIFICATION MCSpec
CONSTANTS
  Cells = 2
  ImuRegs <- MCImuRegs
  LidarRegs <- MCLidarRegs
  MaxPackets = 3
INVARIANT TearNeedsSecondFlip
