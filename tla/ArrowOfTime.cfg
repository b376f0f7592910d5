SPECIFICATION NodeSpec
CONSTANTS
  QueueLen = 2
  Timestamps <- MCTimestamps
  ClockWrap = 10
  HalfWord = 5
  MaxTime = 3
  MaxFrames = 3
  MaxFaults = 0
  Cells = 1
  ImuRegs <- MCImuRegs
  LidarRegs <- MCLidarRegs
INVARIANT ArrowOfTime
