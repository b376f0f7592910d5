SPECIFICATION Spec
CONSTANTS
  QueueLen = 2
  Timestamps <- MCTimestamps
  ClockWrap = 2
  HalfWord = 4
  MaxTime = 3
  MaxFrames = 4
  MaxFaults = 1
INVARIANT OnTime
