SPECIFICATION FairSpec
CONSTANTS
  QueueLen = 2
  Timestamps <- MCTimestamps
  ClockWrap = 4
  HalfWord = 3
  MaxTime = 3
  MaxFrames = 4
  MaxFaults = 1
INVARIANTS
  TypeOK
  TimerFlag
  NoLostWakeup
  RingOrder
  GateAlwaysFull
  Conservation
  EarlyBounded
  OnTime
PROPERTIES
  ImplementsCausalityGate
  GateCatchesUp
