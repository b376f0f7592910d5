SPECIFICATION FairSpec
CONSTANTS
  QueueLen = 3
  PollTicks = 8
  FetchTicks = 1
  ControlTicks = 10
  TimeoutTicks = 20
  BootAges = {0, 100}
  Losses = 3

INVARIANTS
  TypeOK
  AgeBounded
  FailsafeInTime
  LiftedByFresh
PROPERTIES
  FailsafeMeansLoss
  LatencyConverges
