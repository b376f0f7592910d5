SPECIFICATION FairSpec
CONSTANTS
  LidarRegs = {0, 1, 16, 17}
  QueueLen = 2
  PeriodTicks = 3
  ConsumerTicks = 10
  MaxPackets = 2
INVARIANTS
  TypeOK
  AgeBounded
  NothingMeasured
PROPERTIES
  DistancesFlow
