SPECIFICATION Spec
CONSTANTS
  LidarRegs = {0, 1, 16, 17}
  QueueLen = 2
  PeriodTicks = 3
  ConsumerTicks = 10
  MaxPackets = 2
INVARIANT MeasurementGenuine
