SPECIFICATION FairSpec
CONSTANTS
  SchedulerQLen = 2
  TimeOf <- MCTimeOf
  MaxTransfers = 9
  MaxFaults = 2
  Horizon = 10
  ClockWrap = 20
  HalfWord = 16
INVARIANTS
  TypeOK
  EveryOtherFrame
  StuckOnlyByRearm
  EarlyBounded
  EarlyOnlyAfterLoss
PROPERTIES
  StagedIsServed
