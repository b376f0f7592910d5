SPECIFICATION MCSpec
CONSTANTS
  Cells = 2
  ImuRegs <- MCImuRegs
  LidarRegs <- MCLidarRegs
  MaxPackets = 3
INVARIANTS
  TypeOK
  ImuCoherent
  LidarCoherent
  SensorsInStep
  NeverTorn
PROPERTIES
  NoRegress
  EmulatorsCatchUp
  NewsIsServed
