SPECIFICATION FairSpec
CONSTANTS
  Calls <- MCCalls
  MaxFaults = 1
INVARIANTS
  TypeOK
  PageOneOnlyInConfig
  ConfiguredOnSuccess
  InterruptNotStranded
  SamplesGenuine
PROPERTIES
  AttitudesFlow
