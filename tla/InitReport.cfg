SPECIFICATION Spec
CONSTANTS
  Calls <- BnoInitCalls
  MaxFaults = 0
INVARIANT InitReportsTruth
