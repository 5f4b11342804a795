SPECIFICATION DoubleSpec
CONSTANTS
  NumThreads = 3
  NumJobs = 5
INVARIANTS
  DequesOK
  NoJobLost
PROPERTIES InfoNotReplaced ReleaseReturns SharesJobs
