SPECIFICATION PoolSpec
CONSTANTS
  NumThreads = 3
  NumJobs = 4
INVARIANTS
  AllJobsDoneOnce
  OnePlace
  QuietWhenOver
PROPERTIES NoDataRace RunsEnd SharesJobs
