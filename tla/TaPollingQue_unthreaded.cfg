SPECIFICATION UnthreadedSpec
CONSTANT NumThreads = 1
PROPERTY UnthreadedReturns
CHECK_DEADLOCK FALSE
