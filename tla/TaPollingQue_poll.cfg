SPECIFICATION PollSpec
CONSTANT NumThreads = 3
INVARIANTS
  OneAnswer
  CopiedAtRest
  NoThreadIdle
PROPERTY HandsOverWork
CHECK_DEADLOCK FALSE
