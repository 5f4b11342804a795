SPECIFICATION OpenFairSpec
CONSTANTS
  NSlots = 3
  BufSize = 7
  MaxId = 9
  MaxMsgs = 5
  Writers = {w1}
  Lens <- UnevenLens
  BlockingWrite = TRUE
  MayFail = TRUE
  ReuseObject = FALSE
INVARIANT RepairedOnOpen
PROPERTIES SoundQueueKept RestartedWriterReturns
CHECK_DEADLOCK FALSE
