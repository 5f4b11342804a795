SPECIFICATION ReaderFairSpec
CONSTANTS
  NSlots = 3
  BufSize = 7
  MaxId = 9
  MaxMsgs = 5
  Writers = {w1}
  Readers = {r1}
  OpenAt = {"START", "END"}
  Lens <- MixedLens
  BlockingWrite = FALSE
  MayFail = FALSE
PROPERTIES InOrderUnlessAhead WholeIfSlotUnchanged SkipsOnlyIfOverrun CatchesUp
CHECK_DEADLOCK FALSE
