SPECIFICATION ReaderFairSpec
CONSTANTS
  NSlots = 3
  BufSize = 9
  MaxId = 5
  MaxMsgs = 7
  Writers = {w1}
  Readers = {r1}
  OpenAt = {"END"}
  Lens <- MixedLens
  BlockingWrite = TRUE
  MayFail = FALSE
PROPERTIES
  FifoChannel
  BlockedWriterPublishes
CHECK_DEADLOCK FALSE
