SPECIFICATION Spec
CONSTANTS
  NSlots = 3
  BufSize = 7
  MaxId = 5
  MaxMsgs = 5
  Writers = {w1}
  Lens <- LensWithTooLarge
  BlockingWrite = TRUE
  MayFail = TRUE
INVARIANTS
  PublishedNotOverwritten
  IInv
CHECK_DEADLOCK FALSE
