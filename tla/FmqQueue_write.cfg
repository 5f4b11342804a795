SPECIFICATION FairSpec
CONSTANTS
  NSlots = 3
  BufSize = 7
  MaxId = 5
  MaxMsgs = 7
  Writers = {w1, w2}
  Lens <- FittingLens
  BlockingWrite = FALSE
  MayFail = FALSE
INVARIANTS
  TypeOK
  ActiveAreaExact
  NeverReinitialised
  RetainsLatest
PROPERTY WriteReturns
CHECK_DEADLOCK FALSE
