SPECIFICATION ServerSpec
CONSTANTS
  Clients = {c1, c2, c3}
  Kinds = {"process", "threaded"}
  MaxClients = 2
  MaxQuiescentSecs = 0
  MaxJoined = 3
  MaxFailedForks = 1
  MaxStops = 1
INVARIANTS
  ClientsCounted
  LimitKept
  LeavesOnlyIfTold
PROPERTIES EveryClientAnswered PurgesInTheEnd
