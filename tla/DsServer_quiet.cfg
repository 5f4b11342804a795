SPECIFICATION ServerSpec
CONSTANTS
  Clients = {c1, c2}
  Kinds = {"process"}
  MaxClients = 1
  MaxQuiescentSecs = 0
  MaxJoined = 1
  MaxFailedForks = 0
  MaxStops = 0
PROPERTY ExitsWhenQuiet
