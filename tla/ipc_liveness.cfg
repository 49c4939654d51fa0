SPECIFICATION FairSpec
CONSTANTS
  Clients = {a}
  EvLen = 2
  Sizes <- MCSizes
  FirstSize = 3
  MaxBuf = 3
  LenMod = 100
  SockCap = 1
  MaxEvents = 2
  MaxTold = 4
  NULL = NULL
PROPERTIES EventsDelivered 
CHECK_DEADLOCK FALSE
