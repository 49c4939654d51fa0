SPECIFICATION Spec
CONSTANTS
  Clients = {a, b}
  EvLen = 2
  Sizes <- MCSizes
  FirstSize = 3
  MaxBuf = 6
  LenMod = 100
  SockCap = 1
  MaxEvents = 3
  MaxTold = 2
  NULL = NULL
SYMMETRY ClientSymmetry
INVARIANTS TypeOK StreamIntact WriterArmed BufferFits CommandsComplete
PROPERTY Implements
CHECK_DEADLOCK FALSE
