SPECIFICATION Spec
CONSTANTS
  Views = {v1, v2, v3}
  Unmanaged = {}
  WantsFocus = {}
  Tiles = {t1, t2, t3}
  Outputs = {o1}
  FirstOutput = o1
  MaxWs = 2
  Layer = Layer
  NULL = NULL
  Inputs = {"layer", "quit"}
SYMMETRY Symmetry
INVARIANTS TileViewLinked ShownAtHome 
  FocusLast CyclingReachesAll ClosingShowsNext
CHECK_DEADLOCK FALSE
