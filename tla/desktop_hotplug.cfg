SPECIFICATION Spec
CONSTANTS
  Views = {v1, v2, x}
  Unmanaged = {x}
  WantsFocus = {x}
  Tiles = {t1, t2, t3}
  Outputs = {o1, o2}
  FirstOutput = o1
  MaxWs = 1
  Layer = Layer
  NULL = NULL
  Inputs = {}
SYMMETRY Symmetry
INVARIANTS TypeOK  FocusIsShown Listed TreeFollows
CHECK_DEADLOCK FALSE
