SPECIFICATION Spec
CONSTANTS
  Views = {v1, v2, x, y}
  Unmanaged = {x, y}
  WantsFocus = {x}
  Tiles = {t1, t2, t3}
  Outputs = {o1}
  FirstOutput = o1
  MaxWs = 1
  Layer = Layer
  NULL = NULL
  Inputs = {"layer", "quit", "merge_id", "moveview_id", "exchange_id", "unplug_last"}
SYMMETRY Symmetry
INVARIANTS Listed KeyboardFollows
CHECK_DEADLOCK FALSE
