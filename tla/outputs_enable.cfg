SPECIFICATION Spec
CONSTANTS
  Structs = {s1, s2}
  Monitors = {A, B}
  Views = {}
  Prios = {1}
  NULL = NULL
  Inputs = {"disable"}
SYMMETRY Symmetry
INVARIANT EnabledShown
CHECK_DEADLOCK FALSE
