SPECIFICATION Spec
CONSTANTS
  Structs = {s1, s2, s3}
  Monitors = {A, B}
  Views = {v}
  Prios = {1}
  NULL = NULL
  Inputs = {"disable"}
SYMMETRY Symmetry
INVARIANTS TypeOK Sorted OutputsInUse MessagesTimed
PROPERTIES UbNeedsDisabled PermanentKeepsPlace
CHECK_DEADLOCK FALSE
