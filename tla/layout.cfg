SPECIFICATION Spec
CONSTANTS
  Tiles = {t1, t2, t3, t4, t5}
  Size <- MCSize
SYMMETRY Symmetry
INVARIANTS Within Covered Disjoint
