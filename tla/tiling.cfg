SPECIFICATION Spec
CONSTANTS
  Tiles = {t1, t2, t3, t4}
  Size <- MCSize
  CurrSize <- MCSize
  Percents <- MCPercents
  Pixs <- MCPixs
  NULL = null
SYMMETRY Symmetry
INVARIANTS TypeOK OneRing NeighbourFound ResizeIsExact
PROPERTIES Implements
