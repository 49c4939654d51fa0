SPECIFICATION Spec
CONSTANTS
  Tiles = {t1, t2, t3, t4}
  Size <- MCSize
  CurrSize <- MCOtherSize
  Percents <- MCPercents
  Pixs <- MCPixs
  NULL = null
SYMMETRY Symmetry
INVARIANT InsideOutput
