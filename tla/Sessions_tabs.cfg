SPECIFICATION SessionSpec
CONSTANTS
  t1 = t1
  t2 = t2
  Tabs = {t1, t2}
  MaxPairs = 3
  MaxLost = 1
SYMMETRY TabSymmetry
INVARIANTS ReuseNeedsOverlap RevokedWhenTraded SessionEnds
CHECK_DEADLOCK FALSE
