SPECIFICATION Spec
CONSTANTS
  Table = {t1, t2}
  Reader = {p1, p2}
  MaxRereads = 1
  MaxSnap = 2
  Upsets = 1
SYMMETRY Symmetry
INVARIANTS
  TypeOK
  CacheMissesNoChange
  AnswersAreCurrent
  OnlyCommittedStats
PROPERTIES
  CacheNeverMovesBack
