SPECIFICATION Spec
CONSTANTS
  Parent <- MCParent
  Row = {r1}
  Child = {}
  Inl = {1}
  Reader = {p1, p2}
  MaxSnap = 2
  Expiries = 1
  RowBudget = 1
SYMMETRY ReaderSymmetry
CHECK_DEADLOCK FALSE
INVARIANTS
  TypeOK
  MirrorComplete
  GhostsAreExpired
  LiveSnapshotsHeld
PROPERTIES
  NeverMovesBack
