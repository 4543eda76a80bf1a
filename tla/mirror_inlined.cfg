SPECIFICATION Spec
CONSTANTS
  Parent <- MCParent
  Row = {r1}
  Child = {c1}
  Inl = {1, 2}
  Reader = {p1}
  MaxSnap = 2
  Expiries = 1
  RowBudget = 10
INVARIANTS
  MirrorComplete
  FingerprintTruthful
PROPERTIES
  InlinedTablesCurrent
