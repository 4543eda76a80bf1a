SPECIFICATION Spec
CONSTANTS
  n1 = n1
  n2 = n2
  n3 = n3
  Node = {n1}
  Migrating = {n1}
  First <- Old
  Stored = {1, 3}
  Requested <- AllAsk
  Lengths = {1, 2, 3}
  Outlive = FALSE
  Crashes = 3
  Rollbacks = 2
INVARIANTS
  LimitsAreDeclared
  StatsFit
