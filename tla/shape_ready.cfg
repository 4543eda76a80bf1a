SPECIFICATION Spec
CONSTANTS
  n1 = n1
  n2 = n2
  n3 = n3
  Node = {n1}
  Migrating = {}
  First <- NoCatalog
  Stored = {0}
  Requested <- AskNothing
  Lengths = {1}
  Outlive = FALSE
  Crashes = 0
  Rollbacks = 1
INVARIANTS
  ReadyIsKeyed
