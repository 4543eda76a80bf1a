SPECIFICATION FairSpec
CONSTANTS
  n1 = n1
  n2 = n2
  n3 = n3
  Node = {n1, n2, n3}
  Migrating = {n1, n2}
  First <- NewOrRelease
  Stored = {0, 1}
  Requested <- AskNothing
  Lengths = {1}
  Outlive = FALSE
  Crashes = 1
  Rollbacks = 1
INVARIANTS
  TypeOK
  StampIsTruthful
  MigratedIsWhole
  NoShapingFails
PROPERTIES
  EveryAttachEnds
