SPECIFICATION FairSpec
CONSTANTS
  t1 = t1
  t2 = t2
  Table <- MCTable
  Work <- MCWork
  Writer = {a1,a2,w1}
  Armed = {a1,a2}
  Skipping = {}
  MinFiles = 2
  Deadlocks = 2
INVARIANTS
  TypeOK
  LoopLosesNoWriter
  IdsUnique
PROPERTIES
  CommitsSerially
  EveryCommitEnds
