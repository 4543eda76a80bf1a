SPECIFICATION Spec
CONSTANTS
  Types <- MCTypes
  Releases <- MCReleases
  StatsLengths = {0, 4}
  MaxFiles <- MCMaxFiles
  MaxRows = 1
CHECK_DEADLOCK FALSE
INVARIANTS
  TypeOK
  NoneRefused
  FiltersFindTheRows
