SPECIFICATION Spec
CONSTANTS
  MaxSnapshot = 4
  MaxOldest = 2
  Columns <- MCColumns
  Fields <- MCFields
CHECK_DEADLOCK FALSE
INVARIANTS
  TypeOK
  ServerShowsTheLake
  MirrorShowsTheLake
