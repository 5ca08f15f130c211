SPECIFICATION Spec
CONSTANTS
  Worlds <- MCWorlds
  WellFormed <- MCWellFormed
INVARIANTS
  TypeOK
  FirstSourceWins
  RecordsKeepTheirFields
  ExitTellsCause
