SPECIFICATION Spec
CONSTANTS
  None = None
  Documents <- MCDocuments
INVARIANTS
  TypeOK
  AcceptedIsWhole
  CutIsRefused
  NoInventedPass
