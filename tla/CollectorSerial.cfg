SPECIFICATION FairSpec
CONSTANTS
  A = A
  r1 = r1
  r2 = r2
  NoScan = NoScan
  Scan <- OnlyA
  Count <- CountOf
  CanceledReusable = FALSE
  Delayed = TRUE
  NoStatus <- NoScans
  NoUsableId <- NoScans
  Aliased <- NoScans
  MinHosts = 1
  ShrinkNum = 4
  ShrinkDen = 5
  Run <- TwoRuns
  NoMatch <- NoScans
  Duplicated <- NoScans
  BatchSize = 1
  MaxRetries = 1
  Forces = {TRUE}
  Healthy <- OnlyR2
  Unverified = TRUE
  PidReuse = TRUE
  Serialised = TRUE
INVARIANTS
  WorkerHoldsLock
PROPERTIES
  PushIsSerial
  LockIsReturned
