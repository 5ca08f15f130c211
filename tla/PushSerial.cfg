SPECIFICATION FairSpec
CONSTANTS
  A = A
  B = B
  D = D
  E = E
  r1 = r1
  r2 = r2
  r3 = r3
  NoScan = NoScan
  MinHosts = 1
  ShrinkNum = 4
  ShrinkDen = 5
  Scan <- AllScans
  Count <- CountOf
  Run <- ThreeRuns
  Healthy <- OnlyR3
  NoMatch <- NoScans
  Duplicated <- OnlyD
  NoStatus <- OnlyA
  NoUsableId <- NoScans
  Aliased <- OnlyB
  Forces = {TRUE, FALSE}
  BatchSize = 2
  MaxRetries = 2
  CanceledReusable = TRUE
  Delayed = FALSE
  Unverified = FALSE
  Serial = TRUE
INVARIANTS
  TypeOK
  CompletedIsWhole
  UnsoundNeverSent
  SavedMeansPublished
  UploadedPrefixKept
  ReportIsTrue
PROPERTIES
  DropHasCause
  HealthyRunPublishes
