SPECIFICATION FairSpec
CONSTANTS
  A = A
  B = B
  D = D
  E = E
  r1 = r1
  r2 = r2
  r3 = r3
  NoScan = NoScan
  MinHosts = 1
  ShrinkNum = 4
  ShrinkDen = 5
  Scan <- TwoScans
  Count <- CountOf
  Run <- TwoRuns
  Healthy <- NoRuns
  NoMatch <- NoScans
  Duplicated <- NoScans
  NoStatus <- NoScans
  NoUsableId <- OnlyB
  Aliased <- OnlyA
  Forces = {TRUE}
  BatchSize = 2
  MaxRetries = 1
  CanceledReusable = FALSE
  Delayed = TRUE
  Unverified = FALSE
  Serial = FALSE
INVARIANTS
  SavedMeansPublished
PROPERTIES
  PublicationSpec
  EveryRunEnds
