SPECIFICATION Spec
CONSTANTS
  A = A
  B = B
  D = D
  E = E
  r1 = r1
  r2 = r2
  r3 = r3
  NoScan = NoScan
  MinHosts = 1
  ShrinkNum = 4
  ShrinkDen = 5
  Scan <- TwoScans
  Count <- CountOf
  Run <- ThreeRuns
  Healthy <- NoRuns
  NoMatch <- NoScans
  Duplicated <- NoScans
  NoStatus <- NoScans
  NoUsableId <- NoScans
  Aliased <- NoScans
  Forces = {FALSE}
  BatchSize = 2
  MaxRetries = 2
  CanceledReusable = TRUE
  Delayed = FALSE
  Unverified = FALSE
  Serial = TRUE
PROPERTIES
  NoUnforcedShrink
