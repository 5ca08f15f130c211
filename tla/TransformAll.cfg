SPECIFICATION Spec
CONSTANTS
  MinHosts = 1
  ShrinkNum = 4
  ShrinkDen = 5
  None = "None"
  Manifest <- MCManifest
  HostList <- MCHostList
  UpperOf <- MCUpperOf
  LabelOf <- MCLabelOf
  SlugOf <- MCSlugOf
INVARIANTS
  TypeOK
  AttestedIsEvidenced
  DiagnosisAgrees
  PushableIsEvidence
