SPECIFICATION Spec
CONSTANTS
  p1 = p1
  p2 = p2
  p3 = p3
  Pid <- ThreePids
  PidReuse = TRUE
  Serialised = TRUE
SYMMETRY PidSymmetry
INVARIANTS
  TypeOK
  MutualExclusion
  HolderOwnsFile
