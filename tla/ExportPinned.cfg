SPECIFICATION FairSpec
CONSTANTS
  Selector = "name"
  UseLatestHistory = TRUE
  NoDate <- SomeUndated
  NoId <- Nothing
  MaxLaunches = 3
  ReadyTimes <- ReadyAnyTime
  InitialDelay = 2
  Interval = 3
  Timeout = 10
  Latency = 2
INVARIANTS
  TypeOK
  LabelIsTrue
  GiveUpIsJustified
  WaitIsBounded
PROPERTY
  ExportEnds
