SPECIFICATION Spec
CONSTANTS
  Selector = "id"
  UseLatestHistory = FALSE
  NoDate <- Nothing
  NoId <- Nothing
  MaxLaunches = 3
  ReadyTimes <- ReadyOrNot
  InitialDelay = 2
  Interval = 3
  Timeout = 10
  Latency = 2
INVARIANT
  LabelIsTrue
