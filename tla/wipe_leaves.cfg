SPECIFICATION Spec
CONSTANTS
  A = A
  B = B
  NumCaptures = 3
  Timestamps <- AnyClock
  Path <- Paths
  Name <- Names
  Spaces = {A, B}
  Unknown = Unknown
  Scenarios <- WipeScenes
  Requests <- NoRequests
  PoolFactor = 2
  MaxPool = 500
  ExportPage = 2
  LivePage = 2
INVARIANT WipeReachesBeyondTables
CHECK_DEADLOCK FALSE
