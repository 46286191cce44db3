SPECIFICATION Spec
CONSTANTS
  A = A
  B = B
  NumCaptures = 3
  Timestamps <- AnyClock
  Path <- Paths
  Name <- Names
  Spaces = {A, B}
  Unknown = Unknown
  Scenarios <- AnyScenes
  Requests <- AnyRequests
  PoolFactor = 2
  MaxPool = 500
  ExportPage = 2
  LivePage = 2
INVARIANTS
  ViewsTypeOK
  VectorsAreTheirs
  WipeErases
  RankedInSpace
  FilterRespected
  NoErasedResult
  ShortAnswerComplete
  BestFirst
  ExportComplete
  ExportOnce
  LiveInOrder
  OldOnlyWhenLate
PROPERTIES
  LiveMissesNothing
CHECK_DEADLOCK FALSE
