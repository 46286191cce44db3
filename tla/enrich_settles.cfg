SPECIFICATION Spec
CONSTANTS
  A = A
  B = B
  NumCaptures = 2
  Batch = 1
  Backoff = 1
  MaxAge = 2
  Spaces = {A, B}
  Unknown = Unknown
  BrokerStamp = BrokerStamp
  TextKinds = {"good"}
  ImageKinds = {"jpeg", "missing"}
  Titles = {"t1", "t2"}
  ServiceStates <- AnyServices
  ServiceMoves <- AnyMoves
  MaxMoves = 2
  MaxFaults = 0
INVARIANTS
  TypeOK
  NoTextForgotten
  DoneHasVector
  TopicsFollowVector
PROPERTIES
  Converges
  FallsQuiet
