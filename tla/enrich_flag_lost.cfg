SPECIFICATION Spec
CONSTANTS
  A = A
  B = B
  NumCaptures = 1
  Batch = 1
  Backoff = 1
  MaxAge = 1
  Spaces = {A, B}
  Unknown = Unknown
  BrokerStamp = BrokerStamp
  TextKinds = {"good"}
  ImageKinds = {"jpeg"}
  Titles = {"t"}
  ServiceStates <- RolloutServices
  ServiceMoves <- RolloutMoves
  MaxMoves = 2
  MaxFaults = 1
PROPERTY Converges
