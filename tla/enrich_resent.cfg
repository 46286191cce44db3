SPECIFICATION Spec
CONSTANTS
  A = A
  B = B
  NumCaptures = 1
  Batch = 1
  Backoff = 1
  MaxAge = 1
  Spaces = {A, B}
  Unknown = Unknown
  BrokerStamp = BrokerStamp
  TextKinds = {"refused"}
  ImageKinds = {"missing"}
  Titles = {"t"}
  ServiceStates <- SteadyServices
  ServiceMoves <- SteadyMoves
  MaxMoves = 0
  MaxFaults = 0
PROPERTY FallsQuiet
