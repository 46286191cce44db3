SPECIFICATION Spec
CONSTANTS
  A = A
  B = B
  NumCaptures = 2
  Batch = 2
  Backoff = 1
  MaxAge = 1
  Spaces = {A, B}
  Unknown = Unknown
  BrokerStamp = BrokerStamp
  TextKinds = {"none", "good"}
  ImageKinds = {"jpeg", "raw", "noToken"}
  Titles = {}
  ServiceStates <- ForwardServices
  ServiceMoves <- ForwardMoves
  MaxMoves = 2
  MaxFaults = 1
INVARIANTS
  NoMixedSpaces
  OneVectorEach
PROPERTIES
  SkippedIsFinal
  IndexKept
  TextStoreSpec
  ImageStoreSpec
  Converges
