SPECIFICATION Spec
\* The model stops when its bounded connections and captures are used up.
CHECK_DEADLOCK FALSE
CONSTANTS
  NumConns = 3
  NumCaptures = 2
  Ahead = 2
  MaxSessions = 2
  PendingLimit = 2
  SilentTicks = 2
  Hellos = {"good", "bad"}
  Encodings = {"good", "garbled"}
  StartsOver = FALSE
  MaxWire = 6
  MaxCuts = 2
  MaxFaults = 1
INVARIANTS
  TypeOK
  PlacesCounted
  NeverOverbooked
PROPERTIES
  CaptureLogSpec
  DeadSessionsEnd
