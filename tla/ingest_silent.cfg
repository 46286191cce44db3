SPECIFICATION Spec
\* The model stops when its bounded connections and captures are used up.
CHECK_DEADLOCK FALSE
CONSTANTS
  NumConns = 2
  NumCaptures = 1
  Ahead = 1
  MaxSessions = 2
  PendingLimit = 1
  SilentTicks = 3
  Hellos = {"good"}
  Encodings = {"good"}
  StartsOver = FALSE
  MaxWire = 4
  MaxCuts = 1
  MaxFaults = 0
PROPERTIES
  SilentClientsClosed
