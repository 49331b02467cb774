SPECIFICATION ServingSpec
CONSTANTS
  Requests = {q, r}
  q = q
  MaxRows  = 3
  Ahead    = 2
  Blocks   = 4
  Moves    = 2
  MaxLimit = 2
INVARIANTS
  ServingTypeOK
  ExitTells
  PageTells
PROPERTIES
  KeepsContract
  SignalStops
  RequestsAnswered
  CandidatesStand
CHECK_DEADLOCK FALSE
