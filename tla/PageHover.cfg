SPECIFICATION Spec
CONSTANTS
  Tables = {t, u}
  Hosts = {h}
  Nothing = nothing
  Names = {p, q}
  MaxFetches = 2
SYMMETRY Symmetry
INVARIANTS
  TypeOK
  FailedIsForgotten
  LoadingIsAwaited
PROPERTIES
  MissedOnce
CHECK_DEADLOCK FALSE
