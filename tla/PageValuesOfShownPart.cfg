SPECIFICATION Spec
CONSTANTS
  Tables = {t, u}
  Hosts = {h}
  Nothing = nothing
  Names = {p, q}
  MaxFetches = 2
INVARIANTS
  ValuesOfShownPart
CHECK_DEADLOCK FALSE
