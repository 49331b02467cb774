SPECIFICATION Spec
CONSTANTS
  PartNames = {p}
  Hosts = {here, there}
  Here = here
  Days = 3
  MaxSteps = 0
INVARIANTS
  EventOfEachActivePart
CHECK_DEADLOCK FALSE
