SPECIFICATION FairSpec
CONSTANTS
  Tables <- MCTables
  Hosts  <- MCHosts
INVARIANTS
  RestsWithPickedHost
CHECK_DEADLOCK FALSE
