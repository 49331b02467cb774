SPECIFICATION FairSpec
CONSTANTS
  Tables <- DottedTables
  Hosts  <- MCHosts
INVARIANTS
  HoldsPickedTable
CHECK_DEADLOCK FALSE
