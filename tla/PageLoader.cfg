SPECIFICATION FairSpec
CONSTANTS
  Tables <- MCTables
  Hosts  <- MCHosts
INVARIANTS
  TypeOK
  HoldsPickedTable
  RefreshGoesOn
PROPERTIES
  CatchesUp
  KeepsPageData
CHECK_DEADLOCK FALSE
