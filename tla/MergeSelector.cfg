SPECIFICATION FairSpec
CONSTANTS
  Inputs     <- AllCalls
  Partitions <- MCPartitions
  Unit       = 100
  MaxLog     = 128
  Log2       <- MCLog2
INVARIANTS
  TypeOK
  BestFirst
  NothingBetterLeftOut
  AgreesWithReference
  LoweringKeepsPairs
  TestsPass
PROPERTIES
  Returns
  KeepsContract
CHECK_DEADLOCK FALSE
