SPECIFICATION Spec
CONSTANTS
  r1 = r1
  r2 = r2
  p1 = p1
  p2 = p2
  p3 = p3
  Requests     <- MCRequests
  Partitions   <- MCPartitions
  PlainColumns = {"k"}
  IndexColumns <- OnAndOff
  TTL     = 1
  Timeout = 1
  Limit   = 1
  MaxTime = 2
INVARIANTS
  ColumnsMatchRows
CHECK_DEADLOCK FALSE
