SPECIFICATION ResponseSpec
CONSTANTS
  Responses  <- MCResponses
  Partitions <- MCPartitions
  MaxAge     <- MCMaxAge
  Pages <- MCPages
  Shown <- MCShown
  Avail = 200
  MaxDigits = 3
INVARIANTS
  TypeOK
  RangesAreMaximalRuns
  StatsCoverPartitions
  OffersCandidates
  NumbersLegible
  LaneLaidOut
CHECK_DEADLOCK FALSE
