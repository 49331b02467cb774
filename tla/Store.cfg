SPECIFICATION StoreSpec
CONSTANTS
  Word  <- MCWord
  Given <- MCGiven
  Columns    = {a, b}
  Expression = expression
  Hosts      = {1, 2}
  MaxIndices = 1
  MaxChanges = 1
  PartNames = {p, q}
  LogHosts  = {here, there}
  Here      = here
  Days      = 2
  MaxSteps  = 2
SYMMETRY Alike
INVARIANTS
  StoreTypeOK
  ReadsBack
  EffectiveOrWarned
  ColumnsTell
  ReplyTells
  CreationsTell
CHECK_DEADLOCK FALSE
