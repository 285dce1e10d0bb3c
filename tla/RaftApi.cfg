SPECIFICATION Spec
CONSTANTS
  c1 = c1
  c2 = c2
  NoCaller = NoCaller
  Caller = {c1, c2}
  Plans <- Pairs
  ApiSize = 1
  MaxIndex = 3
  MaxTerm = 2
INVARIANTS
  OkIsOwnEntry
  NoneForgotten
PROPERTY
  CallsEnd
CHECK_DEADLOCK FALSE
