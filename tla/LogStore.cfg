SPECIFICATION IdsSpec
CONSTANTS
  MaxIndex = 3
  MaxTerm = 2
  MaxBatch = 2
  MaxSearch = 5
  StaleTail = FALSE
INVARIANTS
  AckedEntriesSurvive
  AckedVoteSurvives
  NoGapSurvives
  LogNotBehindSnapshot
  IdsMatchLog
  KeysAreCanonical
  SearchFindsLeaders
