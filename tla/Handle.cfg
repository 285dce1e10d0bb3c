SPECIFICATION HandleSpec
CONSTANTS
  MaxTerm = 2
  MaxIndex = 2
  MaxIO = 2
  Lag = 0
  Uses <- TheUses
  MaxSnap = 2
  LastChunk = 2
  MaxSession = 2
  MaxFaults = 1
  MaxLate = 1
INVARIANTS
  ReportedIsHeld
PROPERTIES
  WatchFollows
  NoWaitSticks
  TransmitEnds
CHECK_DEADLOCK FALSE
