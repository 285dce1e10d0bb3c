SPECIFICATION FairSpec
CONSTANTS
  a = a
  x = x
  y = y
  NoValue = NoValue
  Key = {a}
  Value = {x, y}
  Keep = 0
  Settings <- Separate
INVARIANTS
  OnlyChosenApplied
  AppliesWithoutGap
  NoKeyBehind
  EffectiveIsLast
  RaftStateValid
PROPERTIES
  SubmitsInOrder
  QueueDrains
  CommittedIsApplied
  BuildEnds
