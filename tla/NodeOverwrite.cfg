SPECIFICATION Spec
CONSTANTS
  a = a
  x = x
  y = y
  NoValue = NoValue
  Key = {a}
  Value = {x, y}
  Keep = 0
  Settings <- Mixed
INVARIANT
  SnapshotCoversPurged
