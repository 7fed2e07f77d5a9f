CONSTANTS
  Values = {v1, v2}
  NoValue = NoValue
  MaxRollbackDepth = 2
  SnapshotDepth = 1
  MaxHeight = 7
SPECIFICATION Spec
INVARIANTS
  ReadsCurrent
PROPERTIES
  RefinesWindow
