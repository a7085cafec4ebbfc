SPECIFICATION Spec
CONSTANTS
  f = f
  g = g
  x = x
  y = y
  Absent = Absent
  Unknown = Unknown
  Root = Root
  Children = {}
  Paths = {f, g}
  Contents = {x, y}
  MaxCalls = 1
  MaxCheckpoints = 1
  MaxRollbacks = 1
  MaxUserEdits = 0
  MaxFailures = 0
  MaxCrashes = 1
PROPERTY RestoredExactly
CHECK_DEADLOCK FALSE
SYMMETRY Names
