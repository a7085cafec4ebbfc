SPECIFICATION Spec
CONSTANTS
  f = f
  g = g
  x = x
  y = y
  Absent = Absent
  Unknown = Unknown
  Root = Root
  Children = {}
  Paths = {f, g}
  Contents = {x, y}
  MaxCalls = 2
  MaxCheckpoints = 1
  MaxRollbacks = 1
  MaxUserEdits = 1
  MaxFailures = 0
  MaxCrashes = 0
PROPERTY RefusalLeavesTree
CHECK_DEADLOCK FALSE
SYMMETRY Names
