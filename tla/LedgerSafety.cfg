SPECIFICATION Spec
CONSTANTS
  f = f
  g = g
  x = x
  y = y
  Absent = Absent
  Unknown = Unknown
  Root = Root
  Children = {c1, c2}
  Paths = {f, g}
  Contents = {x, y}
  MaxCalls = 2
  MaxCheckpoints = 1
  MaxRollbacks = 2
  MaxUserEdits = 1
  MaxFailures = 1
  MaxCrashes = 1
INVARIANT UserWorkSurvives
INVARIANT ClassifiesTruly
PROPERTY RestoredInProcess
PROPERTY RevertsOwnWork
CHECK_DEADLOCK FALSE
SYMMETRY Names
