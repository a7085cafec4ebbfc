SPECIFICATION FairRunSpec
CONSTANTS
  sh = sh
  bg = bg
  Leader = sh
  Children = {bg}
  Runs <- MCRuns
  MaxBytes = 2
  PipeSize = 2
  MaxWritten = 4
  MaxTime = 1
INVARIANT NoGroupSurvives
INVARIANT PassIsEarned
INVARIANT OutputIsFaithful
PROPERTY RunEnds
CHECK_DEADLOCK FALSE
