SPECIFICATION Spec
CONSTANTS
  Files <- MCFiles
  Dirs <- MCDirs
  DirOf <- MCDirOf
  AllowedRoots = {}
  OutsideRoot = {}
  Submissions <- MCSubmissions
  Decisions <- MCDecisions
  TurnDecisions <- MCTurnDecisions
  MaxCalls = 3
  Attended = {0}
  MaxRepairs = 2
  MaxTurns = 2
  MaxParallel = 2
  MaxChildren = 0
  MaxReplies = 2
  MaxCrashes = 0
INVARIANT AnswerReachesModel
CHECK_DEADLOCK FALSE
