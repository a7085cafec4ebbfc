SPECIFICATION Spec
CONSTANTS
  Files <- MCFiles
  Dirs <- MCDirs
  DirOf <- MCDirOf
  AllowedRoots = {}
  OutsideRoot = {}
  Submissions <- MCSubmissions
  Decisions <- MCDecisions
  TurnDecisions <- MCTurnDecisions
  MaxCalls = 3
  Attended = {0, 1}
  MaxRepairs = 2
  MaxTurns = 2
  MaxParallel = 2
  MaxChildren = 2
  MaxReplies = 2
  MaxCrashes = 1
INVARIANT WorkInOrder
INVARIANT BudgetsSurviveKills
INVARIANT DecisionsTakeEffect
INVARIANT NothingUntold
CHECK_DEADLOCK FALSE
