SPECIFICATION GateSpec
CONSTANTS
  t1 = t1
  t2 = t2
  c1 = c1
  c2 = c2
  Tasks = {t1, t2}
  Clients = {c1, c2}
  Calls <- MCCalls
  CreateModes = {"none", "Manual"}
  ProcessModes = {"Assisted", "Autonomous"}
  MaxCalls = 2
  MaxAnswers = 2
  MaxCrashes = 1
INVARIANTS UnaskedByRight AnswersFitPrompts
SYMMETRY Symmetry
CHECK_DEADLOCK FALSE
