SPECIFICATION FairSpec
CONSTANTS
  rust = rust
  go = go
  c1 = c1
  c2 = c2
  none = none
  Languages = {rust, go}
  Configured = {rust, go}
  Callers = {c1, c2}
  NoCaller = none
  Ops = {"query", "open", "shutdown"}
  MaxServers = 1
  MaxSessions = 2
  MaxIds = 3
  MaxCalls = 2
  MaxFaults = 1
INVARIANT AnswersFindTheirWaiters
INVARIANT CapHolds
INVARIANT NoOrphans
PROPERTY EveryCallReturns
INVARIANT AskIsAnswered
CHECK_DEADLOCK FALSE
