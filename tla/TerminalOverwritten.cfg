SPECIFICATION FairSpec
CONSTANTS
  d1 = d1
  c1 = c1
  c2 = c2
  p1 = p1
  Processes = {p1}
  Drivers = {d1}
  Clients = {c1, c2}
  Host <- OneProcess
  Kinds = {"resume"}
  Contended = {"resume"}
  MaxRequests = 1
  MaxCrashes = 0
PROPERTY TerminalIsFinal
CHECK_DEADLOCK FALSE
