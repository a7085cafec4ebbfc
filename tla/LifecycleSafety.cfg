SPECIFICATION FairSpec
CONSTANTS
  d1 = d1
  c1 = c1
  c2 = c2
  p1 = p1
  Processes = {p1}
  Drivers = {d1}
  Clients = {c1, c2}
  Host <- OneProcess
  Kinds = {"pause", "cancel", "resume", "resolve", "respond"}
  Contended = {"pause", "cancel"}
  MaxRequests = 8
  MaxCrashes = 2
INVARIANT PausedCanResume
INVARIANT ApprovedCallRunsOnce
INVARIANT OnlyStaleCacheBlocks
PROPERTY NoStepAfterCancel
PROPERTY ResumeHonoursCancel
CHECK_DEADLOCK FALSE
