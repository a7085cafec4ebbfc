SPECIFICATION FairSpec
CONSTANTS
  None = None
  p1 = p1
  p2 = p2
  good = good
  bare = bare
  unparsed = unparsed
  assertion = assertion
  Processes = {p1}
  Disks = {good, bare}
  Tooling <- ChecksFound
  Fingerprints = {unparsed}
  FailureCount <- Counts
  NoFailures = unparsed
  MaxAttempts = 3
  MaxFiles = 0
  MaxAnswers = 1
  MaxHandovers = 1
  MaxCrashes = 1
INVARIANT AttemptsBounded
PROPERTY VerifiedCompletion
PROPERTY DiagnosisIsCurrent
PROPERTY ComesToRest
CHECK_DEADLOCK FALSE
