CONSTANTS
  d = d
  p = p
  i1 = i1
  i2 = i2
  Requests = {d, p}
  Instances = {i1, i2}
  On <- TwoInstances
  PollOnly = {p}
  MaxRuns = 3
  MaxAttempts = 2
  MaxFaults = 1
SPECIFICATION FairSpec
INVARIANT TrainingKeepsItsLock VerdictIsEarned ReplacementIsDue
PROPERTY FullFitSettles
CHECK_DEADLOCK FALSE
