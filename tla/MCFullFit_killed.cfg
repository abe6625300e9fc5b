CONSTANTS
  d = d
  p = p
  i1 = i1
  i2 = i2
  Requests = {d, p}
  Instances = {i1, i2}
  On <- TwoInstances
  PollOnly = {p}
  MaxRuns = 1
  MaxAttempts = 1
  MaxFaults = 0
SPECIFICATION FairSpec
PROPERTY KilledTrainingIsReported
CHECK_DEADLOCK FALSE
