CONSTANTS
  d1 = d1
  r1 = r1
  Drivers = {d1}
  Reconcilers = {r1}
  MaxAttempts = 2
  MaxDispatches = 2
  MaxRecoveries = 1
  MaxContainers = 2
  MaxPending = 1
  MaxFaults = 1
SPECIFICATION FairSpec
INVARIANT OneGpuRun AbandonedNeverRuns
PROPERTY RunSettles
CHECK_DEADLOCK FALSE
