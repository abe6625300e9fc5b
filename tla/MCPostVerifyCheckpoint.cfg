\* A task that may run again and one that must not; the chain may come to rest.
CONSTANTS
  r1 = r1
  None = None
  Runs <- MCRuns
  Owners <- MCOwners
  Cursors <- MCRuns
  Run = r1
  Tasks <- MCTasks
  RetrySafe <- MCSafe
  Optional <- MCNone
  Stopping <- MCStopping
  MaxTimeouts = 1
  MaxRetries = 1
  MaxClaims = 3
  MaxWrites = 1
  MaxRoots = 2
  MaxRevisions = 2
  MaxFaults = 2
SPECIFICATION FairSpec
INVARIANT TypeOK OneOpenClaim UnsafeOncePerKey
PROPERTY LiveClaimIsLeftAlone LateSettleResumes
CHECK_DEADLOCK FALSE
