CONSTANTS
  r1 = r1
  r2 = r2
  None = None
  Runs <- MCRuns
  Owners <- MCOwners
  Cursors <- MCCursors
  Run = r1
  RepairRun = r2
  MaxChain = 2
  MaxVerify = 2
  MaxAttempts = 2
  MaxRedispatches = 1
  MaxDetours = 1
SPECIFICATION FairSpec
INVARIANT VerifyClosedByItsDispatch QueuedHasDriver
PROPERTY PostVerifyFollowsVerify VerifyAnswerIsKept VerifiedRunIsFollowedUp TableSpec
CHECK_DEADLOCK FALSE
