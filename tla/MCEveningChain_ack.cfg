CONSTANTS
  r1 = r1
  r2 = r2
  None = None
  Runs <- MCRuns
  Owners <- MCOwners
  Cursors <- MCCursors
  Run = r1
  RepairRun = r2
  MaxChain = 1
  MaxVerify = 1
  MaxAttempts = 1
  MaxRedispatches = 1
  MaxDetours = 1
SPECIFICATION Spec
PROPERTY BlockedDeliveryIsNotAcked
CHECK_DEADLOCK FALSE
