\* Two triggers of one date.  The date may come to rest.
CONSTANTS
  Runs = {t1, t2}
  Owners = {}
  Cursors = {}
  None = None
SPECIFICATION FairSpec
INVARIANT RunInProgressIsCanonical CommitIsNotLost
PROPERTY StartedRunIsClosed
CHECK_DEADLOCK FALSE
