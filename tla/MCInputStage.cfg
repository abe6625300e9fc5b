CONSTANTS
  c1 = c1
  r1 = r1
  b1 = b1
  b2 = b2
  Callbacks = {c1}
  Reconcilers = {r1}
  Batches = {b1, b2}
  Kinds = {"prep", "snapshot"}
  MaxJobs = 4
  MaxFaults = 2
SPECIFICATION FairSpec
INVARIANT OneConsumer SealedBeforeDispatch DispatchedOnce
PROPERTY WorkIsNotCalledOff StageSettles
CHECK_DEADLOCK FALSE
