CONSTANTS
  d1 = d1
  d2 = d2
  Dispatchers = {d1, d2}
  MaxCalls = 6
  MaxStarts = 2
  MaxAttempts = 3
  MaxFaults = 1
SPECIFICATION FairSpec
INVARIANT OneComputation ComputationsAreBounded
PROPERTY ResultIsOwners BatchSettles
CHECK_DEADLOCK FALSE
