\* One packet delivered twice, one after the other; the day may come to rest.
CONSTANTS
  i1 = i1
  board = board
  q1 = q1
  q2 = q2
  None = None
  Intents <- MCIntents
  Legs <- MCLegs
  IntentOf <- MCIntentOf
  Requests <- MCRequests
  IntentFor <- MCIntentFor
  Requested = 1
  Tagged <- MCUntagged
  DailyLimit = 1
  Overlap = 1
  QueueSize = 1
  MaxFaults = 1
SPECIFICATION FairSpec
INVARIANT TypeOK OneOrderPerLeg OpenOrderIsCounted DealsCountOnce
PROPERTY AmbiguityEnds
CHECK_DEADLOCK FALSE
