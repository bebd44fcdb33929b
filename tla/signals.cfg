SPECIFICATION FairSpec
CONSTANTS
  MaxQueued = 2
  MaxEarly = 3
  MaxRelayed = 2
  Worlds <- Mixed
CHECK_DEADLOCK FALSE
INVARIANTS TypeOK CandidatesDelivered
PROPERTIES SetupSucceeds EndSpreads
