SPECIFICATION FairSpec
CONSTANTS
  Files = {f1}
  Recipients = {p1, p2}
  Retries = {}
  BatchSize = 1
  MaxFaults = 1
  MaxPurges = 1
INVARIANT CompletedMeansDelivered
INVARIANT LastClosesDispatch
PROPERTY IssueIsClosed
PROPERTY QueueDrains
CHECK_DEADLOCK FALSE
