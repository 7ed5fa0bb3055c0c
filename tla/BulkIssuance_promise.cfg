SPECIFICATION Spec
CONSTANTS
  Files = {f1}
  Recipients = {p1}
  Retries = {d1}
  BatchSize = 1
  MaxFaults = 1
  MaxPurges = 1
INVARIANT TypeOK
INVARIANT UndeliveredIsRetryable
INVARIANT SecondOfferHasCause
PROPERTY ImplementsDelivery
PROPERTY ReopenedByOwnRequestOnly
CHECK_DEADLOCK FALSE
