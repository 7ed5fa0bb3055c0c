CONSTANTS
  Attempts = {a1}
  Deletions = {d1}
  Agents = {x1}
  MaxFaults = 1
SPECIFICATION Spec
INVARIANTS
  FailedDeletionKeepsRecord
CHECK_DEADLOCK FALSE
