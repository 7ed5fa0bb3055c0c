SPECIFICATION Spec
CONSTANTS
  Attempts = {a1, a2, a3}
  Deletions = {d1, d2}
  Agents = {x1}
  MaxFaults = 1
SYMMETRY Symmetry
INVARIANT RecordHasWallet
INVARIANT OrphanHasCause
INVARIANT HalfMadeHasCause
CHECK_DEADLOCK FALSE
