SPECIFICATION Spec
CONSTANTS
  Requests = {r1, r2}
  Founder = founder
  Member = member
  MaxArrivals = 1
  MaxFaults = 1
SYMMETRY Symmetry
INVARIANT RefusedDeletesNothing
CHECK_DEADLOCK FALSE
