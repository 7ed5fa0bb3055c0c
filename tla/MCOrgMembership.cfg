SPECIFICATION MCSpec
CONSTANTS
  Parts = {"roles", "all", "invited"}
  Users = {f, u1}
  Founder = f
  Orgs = {o1, o2}
  Roles = {own, mem}
  Owner = own
  Invitations = {i1, i2}
  Requests = {r1, r2, r3}
  Limit = 1
  Offered = {"invite", "accept", "reject", "withdraw", "update", "register", "map", "unregister"}
  MaxFaults = 1
  o1 = o1
  i1 = i1
  allRoles = {own, mem}
SYMMETRY Symmetry
INVARIANT MembershipKept
INVARIANT StoresAgree
INVARIANT InvitationsKept
INVARIANT LimitHolds
CHECK_DEADLOCK FALSE
