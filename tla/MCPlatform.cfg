SPECIFICATION PlatformSpec
CONSTANTS
  Parts = {"organisations", "batches", "exact", "rough", "errors", "posts", "seed"}
  Users = {u1, u2}
  Names = {"a", "b", "c"}
  Slugs = {"ab", "c"}
  SlugOf <- SlugTable
  Ids = {o1, o2}
  Requests = {r1, r2, r3}
  Limit = 1
  MaxFaults = 1
  Crowd = 2
  BatchLists <- SomeLists
  Lower <- Addresses
  Inviter = "me"
  RoleIds = {"member", "issuer", "unknown"}
  Roles = {"member", "issuer"}
  Registered = TRUE
  Overlap = 2
  ExactLists = {"credentials", "connections", "proofs", "invitations", "myInvitations", "organizations", "publicOrgs", "orgUsers", "ecosystem"}
  RoughLists = {"orgSchemas", "schemaCredDefs", "allCredDefs", "files", "fileData", "users"}
  MaxRow = 6
  Start = {1, 2, 3, 4, 5}
  Foreign = {2}
  Private = {4}
  Found = {1, 3, 4, 6}
  Value <- InFields
  States = {1, 2, 3}
  Sought = {1}
  Written <- InState
  Sizes = {2, 3}
  MaxChanges = 2
  Statuses = {"400", "404", "409", "422", "500"}
  Bodies <- AllBodies
  Orgs = {"o1", "o2"}
  Urls = {"u1", "u2", "U"}
  Lowercase = {"u1", "u2"}
  Registrations = {"g1", "g2"}
  Messages = {"m1", "m2"}
  Unset = "null"
  MaxLosses = 2
  Master <- Versions
  Agents = {"a1", "a2", "a3"}
  Old = {"a1"}
  Configured = {"a2"}
  Schemas = {"s1", "s2"}
  CrashAt <- Anywhere
  MaxCrashes = 2
SYMMETRY Symmetry
INVARIANT NamesDiffer
INVARIANT OwnersKept
INVARIANT DeliveriesKept
INVARIANT PagesKept
INVARIANT ErrorsKept
INVARIANT SeedKept
PROPERTY LedgersStay
CHECK_DEADLOCK FALSE
