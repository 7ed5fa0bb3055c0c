SPECIFICATION WalletsSpec
CONSTANTS
  Parts = {"elections", "calls", "cloud", "told", "ports"}
  Dids = {"indy", "key", "other"}
  Ledgers = {"net", "none"}
  NoLedger = "none"
  NetOf <- Nets
  Nested = {"indy"}
  Ids = {"i1", "i2"}
  Requests = {r1, r2, r3}
  r1 = r1
  r2 = r2
  r3 = r3
  MaxFaults = 1
  Orgs = {"p", "o1"}
  Platform = "p"
  Agents = {"A", "B"}
  Setup <- TwoOrgs
  Calls = {"c1", "c2"}
  Plans <- AllPlans
  Movers = {"p", "o1"}
  MaxMoves = 2
  Users = {"admin", "ann", "bob"}
  Hosts = {"a1", "a2"}
  CloudCalls = {"c1", "c2", "c3", "c4", "c5", "c6"}
  CloudPlans <- Clients
  Holders = {"ann", "bob"}
  Provisions = {"p1"}
  MaxLosses = 2
  MaxCrashes = 1
  Scripts = {"p1", "p2", "p3"}
  NameOf <- Twice
  Gap = 3
  Overlap = 2
  MaxFailures = 1
SYMMETRY Symmetry
INVARIANT OneStory
INVARIANT PrimaryKept
INVARIANT CallsKept
INVARIANT StartsKept
CHECK_DEADLOCK FALSE
