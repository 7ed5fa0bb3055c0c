SPECIFICATION MCSpec
CONSTANTS
  Parts = {"exchanges", "mails", "wires", "sources", "groups", "given", "schemas", "tags", "rows", "trees", "names", "checks", "preview"}
  Exchanges = {"cred", "proof"}
  KindOf <- Pair
  LastState = 2
  Naming = {1}
  Retries = 1
  MaxFaults = 1
  MaxWipes = 1
INVARIANT SettledIsCurrent
INVARIANT HeardKept
INVARIANT AnswersKept
INVARIANT ObjectsKept
CHECK_DEADLOCK FALSE
