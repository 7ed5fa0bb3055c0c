SPECIFICATION FairSpec
CONSTANTS
  Parts = {"granted", "creations", "race", "calls", "cloud", "objects", "offers", "ports", "told", "events", "walk", "seed"}
PROPERTY AcceptedGrants
PROPERTY OneCreationWins
PROPERTY RaceHasWinner
PROPERTY RequestsAnswered
PROPERTY OutcomesTold
CHECK_DEADLOCK FALSE
