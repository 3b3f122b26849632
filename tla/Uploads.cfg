SPECIFICATION FairSpec
CONSTANTS
  alice = alice
  bob = bob
  Clients = {alice, bob}
  NoClient = NoClient
  Sizes = {0, 2}
  MaxCmds = 2
  MayCrash = TRUE
INVARIANTS
  AnswersMatch
  WaitsExplained
  StoredExact
PROPERTIES
  DeathsExplained
  GoneIsNoticed
CHECK_DEADLOCK FALSE
