SPECIFICATION FairSpec
CONSTANTS
  alice = alice
  bob = bob
  Clients = {alice, bob}
  NoClient = NoClient
  Versions = {"src", "src01", "src02"}
  BufSize = 4
  Lengths = {0, 2, 3, 5}
  MaxWords = 2
  MayCrash = TRUE
INVARIANTS
  InOrder
  WaitExplained
  OnlyOneOpen
  LogMatches
PROPERTIES
  DeathsExplained
  ClientsEnd
  GoneFreesServer
CHECK_DEADLOCK FALSE
