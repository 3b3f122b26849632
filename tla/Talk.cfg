SPECIFICATION FairSpec
CONSTANTS
  alice = alice
  bob = bob
  p1 = p1
  p2 = p2
  p3 = p3
  Procs = {p1, p2, p3}
  Root = p1
  None = None
  Clients = {alice, bob}
  Typed = {"text", "hello", "quit"}
  MaxLines <- MCMaxLines
  MayFail = TRUE
INVARIANTS
  EachLineOnce
  OrderKept
  OneBehind
  WaitExplained
  ServerSurvives
PROPERTIES
  DeathsExplained
  QuitFrees
CHECK_DEADLOCK FALSE
