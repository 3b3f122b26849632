SPECIFICATION FairSpec
CONSTANTS
  alice = alice
  bob = bob
  p1 = p1
  p2 = p2
  p3 = p3
  p4 = p4
  p5 = p5
  p6 = p6
  home = home
  pub = pub
  NoConn = NoConn
  Clients = {alice}
  MaxConn = 5
  Cap = 2
  Dirs = {home, pub}
  Home = home
  Sizes = {0, 2}
  Wrapped = 4
  NoFile <- MCNoFile
  Procs = {p1, p2, p3, p4, p5, p6}
  Root = p1
  Lines = {2}
  Faults = {}
  Typed = {"open", "quit", "ftp", "leave", "hash", "cd", "rcd", "rls", "get", "put", "echo"}
  MaxCmds = 5
INVARIANTS
  TypeOK
  WholeFile
PROPERTIES
  CommandsEnd
  HandlersReturn
  SessionSpec
CHECK_DEADLOCK FALSE
