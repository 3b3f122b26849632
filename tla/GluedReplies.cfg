SPECIFICATION FairSpec
CONSTANTS
  alice = alice
  bob = bob
  p1 = p1
  p2 = p2
  p3 = p3
  p4 = p4
  p5 = p5
  p6 = p6
  home = home
  pub = pub
  NoConn = NoConn
  Clients = {alice}
  MaxConn = 3
  Cap = 2
  Dirs = {home, pub}
  Home = home
  Sizes = {1}
  Wrapped = 4
  NoFile <- MCNoFile
  Procs = {p1, p2, p3, p4}
  Root = p1
  Lines = {2}
  Faults = {}
  Typed = {"open", "ftp", "get", "rls"}
  MaxCmds = 3
PROPERTIES
  CompletionComes
CHECK_DEADLOCK FALSE
