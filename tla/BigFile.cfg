SPECIFICATION FairSpec
CONSTANTS
  alice = alice
  bob = bob
  p1 = p1
  p2 = p2
  p3 = p3
  p4 = p4
  p5 = p5
  p6 = p6
  home = home
  pub = pub
  NoConn = NoConn
  Clients = {alice}
  MaxConn = 3
  Cap = 1
  Dirs = {home, pub}
  Home = home
  Sizes = {2}
  Wrapped = 4
  NoFile <- MCNoFile
  Procs = {p1, p2, p3, p4}
  Root = p1
  Lines = {2}
  Faults = {}
  Typed = {"open", "ftp", "get", "put"}
  MaxCmds = 3
PROPERTIES
  TransfersGoOn
CHECK_DEADLOCK FALSE
