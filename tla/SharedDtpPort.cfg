SPECIFICATION Spec
CONSTANTS
  alice = alice
  bob = bob
  p1 = p1
  p2 = p2
  p3 = p3
  p4 = p4
  p5 = p5
  p6 = p6
  home = home
  pub = pub
  NoConn = NoConn
  Clients = {alice, bob}
  MaxConn = 2
  Cap = 2
  Dirs = {home, pub}
  Home = home
  Sizes = {1}
  Wrapped = 4
  NoFile <- MCNoFile
  Procs = {p1, p2, p3, p4, p5}
  Root = p1
  Lines = {2}
  Faults = {}
  Typed = {"open", "ftp", "get"}
  MaxCmds = 3
INVARIANTS
  DataConnMatches
CHECK_DEADLOCK FALSE
