SPECIFICATION Spec
CONSTANTS
  alice = alice
  bob = bob
  p1 = p1
  p2 = p2
  p3 = p3
  p4 = p4
  p5 = p5
  p6 = p6
  home = home
  pub = pub
  NoConn = NoConn
  Clients = {alice, bob}
  MaxConn = 2
  Cap = 1
  Dirs = {home, pub}
  Home = home
  Sizes = {2}
  Wrapped = 4
  NoFile <- MCNoFile
  Procs = {p1, p2, p3, p4, p5}
  Root = p1
  Lines = {2}
  Faults = {"crash", "fork", "accept", "file"}
  Typed = {"open", "quit", "put", "get", "rls", "rcd", "ftp"}
  MaxCmds = 3
INVARIANTS
  PromptQuiet
  OpenWhileHeld
PROPERTIES
  DeathsExplained
  CwdByOwnClient
  TreeSpec
SYMMETRY MCSymmetry
CHECK_DEADLOCK FALSE
