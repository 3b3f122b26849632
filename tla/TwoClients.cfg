SPECIFICATION Spec
CONSTANTS
  alice = alice
  bob = bob
  p1 = p1
  p2 = p2
  p3 = p3
  p4 = p4
  p5 = p5
  p6 = p6
  home = home
  pub = pub
  NoConn = NoConn
  Clients = {alice, bob}
  MaxConn = 3
  Cap = 1
  Dirs = {home, pub}
  Home = home
  Sizes = {2}
  Wrapped = 4
  NoFile <- MCNoFile
  Procs = {p1, p2, p3, p4, p5}
  Root = p1
  Lines = {2}
  Faults = {}
  Typed = {"open", "quit", "ftp", "leave", "rcd", "get", "put", "rls"}
  MaxCmds = 4
INVARIANTS
  AnswersInOrder
  ControlApart
  DataApart
SYMMETRY MCSymmetry
CHECK_DEADLOCK FALSE
