SPECIFICATION FairSpec
CONSTANTS
  s1 = s1
  s2 = s2
  Sessions = {s1, s2}
  Shapes <- MCShapes
  Block = 2
  Width = 3
  MaxLists = 2
  Absent = Absent
INVARIANTS
  AloneExact
  Forward
PROPERTIES
  ListsEnd
CHECK_DEADLOCK FALSE
