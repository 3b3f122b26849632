SPECIFICATION FairSpec
CONSTANTS
  BUFSIZE = 3
  MaxSize = 8
  UINT = 16
  hashFlag = TRUE
  MayCrash = TRUE
INVARIANTS
  TypeOK
  BytesConserved
  StopsAtSize
  MarksMatch
PROPERTIES
  DownloadEnds
CHECK_DEADLOCK FALSE
