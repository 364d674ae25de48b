SPECIFICATION FairSpec
CONSTANTS
  Requests <- FiveRequests
  Chunk = 4
  SendRoom = 10
  RecvRoom = 6
PROPERTY
  SessionFinishes
CHECK_DEADLOCK FALSE
