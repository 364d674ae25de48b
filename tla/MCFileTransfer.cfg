SPECIFICATION FairSpec
CONSTANTS
  Requests <- FiveRequests
  Chunk = 4
  SendRoom = 10
  RecvRoom = 6
INVARIANTS
  FileTransferTypeOK
  FilesIntact
  InStep
PROPERTY
  SessionEnds
CHECK_DEADLOCK FALSE
