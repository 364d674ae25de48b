SPECIFICATION BehindSpec
CONSTANTS
  MSS = 3
  RecvCap = 8
  RwndMax = 5
  ISS = 3
  ReadSizes = {1, 3}
  MaxBytes = 10
  AckCap = 1
  Arrivals <- EverySegment
INVARIANTS
  ReceiverTypeOK
  InOrderDelivery
  ReadableBytesHeld
  SectionsHeld
  AcceptedDataFits
  WindowFitsBuffer
  GapDisarmsDelay
PROPERTY
  StaleOnlyByStraddling
