SPECIFICATION FairSpec
CONSTANTS
  MSS = 2
  Threshold = 4
  SendCap = 6
  RecvCap = 7
  RwndMax = 4
  ISS = 3
  WriteSizes = {2}
  ReadSizes = {1}
  UndefinedGain = 50
  MaxBytes = 4
  MaxDup = 3
  NetCap = 1
  AckCap = 1
PROPERTY
  SentIsDelivered
