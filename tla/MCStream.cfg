SPECIFICATION Spec
CONSTANTS
  MSS = 8
  Threshold = 12
  SendCap = 12
  RecvCap = 17
  RwndMax = 8
  ISS = 3
  WriteSizes = {1}
  ReadSizes = {6}
  UndefinedGain = 50
  MaxBytes = 8
  MaxDup = 2
  NetCap = 2
  AckCap = 0
PROPERTY
  StreamSpec
CHECK_DEADLOCK FALSE
