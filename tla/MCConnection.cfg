SPECIFICATION Spec
CONSTANTS
  MSS = 2
  Threshold = 4
  SendCap = 4
  RecvCap = 5
  RwndMax = 4
  ISS = 3
  WriteSizes = {1, 2}
  ReadSizes = {3}
  UndefinedGain = 50
  MaxBytes = 5
  MaxDup = 3
  NetCap = 1
  AckCap = 1
INVARIANTS
  EndsAgree
  FlowControlled
  UnreceivedBytesKept
PROPERTY
  StreamSpec
