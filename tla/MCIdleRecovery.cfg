SPECIFICATION Spec
CONSTANTS
  MSS = 2
  Threshold = 6
  SendCap = 5
  RwndMax = 8
  ISS = 3
  WriteSizes = {1, 3}
  Windows = {0, 2, 3, 8}
  UndefinedGain = 50
  MaxBytes = 7
  MaxDup = 5
  NetCap = 1
INVARIANT
  RecoveryMeansLoss
CHECK_DEADLOCK FALSE
