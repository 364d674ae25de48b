SPECIFICATION FairSpec
CONSTANTS
  Clients = {a, b}
  InitialNumbers = {10}
  DataOffsets = {0}
  MaxSyns = 2
PROPERTIES
  TakenUpIsSettled
  ConnectedIsAccepted
CHECK_DEADLOCK FALSE
