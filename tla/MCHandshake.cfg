SPECIFICATION Spec
CONSTANTS
  Clients = {a, b}
  InitialNumbers = {10, 20}
  DataOffsets = {0}
  MaxSyns = 2
SYMMETRY Symmetry
INVARIANTS
  HandshakeTypeOK
  OneHandshake
  NumbersAgree
  AcceptedAreOpen
  ConnectedHaveLink
  TimersOfHandshake
PROPERTY
  AcceptedSurvive
CHECK_DEADLOCK FALSE
