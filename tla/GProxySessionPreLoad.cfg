CONSTANTS
  MaxPackets = 2
  MaxClientPackets = 2
  MaxConns = 2
  MaxAcks = 1
  PreLoadAtRisk = TRUE
SPECIFICATION Spec
INVARIANTS
  ClientStreamInOrder
CHECK_DEADLOCK FALSE
