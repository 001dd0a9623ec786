CONSTANTS
  MaxPackets = 4
  MaxClientPackets = 2
  MaxConns = 3
  MaxAcks = 1
  PreLoadAtRisk = FALSE
SPECIFICATION FairSpec
INVARIANTS
  TypeOK
  ClientStreamInOrder
  ServerStreamInOrder
  NothingUnackedDropped
PROPERTIES
  DownSpec
  UpSpec
  EveryPacketArrives
CHECK_DEADLOCK FALSE
