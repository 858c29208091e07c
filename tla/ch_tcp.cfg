SPECIFICATION FairSpec
CONSTANTS
  NoChannel = NoChannel
  TypeI = "tcp"
  TypeA = "tcp"
  RecvWindow <- Window3
  MaxPacket = 2
  TransMaxWindow = 1000
  MaxOut <- Out12
  MaxErr <- Err0
  Faults = {"connect", "write"}
INVARIANTS CreditConserved
PROPERTIES HalfClose EofDelivered ClosedIsRemoved
CHECK_DEADLOCK FALSE
