SPECIFICATION FairSpec
CONSTANTS
  NoChannel = NoChannel
  TypeI = "stdpipes"
  TypeA = "pipes"
  RecvWindow <- Window12
  MaxPacket = 2
  TransMaxWindow = 1000
  MaxOut <- Out12
  MaxErr <- Err1
  Faults = {}
INVARIANTS NoFatalExit
PROPERTIES OutputFlushed InputDrained SessionEnds
CHECK_DEADLOCK FALSE
