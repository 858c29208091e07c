SPECIFICATION Spec
CONSTANTS
  NoChannel = NoChannel
  TypeI = "stdpipes"
  TypeA = "pty"
  RecvWindow <- Window6
  MaxPacket = 4
  TransMaxWindow = 1000
  MaxOut <- Out06
  MaxErr <- Err0
  Faults = {"winch", "spawn"}
CHECK_DEADLOCK FALSE
INVARIANTS StatusBeforeClose NothingAfterClose WindowAccounted SenderNotStarved
