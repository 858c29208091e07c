SPECIFICATION FairSpec
CONSTANTS
  Conv <- ThreeConv
  AcceptedBy <- FromC12
  MAX_CHANNELS = 2
  CHAN_EXTEND_SIZE = 1
  Failing = {"S"}
  MaxData <- DataC1
  MaxKeepalives <- OnlyS
  NoChan = NoChan
INVARIANT OwnChannel
PROPERTIES IsConversations SlotsReturn
CHECK_DEADLOCK FALSE
