SPECIFICATION FairSpec
CONSTANTS
  Conn <- FourConn
  Addr = {a, b}
  Listeners = 1
  MAX_UNAUTH_CLIENTS = 2
  MAX_UNAUTH_PER_IP = 1
  Descriptors = 5
  Failing = {"accept", "seedrandom", "pipe", "fork"}
  NoPipe = NoPipe
  NoAddr = NoAddr
INVARIANTS UnauthBounded SlotsExact
PROPERTIES RefusedOnlyAtLimit SlotFreed Answered
CHECK_DEADLOCK FALSE
