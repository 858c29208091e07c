SPECIFICATION Spec
CONSTANTS
  KEEPALIVE = 2
  KEEPALIVE_LIMIT = 3
  IDLE_TIMEOUT = 5
  AUTH_TIMEOUT = 4
  KEX_REKEY_TIMEOUT = 9
INVARIANTS SendGap DeadPeerNoticed PeerWasAsked IdleNoticed NotIdle AuthInTime
CHECK_DEADLOCK FALSE
