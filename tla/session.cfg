SPECIFICATION Spec
CONSTANTS
  NoKeys = NoKeys
  NoContext = NoContext
  NoParam = NoParam
  Compress = TRUE
  PrivKeys <- TwoKeys
  Authorized = {"k2"}
  PasswordAuth = TRUE
  Users = {"u"}
  ValidUsers = {"u"}
  MAX_AUTH_TRIES = 2
  MaxRekey <- OneEach
  MaxRequests <- TwoEach
INVARIANTS KeysAgree CompressionAgrees NoProtocolExit InOrder QuietExchange
PROPERTIES FreshKeys AuthenticatedByProof
CHECK_DEADLOCK FALSE
