SPECIFICATION FairSpec
CONSTANTS
  NoKeys = NoKeys
  NoContext = NoContext
  NoParam = NoParam
  Compress = FALSE
  PrivKeys <- TwoKeys
  Authorized = {}
  PasswordAuth = TRUE
  Users = {"u"}
  ValidUsers = {"u"}
  MAX_AUTH_TRIES = 2
  MaxRekey <- OneEach
  MaxRequests <- NoneEach
PROPERTIES ExchangeCompletes AllDelivered AuthEnds
CHECK_DEADLOCK FALSE
