\* One message, three connections, BYTE, under fairness.
CONSTANTS
  Msgs = {x}
  MaxConns = 3
  MaxAlive = 1
  MaxSpoilt = 1
  Xml = FALSE
  LoginFails = TRUE
SPECIFICATION FairSpec
INVARIANT LostWithItsConnection
PROPERTY OpenIsLoggedIn
CHECK_DEADLOCK FALSE
