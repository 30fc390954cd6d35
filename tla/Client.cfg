SPECIFICATION FairSpec
CONSTANTS
  m1 = m1
  m2 = m2
  Chats <- TwoChats
  TryLimit = 0
  MaxConns = 2
  MaxEvents = 2
INVARIANTS
  AckedWasTaken
  OneVerdict
  SilentOnlyWithoutConnection
PROPERTIES
  Reconnects
  AwaitedIsSettled
CHECK_DEADLOCK FALSE
