SPECIFICATION Spec
CONSTANTS
  m1 = m1
  m2 = m2
  Chats <- TwoChats
  TryLimit = 0
  MaxConns = 1
  MaxEvents = 1
INVARIANT UnackedChatFails
CHECK_DEADLOCK FALSE
