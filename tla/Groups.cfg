SPECIFICATION GroupFairSpec
CONSTANTS
  Users = {u1, u2, u3, u4}
  u1 = u1
  u2 = u2
  u3 = u3
  u4 = u4
  w1 = w1
  w2 = w2
  m1 = m1
  Owner = u1
  Workers = {w1, w2}
  Chats = {m1}
  GMax = 3
  Senders = {u1}
  MaxEvents = 2
INVARIANTS
  GroupIsSound
PROPERTIES
  AnsweredReachesMembers
CHECK_DEADLOCK FALSE
