\* One process, two connections, two users, one chat that is kept, under fairness.
CONSTANTS
  m1 = m1
  m2 = m2
  a1 = a1
  a2 = a2
  b1 = b1
  t1 = t1
  t2 = t2
  t3 = t3
  u = u
  v = v
  x = x
  y = y
  None = None
  Absent = Absent
  Fresh = Fresh
  Threads = {t1, t2, t3}
  Upstreams = {}
  To <- ToU
  Modules = {m1}
  Conns = {a1, a2}
  Names = {u, v}
  Resources = {r}
  ModuleOf <- OneModuleOf
  ThreadOf <- OwnThreadOf
  Msgs = {x}
  Kept = {x}
  Blocked = {}
  DbFaults = FALSE
  Lossy = {}
  Xml = FALSE
SPECIFICATION FairSpec
INVARIANTS PushedToItsUser OnlineRowIsServed
PROPERTIES NoticeReachesClient ReceivedIsSettled
CHECK_DEADLOCK FALSE
