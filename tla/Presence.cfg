\* Two processes, statements that fail, IM_CLOSE lost on the way to one, under fairness.
CONSTANTS
  m1 = m1
  m2 = m2
  a1 = a1
  a2 = a2
  b1 = b1
  t1 = t1
  t2 = t2
  t3 = t3
  Conns = {a1, a2, b1}
  Threads = {t1, t2, t3}
  None = None
  Absent = Absent
  Fresh = Fresh
  Modules = {m1, m2}
  Names = {u}
  Upstreams = {}
  Resources = {r}
  ModuleOf <- MCModuleOf
  ThreadOf <- MCThreadOf
  DbFaults = TRUE
  Lossy = {m2}
  Xml = TRUE
SPECIFICATION FairSpec
INVARIANTS MapsAgree SupersededIsClosing SessionHasOnlineRow
PROPERTIES EvictedByItsOwnClose ImplementsSessions SupersededGoes CloseReaches
CHECK_DEADLOCK FALSE
