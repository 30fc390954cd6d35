\* Two processes with a connection each, a chat that is deleted once it is read and a
\* blocked one, no faults but crashes.
CONSTANTS
  m1 = m1
  m2 = m2
  a1 = a1
  a2 = a2
  b1 = b1
  t1 = t1
  t2 = t2
  t3 = t3
  u = u
  v = v
  x = x
  y = y
  None = None
  Absent = Absent
  Fresh = Fresh
  Threads = {t1, t2, t3}
  Upstreams = {}
  To <- ToU
  Modules = {m1, m2}
  Conns = {a1, b1}
  Names = {u}
  Resources = {r}
  ModuleOf <- TwoModuleOf
  ThreadOf <- TwoThreadOf
  Msgs = {x, y}
  Kept = {}
  Blocked = {y}
  DbFaults = FALSE
  Lossy = {}
  Xml = FALSE
SPECIFICATION Spec
INVARIANTS NoMissedWakeup UnansweredWasReceived
CHECK_DEADLOCK FALSE
