\* Two processes with a connection each, one chat that is kept, with every fault.
CONSTANTS
  m1 = m1
  m2 = m2
  a1 = a1
  a2 = a2
  b1 = b1
  t1 = t1
  t2 = t2
  t3 = t3
  u = u
  v = v
  x = x
  y = y
  None = None
  Absent = Absent
  Fresh = Fresh
  Threads = {t1, t2, t3}
  Upstreams = {}
  To <- ToU
  Modules = {m1, m2}
  Conns = {a1, b1}
  Names = {u}
  Resources = {r}
  ModuleOf <- TwoModuleOf
  ThreadOf <- TwoThreadOf
  Msgs = {x}
  Kept = {x}
  Blocked = {}
  DbFaults = TRUE
  Lossy = {m1, m2}
  Xml = FALSE
SPECIFICATION Spec
INVARIANT TypeOK
PROPERTY ImplementsMailbox
CHECK_DEADLOCK FALSE
