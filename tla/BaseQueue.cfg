\* Four items of two priorities, two threads that take, under fairness.
CONSTANTS
  i1 = i1
  i2 = i2
  i3 = i3
  i4 = i4
  Items = {i1, i2, i3, i4}
  Threads = {t1, t2}
  Prios = {0, 1}
  PrioOf <- MCPrioOf
SPECIFICATION FairSpec
INVARIANT NoneSleepsOverWork
PROPERTIES InOrder PutIsTaken
CHECK_DEADLOCK FALSE
