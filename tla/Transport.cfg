\* One fd, two connections one after the other, a send that lasts up to four passes,
\* under fairness.
CONSTANTS
  f1 = f1
  r1 = r1
  s1 = s1
  w1 = w1
  None = None
  Fds = {f1}
  ReadThreads = {r1}
  SendThreads = {s1}
  WorkThreads = {w1}
  ReadThreadOf <- OneReader
  SendThreadOf <- OneSender
  WorkThreadOf <- OneWorker
  MaxAddrs = 2
  MaxMsgs = 2
  MaxSends = 1
  SendPasses = 4
SPECIFICATION FairSpec
INVARIANTS TypeOK NoMisdirectedSend
PROPERTIES ImplementsConnEvents FlaggedIsFreed AskedToClose ClosedForAReason
CHECK_DEADLOCK FALSE
