\* Bulk pulls and exceptions, while the host sends nothing else.
CONSTANTS
  k = k
  p1 = p1
  p2 = p2
  tk = tk
  t1 = t1
  t2 = t2
  t3 = t3
  Kernel = k
  KernelThread = tk
  Initd = p1
  NoThread = NoThread
  NoProc = NoProc
  Proc = {k, p1, p2}
  Thread = {tk, t1, t2}
  MaxProcesses = 3
  MaxThreads = 4
  Calls = {"terminate"}
  EventCalls = {"pull", "recv", "register", "unregister", "fault", "resume"}
  MaxIkcMessages = 1
  MaxMail = 1
  MaxWire = 1
SPECIFICATION EventFairSpec
CHECK_DEADLOCK FALSE
INVARIANT SleepersAreFound
 
