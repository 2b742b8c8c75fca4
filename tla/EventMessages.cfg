\* Messages of threads and of the host, and processes that end.
CONSTANTS
  k = k
  p1 = p1
  p2 = p2
  tk = tk
  t1 = t1
  t2 = t2
  t3 = t3
  Kernel = k
  KernelThread = tk
  Initd = p1
  NoThread = NoThread
  NoProc = NoProc
  Proc = {k, p1, p2}
  Thread = {tk, t1, t2, t3}
  MaxProcesses = 3
  MaxThreads = 4
  Calls = {"create", "exit"}
  EventCalls = {"send", "recv", "register", "host"}
  MaxIkcMessages = 2
  MaxMail = 2
  MaxWire = 1
SPECIFICATION EventSpec
CHECK_DEADLOCK FALSE
SYMMETRY Symmetric
INVARIANTS RecvMissesNothing CountNeverUnderflows
