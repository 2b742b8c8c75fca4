\* Programs that set no alarms.
CONSTANTS
  k = k
  p1 = p1
  p2 = p2
  tk = tk
  t1 = t1
  t2 = t2
  t3 = t3
  t4 = t4
  Kernel = k
  KernelThread = tk
  Initd = p1
  NoThread = NoThread
  Proc = {k, p1, p2}
  Thread = {tk, t1, t2, t3}
  MaxProcesses = 3
  MaxThreads = 4
  Calls = {"create", "duplicate", "exit", "exit_thread", "terminate", "join", "detach"}
SPECIFICATION FairSpec
CHECK_DEADLOCK FALSE

INVARIANT NoUserModeAfterExit
PROPERTIES ReadyThreadsRun DoomedHarvested
