\* Tables that hold one mutex and one condition variable, for two of each.
CONSTANTS
  k = k
  p1 = p1
  p2 = p2
  tk = tk
  t1 = t1
  t2 = t2
  t3 = t3
  Kernel = k
  KernelThread = tk
  Initd = p1
  NoThread = NoThread
  NoObject = NoObject
  Proc = {k, p1}
  Thread = {tk, t1, t2, t3}
  MaxProcesses = 3
  MaxThreads = 4
  Calls = {"create", "sleep", "exit", "exit_thread"}
  Mutexes = {"m", "n"}
  Conds = {"c", "d"}
  Object = {1, 2, 3, 4, 5, 6}
  MutexOpenMax = 1
  CondOpenMax = 1
  Timeouts = {TRUE, FALSE}
SPECIFICATION SyncSpec
CHECK_DEADLOCK FALSE
SYMMETRY Symmetric
INVARIANTS MutualExclusion WaitersCanBeSignalled
