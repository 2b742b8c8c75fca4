\* Every kernel call, four user threads in two processes.
CONSTANTS
  k = k
  p1 = p1
  p2 = p2
  tk = tk
  t1 = t1
  t2 = t2
  t3 = t3
  t4 = t4
  Kernel = k
  KernelThread = tk
  Initd = p1
  NoThread = NoThread
  Proc = {k, p1, p2}
  Thread = {tk, t1, t2, t3, t4}
  MaxProcesses = 3
  MaxThreads = 4
  Calls = {"create", "duplicate", "sleep", "exit", "exit_thread", "terminate", "join", "detach"}
SPECIFICATION Spec
CHECK_DEADLOCK FALSE
SYMMETRY Symmetric
INVARIANTS ProcessPlacement SleepersCanBeWoken LiveCounts ReasonReachesSleeper JoinersNotStranded
PROPERTY FirstExitStatusKept
