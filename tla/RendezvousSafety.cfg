\* Two processes, one of which may create a second thread.
CONSTANTS
  k = k
  p1 = p1
  p2 = p2
  tk = tk
  t1 = t1
  t2 = t2
  t3 = t3
  Kernel = k
  KernelThread = tk
  Initd = p1
  NoThread = NoThread
  Proc = {k, p1, p2}
  Thread = {tk, t1, t2, t3}
  MaxProcesses = 3
  MaxThreads = 4
  Lengths = {0, 1}
  Buffers = {TRUE, FALSE}
  Peers <- ThreePeers
  Calls = {"create", "exit", "exit_thread", "terminate"}
SPECIFICATION IpcSpec
CHECK_DEADLOCK FALSE
INVARIANTS MeetingsTracked PullCountExact
 
