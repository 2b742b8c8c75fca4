CONSTANTS
  v1 = v1
  v2 = v2
  Vm = {v1, v2}
  Tid = {1, 2}
  Plans <- MCPlans
  Parts = 2
  WorkerCap = 3
  MaxWorkers = 3
  None = None
SPECIFICATION FairSpec
CHECK_DEADLOCK FALSE
INVARIANTS WorkersOwned RepliesMatch CommandsOfOneCall
PROPERTIES  CallsAnswered
