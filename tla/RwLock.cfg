\* Four threads, one of which takes the lock twice; the calls of one may fail.
CONSTANTS
  u1 = u1
  u2 = u2
  u3 = u3
  u4 = u4
  None = None
  Thread = {u1, u2, u3, u4}
  MaxLocks <- MCMaxLocks
  Unlucky = {u3}
SPECIFICATION Spec
CHECK_DEADLOCK FALSE
 
PROPERTIES ImplementsSharedLock EveryCallReturns
