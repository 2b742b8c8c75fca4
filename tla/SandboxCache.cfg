\* Two requests that race for the daemons of two tenants, a client that hangs up, and a shutdown.
SPECIFICATION Spec
CONSTANTS
  t1 = t1
  t2 = t2
  r1 = r1
  r2 = r2
  None = None
  Tenant = {t1, t2}
  Request = {r1, r2}
  Wants <- MCWants
  MaxDaemons = 2
  Impatient = {r1}
  MaxHandlers = 2
  MaxEarly = 1
  MaxReady = 1
CHECK_DEADLOCK FALSE
INVARIANTS OneDaemonPerTenant AcceptorExact ReadyReachesItsVm
PROPERTY CacheCallsReturn
