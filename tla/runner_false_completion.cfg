\* One process whose attempt completes its run but not its job.
SPECIFICATION Spec
CONSTANTS
  Jobs = {j1}
  Tokens = {t1, t2, t3}
  Workers = {w1}
  None = None
  Lease = 2
  MaxAge = 3
  MaxRetries = 1
  ExpireLimit = 1
  OrphanLimit = 1
  Backoff = 0
  MaxDebounce = 0
  MaxSkew = 0
  MaxClock = 5
  LastEnqueue = 0
  MaxFaults = 1

INVARIANT NoLingeringFalseCompletion

