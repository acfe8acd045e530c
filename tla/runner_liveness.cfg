\* One process with a retry, which may crash or stop. Liveness needs every deadline
\* to fall inside the horizon: LastEnqueue + MaxAge + MaxSkew + Lease <= MaxClock,
\* and a token for every claim: (MaxRetries + 1) * Cardinality(Jobs) + MaxFaults.
SPECIFICATION FairSpec
CONSTANTS
  Jobs = {j1}
  Tokens = {t1, t2, t3}
  Workers = {w1}
  None = None
  Lease = 2
  MaxAge = 1
  MaxRetries = 1
  ExpireLimit = 1
  OrphanLimit = 1
  Backoff = 0
  MaxDebounce = 0
  MaxSkew = 0
  MaxClock = 4
  LastEnqueue = 0
  MaxFaults = 1
PROPERTIES
  EveryJobSettles
  EveryRunEnds
