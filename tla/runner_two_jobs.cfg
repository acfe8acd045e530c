\* Two processes compete for two jobs; a crash or a stop; no retries.
SPECIFICATION Spec
CONSTANTS
  Jobs = {j1, j2}
  Tokens = {t1, t2, t3}
  Workers = {w1, w2}
  None = None
  Lease = 2
  MaxAge = 3
  MaxRetries = 0
  ExpireLimit = 1
  OrphanLimit = 1
  Backoff = 0
  MaxDebounce = 0
  MaxSkew = 1
  MaxClock = 4
  LastEnqueue = 0
  MaxFaults = 1
SYMMETRY Symmetry
INVARIANTS
  RunnerTypeOK
  OneActiveReview
  ExclusiveAttempt
PROPERTIES
  ImplementsReviewQueue
