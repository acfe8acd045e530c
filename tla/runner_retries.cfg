\* Two processes, one job with a retry and a backoff, stale clocks, one fault.
SPECIFICATION Spec
CONSTANTS
  Jobs = {j1}
  Tokens = {t1, t2, t3}
  Workers = {w1, w2}
  None = None
  Lease = 2
  MaxAge = 3
  MaxRetries = 1
  ExpireLimit = 1
  OrphanLimit = 1
  Backoff = 1
  MaxDebounce = 1
  MaxSkew = 1
  MaxClock = 5
  LastEnqueue = 0
  MaxFaults = 1
SYMMETRY Symmetry
INVARIANTS
  CompletedJobHasCompletedRun
  RetriesAccounted
PROPERTIES
  TerminalIsFinal
