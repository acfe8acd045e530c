SPECIFICATION FairSpec
CONSTANTS
  r1 = r1 r2 = r2
  v1 = v1
  None = None
  Requests = {r1, r2}
  Reviews = {v1}
  Debounces = {1}
  Sizes = {1}
  Locals = {r1}
  MaxBatchWait = 2
  MaxBatchRequests = 2
  MaxBatchBytes = 3
  MaxAge = 1
  MaxRetries = 1
  Backoff = 0
  MaxSkew = 0
  MaxClock = 1
  MaxFaults = 1
PROPERTY
  SavedIsAdmitted
