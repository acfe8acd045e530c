SPECIFICATION Spec
CONSTANTS
  r1 = r1 r2 = r2 r3 = r3
  v1 = v1
  None = None
  Requests = {r1, r2, r3}
  Reviews = {v1}
  Debounces = {2}
  Sizes = {1, 2}
  Locals = {}
  MaxBatchWait = 2
  MaxBatchRequests = 2
  MaxBatchBytes = 3
  MaxAge = 3
  MaxRetries = 1
  Backoff = 1
  MaxSkew = 0
  MaxClock = 3
  MaxFaults = 2
INVARIANTS
  OnePending
  NoHalfBatchClaimed
  OneOpenBatch
PROPERTY
  ImplementsCommentBatches
SYMMETRY AdmissionSymmetry
