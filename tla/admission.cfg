SPECIFICATION Spec
CONSTANTS
  r1 = r1 r2 = r2 r3 = r3
  v1 = v1 v2 = v2
  None = None
  Requests = {r1, r2, r3}
  Reviews = {v1, v2}
  Debounces = {2}
  Sizes = {1, 2}
  Locals = {r1}
  MaxBatchWait = 2
  MaxBatchRequests = 3
  MaxBatchBytes = 3
  MaxAge = 1
  MaxRetries = 1
  Backoff = 1
  MaxSkew = 1
  MaxClock = 2
INVARIANTS
  RowsTypeOK
  BatchLimits
  AdmittedHasJob
  WaitLimit
PROPERTY
  ImplementsCommentBatches
SYMMETRY AdmissionSymmetry
CHECK_DEADLOCK FALSE
