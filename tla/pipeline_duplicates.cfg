SPECIFICATION Spec
CONSTANTS
  f1 = f1 f2 = f2 f3 = f3 r1 = r1 r2 = r2
  None = None
  Inline = {f1, f3}
  Issue = {f2}
  Replies = {r1, r2}
  Plans <- MCPlans
  Results <- MCResults
  Modes = {"batch"}
  Hosts = {"gitlab"}
  MaxRetries = 2
  MaxHead = 1
INVARIANT
  NothingTwice
CHECK_DEADLOCK FALSE
