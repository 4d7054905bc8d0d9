SPECIFICATION RSpec
CONSTANTS
  Forces = {f1, f2}
  Categories = {electric, tesla}
  Nil = Nil
  Limit = 3
  MaxCompleted = 3
  MaxQueue = 2
SYMMETRY Permutable
CHECK_DEADLOCK FALSE
INVARIANTS GunTypeOK PaidKept PendingHeard PendingQueued RefusedForCause
