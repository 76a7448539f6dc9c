CONSTANTS
  Conns = {c1, c2, c3}
  MaxCancels = 3
  AcceptMayFail = FALSE
SPECIFICATION Spec
INVARIANT CancelAlwaysWaits
