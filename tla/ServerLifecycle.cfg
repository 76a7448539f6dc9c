CONSTANTS
  Conns = {c1, c2, c3}
  MaxCancels = 3
  AcceptMayFail = TRUE
SPECIFICATION FairSpec
INVARIANTS
  TypeOK
  CancelWaits
PROPERTIES
  CancelEnds
  AllReleased
