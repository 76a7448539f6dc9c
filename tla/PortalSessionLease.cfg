CONSTANTS
  None = None
  PortalNames = {dp, p1}
  StatementNames = {ds}
  DefaultPortal = dp
  DefaultStatement = ds
  HasFactory = FALSE
  AllowAbort = FALSE
  MaxCancels = 1
SPECIFICATION FairSpec
INVARIANTS
  CallsAreLegal
  MapsMirrorPython
  ReleasedBeforeSession
PROPERTIES
  StopCompletes
  ImplementsLease
  FollowsPhases
