CONSTANTS
  None = None
  PortalNames = {dp, p1}
  StatementNames = {ds, s1}
  DefaultPortal = dp
  DefaultStatement = ds
  HasFactory = FALSE
  AllowAbort = FALSE
  MaxCancels = 0
SPECIFICATION Spec
INVARIANT OneReadyPerQuery
