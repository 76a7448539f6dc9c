CONSTANTS
  None = None
  PortalNames = {dp, p1}
  StatementNames = {ds, s1}
  DefaultPortal = dp
  DefaultStatement = ds
  HasFactory = TRUE
  AllowAbort = FALSE
  MaxCancels = 0
SPECIFICATION Spec
INVARIANT SessionClosed
