CONSTANTS
  None = None
  PortalNames = {dp, p1}
  StatementNames = {ds, s1}
  DefaultPortal = dp
  DefaultStatement = ds
  HasFactory = TRUE
  AllowAbort = TRUE
  MaxCancels = 0
SPECIFICATION Spec
INVARIANTS
  TypeOK
  StoresAgree
  PortalHasStatement
  StatementOutlivesPortals
  CallsAreLegal
  MapsMirrorPython
  ReleasedBeforeSession
  NoPortalAcrossIdle
  EndClosesPortals
  RequestsAnswered
  TransactionIsOpen
