CONSTANTS
  None = None
  EndPoint = EndPoint
SPECIFICATION Spec
INVARIANTS
  TypeOK
  CancelKeys
  ReadyIsProved
  NoDowngrade
  MockFailsAlike
  OneGuess
  AuthorizedBeforeReady
  OneSession
  TlsBeforeAuth
  ResourcesInstalled
