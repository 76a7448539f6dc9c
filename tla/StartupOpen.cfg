CONSTANTS
  None = None
  EndPoint = EndPoint
SPECIFICATION Spec
INVARIANT OpenBeforeReady
