SPECIFICATION CircuitSpec
CONSTANTS
  Calls = {c, d, e}
  FailureThreshold = 5
  SuccessThreshold = 3
INVARIANT CircuitTypeOK
INVARIANT OpenCanRecover
PROPERTY OpenForOneTimeout
PROPERTY Recovers
PROPERTY Protects
