SPECIFICATION Spec
CONSTANTS
  Identifiers = {a}
  Codes = {x, y}
  Requests = {p, q}
  MaxAttempts = 3
  MaxOtps = 2
  NoCode = NoCode
  NoRequest = NoRequest
INVARIANT TypeOK
INVARIANT OldCodesAreRefused
PROPERTY GuessesEnd
PROPERTY ImplementsOneTimeCodes
