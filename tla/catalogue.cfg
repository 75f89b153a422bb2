SPECIFICATION Spec
CONSTANTS
  Banquets = {b1}
  Requests = {r1, r2}
  NoBanquet = NoBanquet
  NoResult = NoResult
  NoRequest = NoRequest
INVARIANT TypeOK
INVARIANT LogAccounts
PROPERTY StaleResultsEnd
