SPECIFICATION Spec
CONSTANTS
  Keys = {k}
  Bodies = {x, y}
  Requests = {p, q, r}
  NoRecord = NoRecord
  NoRequest = NoRequest
  NoResponse = NoResponse
INVARIANT TypeOK
INVARIANT OwnerKeepsItsRecord
INVARIANT ReplaysAreFaithful
INVARIANT RetriesAreReplayed
