SPECIFICATION Spec
CONSTANTS
  Keys = {k}
  Bodies = {x}
  Requests = {p}
  NoRecord = NoRecord
  NoRequest = NoRequest
  NoResponse = NoResponse
PROPERTY KeysAreReleased
