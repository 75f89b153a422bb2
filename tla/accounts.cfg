SPECIFICATION Spec
CONSTANTS
  Users = {a, b}
  Emails = {x, y}
  lower = x
  LowerCase <- Lowered
  Roles = {"ADMIN", "CUSTOMER"}
  Statuses = {"ACTIVE", "SUSPENDED"}
  Patches <- OneFieldEach
  Requests = {p, q}
  NoUser = NoUser
  NoRequest = NoRequest
  Same = Same
SYMMETRY Symmetric
INVARIANT TypeOK
INVARIANT ActsAreAuthorized
INVARIANT AddressesDiffer
CHECK_DEADLOCK FALSE
