SPECIFICATION Spec
CONSTANTS
  Users = {u}
  Passwords = {x, y}
  Tokens = {t}
  Requests = {p, q}
  Limit = 2
  NoUser = NoUser
  NoToken = NoToken
  NoPassword = NoPassword
  NoRequest = NoRequest
INVARIANT TypeOK
INVARIANT GrantsAreJustified
INVARIANT OneRegistration
INVARIANT GrantedTokensAreSpent
INVARIANT AttemptsLimited
PROPERTY LockoutEnds
