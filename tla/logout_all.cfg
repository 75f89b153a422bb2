SPECIFICATION Spec
CONSTANTS
  Users = {u}
  Passwords = {x}
  Tokens = {s, t}
  Requests = {p}
  Limit = 2
  NoUser = NoUser
  NoToken = NoToken
  NoPassword = NoPassword
  NoRequest = NoRequest
PROPERTY LogoutAllRevokes
