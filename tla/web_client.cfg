SPECIFICATION Spec
CONSTANTS
  Users = {u1, u2}
  Queries <- SmallQueries
  Tours <- SmallTours
  MaxWrites = 1
  NoUser = NoUser
  NoData = NoData
  NoFetch = NoFetch
  NoMutation = NoMutation
INVARIANT TypeOK
INVARIANT AfterLogoutNothingIsLeft
INVARIANT ReadYourWrites
SYMMETRY UserSymmetry
