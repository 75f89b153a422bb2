SPECIFICATION Spec
CONSTANTS
  Customers = {c1, c2}
  Ids = {d1, d2}
  Requests = {r1, r2}
  NoReview = NoReview
  NoRequest = NoRequest
INVARIANT TypeOK
INVARIANT OneReviewEach
INVARIANT PublishedWereApproved
PROPERTY RejectionsStand
