---------------------------- MODULE ReviewsProofs ----------------------------
(***************************************************************************)
(* Theorems about Reviews, for any customers, identifiers and number of    *)
(* requests served at the same time.                                       *)
(***************************************************************************)
EXTENDS Reviews, TLAPS

-----------------------------------------------------------------------------
(* Types.  TypeOK is inductive once it says which request is at which step *)
(* and that the status of an edit's copy allowed it.                       *)

Steps == {"idle", "existing", "insert", "log", "find", "save"}

StoreTyped == reviews \in [Ids -> Review \cup {NoReview}]

SlotsTyped ==
  /\ pc \in [Requests -> Steps]
  /\ request \in [Requests -> Request \cup {NoRequest}]
  /\ copy \in [Requests -> Copy \cup {NoReview}]

SlotTyped(r) ==
  /\ request[r] = NoRequest <=> pc[r] = "idle"
  /\ copy[r] # NoReview <=> pc[r] \in {"log", "save"}
  /\ copy[r] # NoReview => Exists(copy[r].id)
  /\ pc[r] \in {"existing", "insert"} => request[r].op = "create"
  /\ pc[r] = "find" => request[r].op # "create"

Typed == StoreTyped /\ SlotsTyped /\ \A r \in Requests : SlotTyped(r)

LEMMA TypedIsTypeOK == Typed => TypeOK
  BY DEF Typed, TypeOK, StoreTyped, SlotsTyped, SlotTyped, Steps, Exists

LEMMA ReviewFields ==
  ASSUME StoreTyped, NEW d \in Ids, Exists(d)
  PROVE  reviews[d] \in Review
  BY DEF StoreTyped, Exists

LEMMA CopyFields ==
  ASSUME Typed, NEW r \in Requests, copy[r] # NoReview
  PROVE  /\ copy[r] \in Copy /\ copy[r].id \in Ids /\ copy[r].status \in ModerationStatus
         /\ copy[r].stale \in BOOLEAN /\ copy[r].passed \in BOOLEAN
         /\ Exists(copy[r].id) /\ reviews[copy[r].id] \in Review
  BY ReviewFields DEF Typed, SlotsTyped, SlotTyped, Copy

LEMMA RequestFields ==
  ASSUME Typed, NEW r \in Requests, pc[r] # "idle"
  PROVE  /\ request[r] \in Request
         /\ request[r].op = "create" => request[r].by \in Customers
         /\ request[r].op # "create" => request[r].id \in Ids
  BY DEF Typed, SlotsTyped, SlotTyped, Request

\* A request that ends leaves what the others have as it is.
LEMMA FinishTyped ==
  ASSUME Typed, NEW r \in Requests, Finish(r), UNCHANGED reviews
  PROVE  Typed'
  <1>1. StoreTyped' /\ SlotsTyped'
    BY DEF Finish, Reset, Typed, StoreTyped, SlotsTyped, Steps
  <1>2. ASSUME NEW x \in Requests PROVE SlotTyped(x)'
    BY DEF Finish, Reset, Typed, SlotsTyped, SlotTyped, Exists
  <1>3. QED
    BY <1>1, <1>2 DEF Typed

\* What a save does to the copies: its own is gone, the others of the review learn of
\* it, and nothing else of them changes.
LEMMA SavedCopies ==
  ASSUME Typed, NEW r \in Requests, NEW written, Save(r, written), copy[r] # NoReview
  PROVE  /\ copy' \in [Requests -> Copy \cup {NoReview}]
         /\ \A x \in Requests :
              /\ copy'[x] # NoReview <=> x # r /\ copy[x] # NoReview
              /\ copy'[x] # NoReview =>
                   /\ copy'[x].id = copy[x].id /\ copy'[x].status = copy[x].status
                   /\ copy[x].passed => copy'[x].passed
                   /\ copy[x].id = copy[r].id /\ request[r].op = "approve" => copy'[x].passed
  <1> DEFINE Marked(x) == [copy[x] EXCEPT !.stale = TRUE, !.passed = @ \/ request[r].op = "approve"]
  <1>1. copy' = [x \in Requests |->
          IF x = r THEN NoReview
          ELSE IF copy[x] # NoReview /\ copy[x].id = copy[r].id THEN Marked(x) ELSE copy[x]]
    BY DEF Save
  <1>2. ASSUME NEW x \in Requests, copy[x] # NoReview
        PROVE  /\ Marked(x) \in Copy
               /\ Marked(x).id = copy[x].id /\ Marked(x).status = copy[x].status
               /\ Marked(x).passed = (copy[x].passed \/ request[r].op = "approve")
    <2>1. copy[x] \in Copy
      BY <1>2 DEF Typed, SlotsTyped
    <2>2. QED
      BY <2>1 DEF Copy
  <1> HIDE DEF Marked
  <1>3. \A x \in Requests : copy[x] # NoReview => Marked(x) # NoReview
    BY <1>2, ReviewsAssumptions
  <1>4. QED
    BY <1>1, <1>2, <1>3 DEF Typed, SlotsTyped

\* What it does to the store.
LEMMA SavedReviews ==
  ASSUME Typed, NEW r \in Requests, NEW written \in Review, Save(r, written),
         copy[r] # NoReview
  PROVE  /\ StoreTyped'
         /\ reviews'[copy[r].id] = written
         /\ \A d \in Ids : d # copy[r].id => reviews'[d] = reviews[d]
         /\ \A d \in Ids : Exists(d)' <=> Exists(d)
  <1>1. copy[r].id \in Ids /\ Exists(copy[r].id) /\ written # NoReview
    BY CopyFields, ReviewsAssumptions
  <1>2. reviews' = [reviews EXCEPT ![copy[r].id] = written]
    BY DEF Save
  <1>3. QED
    BY <1>1, <1>2 DEF Typed, StoreTyped, Exists

LEMMA SaveTyped ==
  ASSUME Typed, NEW r \in Requests, NEW written \in Review, Save(r, written),
         copy[r] # NoReview
  PROVE  Typed'
  <1>1. StoreTyped'
    BY SavedReviews
  <1>2. Reset(r)
    BY DEF Save
  <1>3. SlotsTyped'
    BY <1>2, SavedCopies DEF Reset, Typed, SlotsTyped, Steps
  <1>4. ASSUME NEW x \in Requests PROVE SlotTyped(x)'
    <2>1. copy'[x] # NoReview => reviews'[copy'[x].id] # NoReview
      <3>1. copy'[x] # NoReview => copy[x] # NoReview /\ copy'[x].id = copy[x].id
        BY SavedCopies
      <3>2. \A d \in Ids : reviews'[d] # NoReview <=> reviews[d] # NoReview
        BY SavedReviews DEF Exists
      <3>3. copy[x] # NoReview => copy[x].id \in Ids /\ reviews[copy[x].id] # NoReview
        BY CopyFields DEF Exists
      <3>4. QED
        BY <3>1, <3>2, <3>3
    <2>2. copy'[x] # NoReview <=> pc'[x] \in {"log", "save"}
      BY <1>2, SavedCopies DEF Reset, Typed, SlotsTyped, SlotTyped
    <2>3. IF x = r THEN pc'[x] = "idle" /\ request'[x] = NoRequest
                   ELSE pc'[x] = pc[x] /\ request'[x] = request[x]
      BY <1>2 DEF Reset, Typed, SlotsTyped
    <2>4. SlotTyped(x)
      BY DEF Typed
    <2>5. QED
      BY <2>1, <2>2, <2>3, <2>4 DEF SlotTyped, Exists
  <1>5. QED
    BY <1>1, <1>3, <1>4 DEF Typed

-----------------------------------------------------------------------------
(* What each save writes.                                                  *)

\* The review with the status of the save, as the operation has it.
LEMMA StatusAfterTyped ==
  ASSUME Typed, NEW r \in Requests, copy[r] # NoReview, NEW status \in ModerationStatus
  PROVE  StatusAfter(r, status) \in ModerationStatus
  BY CopyFields DEF StatusAfter, Review

\* A review that somebody saves: its author stays, and nothing of it is taken back but
\* by an edit, which says whether it missed an approval.
Written(r, written) ==
  LET old == reviews[copy[r].id] IN
  /\ written \in Review
  /\ written.author = old.author
  /\ old.approved => written.approved
  /\ \/ written.status \in {old.status, "REJECTED"} /\ written.vetted = old.vetted
     \/ /\ request[r].op = "approve" /\ written.vetted /\ written.approved
        /\ written.status \in {old.status, "APPROVED"}
     \/ /\ request[r].op = "update" /\ written.vetted = copy[r].passed
        /\ written.status = EditedStatus(r) /\ written.approved = old.approved

LEMMA SavesWrite ==
  ASSUME Typed, NEW r \in Requests,
         LogCreated(r) \/ SaveUpdate(r) \/ SaveDelete(r) \/ SaveApproval(r) \/ SaveRejection(r)
  PROVE  /\ copy[r] # NoReview
         /\ \E written \in Review : Save(r, written) /\ Written(r, written)
  <1> DEFINE old == reviews[copy[r].id]
  <1>1. copy[r] # NoReview
    BY DEF LogCreated, SaveUpdate, SaveDelete, SaveApproval, SaveRejection, Saving, At,
           Typed, SlotTyped
  <1>2. old \in Review /\ copy[r].passed \in BOOLEAN
    BY <1>1, CopyFields
  <1>3. \A status \in ModerationStatus : StatusAfter(r, status) \in {old.status, status}
    BY DEF StatusAfter
  <1>4. \A status \in ModerationStatus : StatusAfter(r, status) \in ModerationStatus
    BY <1>1, StatusAfterTyped
  <1>5. CASE LogCreated(r)
    BY <1>1, <1>2, <1>5 DEF LogCreated, Written
  <1>6. CASE SaveUpdate(r)
    <2> DEFINE written == [old EXCEPT !.status = EditedStatus(r), !.vetted = copy[r].passed]
    <2>1. Save(r, written) /\ request[r].op = "update"
      BY <1>6 DEF SaveUpdate, Saving
    <2>2. EditedStatus(r) \in ModerationStatus
      BY <1>4 DEF EditedStatus, ModerationStatus
    <2>3. /\ written \in Review /\ written.author = old.author /\ written.approved = old.approved
          /\ written.vetted = copy[r].passed /\ written.status = EditedStatus(r)
      BY <1>2, <2>2 DEF Review
    <2>4. Written(r, written)
      BY <2>1, <2>3 DEF Written
    <2>5. QED
      BY <1>1, <2>1, <2>3, <2>4
  <1>7. CASE SaveDelete(r)
    <2> DEFINE written == [old EXCEPT !.deleted = TRUE]
    <2>1. Save(r, written)
      BY <1>7 DEF SaveDelete, Deleted
    <2>2. /\ written \in Review /\ written.author = old.author /\ written.approved = old.approved
          /\ written.vetted = old.vetted /\ written.status = old.status
      BY <1>2 DEF Review
    <2>3. QED
      BY <1>1, <2>1, <2>2 DEF Written
  <1>8. CASE SaveApproval(r)
    <2> DEFINE written == [old EXCEPT !.status = StatusAfter(r, "APPROVED"),
                                      !.approved = TRUE, !.vetted = TRUE]
    <2>1. Save(r, written) /\ request[r].op = "approve"
      BY <1>8 DEF SaveApproval, Saving
    <2>2. /\ written \in Review /\ written.author = old.author
          /\ written.approved /\ written.vetted /\ written.status = StatusAfter(r, "APPROVED")
      BY <1>2, <1>4 DEF Review, ModerationStatus
    <2>3. written.status \in {old.status, "APPROVED"}
      BY <1>3, <2>2 DEF ModerationStatus
    <2>4. QED
      BY <1>1, <2>1, <2>2, <2>3 DEF Written
  <1>9. CASE SaveRejection(r)
    <2> DEFINE written == [old EXCEPT !.status = StatusAfter(r, "REJECTED")]
    <2>1. Save(r, written)
      BY <1>9 DEF SaveRejection
    <2>2. /\ written \in Review /\ written.author = old.author /\ written.approved = old.approved
          /\ written.vetted = old.vetted /\ written.status = StatusAfter(r, "REJECTED")
      BY <1>2, <1>4 DEF Review, ModerationStatus
    <2>3. written.status \in {old.status, "REJECTED"}
      BY <1>3, <2>2 DEF ModerationStatus
    <2>4. QED
      BY <1>1, <2>1, <2>2, <2>3 DEF Written
  <1>10. QED
    BY <1>5, <1>6, <1>7, <1>8, <1>9

-----------------------------------------------------------------------------
(* The other steps: an insert, and those that leave the reviews alone.     *)

\* What a lookup takes with it.
Taken(r) ==
  /\ At(r, "find") /\ Found(request[r].id) /\ Allowed(request[r])
  /\ copy' = [copy EXCEPT ![r] =
       [id |-> request[r].id, status |-> reviews[request[r].id].status,
        stale |-> FALSE, passed |-> FALSE]]
  /\ pc' = [pc EXCEPT ![r] = "save"]
  /\ UNCHANGED <<reviews, request>>

\* A request that moves on without a copy, or arrives.
Moved(r) ==
  /\ UNCHANGED <<reviews, copy>>
  /\ \/ At(r, "existing") /\ pc' = [pc EXCEPT ![r] = "insert"] /\ UNCHANGED request
     \/ /\ At(r, "idle")
        /\ \E q \in Request :
             /\ request' = [request EXCEPT ![r] = q]
             /\ \/ q.op = "create" /\ pc' = [pc EXCEPT ![r] = "existing"]
                \/ q.op # "create" /\ pc' = [pc EXCEPT ![r] = "find"]

Ended(r) == Finish(r) /\ UNCHANGED reviews

SavedOne(r) ==
  /\ copy[r] # NoReview
  /\ \E written \in Review : Save(r, written) /\ Written(r, written)

\* Every step is one of these.
LEMMA StepsAre ==
  ASSUME Typed, [Next]_vars
  PROVE  \/ \E r \in Requests :
              Moved(r) \/ Ended(r) \/ Taken(r) \/ SavedOne(r) \/ \E d \in Ids : Insert(r, d)
         \/ UNCHANGED vars
  <1> SUFFICES ASSUME NEW r \in Requests, Handler(r)
               PROVE  \/ Moved(r) \/ Ended(r) \/ Taken(r) \/ SavedOne(r)
                      \/ \E d \in Ids : Insert(r, d)
    BY DEF Next
  <1>1. ASSUME NEW c \in Customers, CreateReview(r, c) PROVE Moved(r)
    <2>1. [op |-> "create", by |-> c] \in Request
      BY DEF Request
    <2>2. QED
      BY <1>1, <2>1 DEF CreateReview, Arrive, Moved
  <1>2. ASSUME NEW q \in Request, q.op # "create", Arrive(r, "find", q) PROVE Moved(r)
    BY <1>2 DEF Arrive, Moved
  <1>3. ASSUME NEW d \in Ids, NEW c \in Customers, NEW photos \in BOOLEAN,
               UpdateReview(r, d, c, photos)
        PROVE  Moved(r)
    <2>1. [op |-> "update", id |-> d, by |-> c, photos |-> photos] \in Request
      BY DEF Request
    <2>2. QED
      BY <1>2, <1>3, <2>1 DEF UpdateReview
  <1>4. ASSUME NEW d \in Ids, NEW c \in Customers \cup {"admin"}, DeleteReview(r, d, c)
        PROVE  Moved(r)
    <2>1. [op |-> "delete", id |-> d, by |-> c] \in Request
      BY DEF Request
    <2>2. QED
      BY <1>2, <1>4, <2>1 DEF DeleteReview
  <1>5. ASSUME NEW d \in Ids, ApproveReview(r, d) \/ RejectReview(r, d) PROVE Moved(r)
    <2>1. [op |-> "approve", id |-> d] \in Request /\ [op |-> "reject", id |-> d] \in Request
      BY DEF Request
    <2>2. QED
      BY <1>2, <1>5, <2>1 DEF ApproveReview, RejectReview
  <1>6. CASE FindExisting(r)
    BY <1>6 DEF FindExisting, Goto, Moved, Ended
  <1>7. CASE DuplicateKey(r) \/ Fail(r)
    BY <1>7 DEF DuplicateKey, Fail, Ended
  <1>8. CASE Find(r)
    BY <1>8 DEF Find, Taken, Ended
  <1>9. CASE \/ LogCreated(r) \/ SaveUpdate(r) \/ SaveDelete(r) \/ SaveApproval(r)
             \/ SaveRejection(r)
    BY <1>9, SavesWrite DEF SavedOne
  <1>10. QED
    BY <1>1, <1>3, <1>4, <1>5, <1>6, <1>7, <1>8, <1>9 DEF Handler

LEMMA TypedNext ==
  ASSUME Typed, [Next]_vars PROVE Typed'
  <1>1. ASSUME NEW r \in Requests, Moved(r) PROVE Typed'
    <2>1. StoreTyped' /\ SlotsTyped'
      BY <1>1 DEF Moved, Typed, StoreTyped, SlotsTyped, Steps
    <2>2. ASSUME NEW x \in Requests PROVE SlotTyped(x)'
      BY <1>1, ReviewsAssumptions DEF Moved, At, Typed, SlotsTyped, SlotTyped, Exists
    <2>3. QED
      BY <2>1, <2>2 DEF Typed
  <1>2. ASSUME NEW r \in Requests, Ended(r) PROVE Typed'
    BY <1>2, FinishTyped DEF Ended
  <1>3. ASSUME NEW r \in Requests, Taken(r) PROVE Typed'
    <2> DEFINE taken == [id |-> request[r].id, status |-> reviews[request[r].id].status,
                         stale |-> FALSE, passed |-> FALSE]
    <2>1. request[r].id \in Ids /\ request[r].op # "create"
      BY <1>3, RequestFields DEF Taken, At, Typed, SlotTyped
    <2>2. reviews[request[r].id] \in Review /\ Exists(request[r].id)
      BY <1>3, <2>1, ReviewFields DEF Taken, Found, Typed
    <2>3. taken \in Copy /\ taken # NoReview /\ taken.id = request[r].id
      <3>1. taken \in Copy
        BY <2>1, <2>2 DEF Copy, Review
      <3>2. QED
        BY <3>1, ReviewsAssumptions
    <2>4. copy' = [copy EXCEPT ![r] = taken]
      BY <1>3 DEF Taken
    <2> HIDE DEF taken
    <2>5. StoreTyped' /\ SlotsTyped'
      BY <1>3, <2>3, <2>4 DEF Taken, Typed, StoreTyped, SlotsTyped, Steps
    <2>6. ASSUME NEW x \in Requests PROVE SlotTyped(x)'
      BY <1>3, <2>2, <2>3, <2>4 DEF Taken, At, Typed, SlotsTyped, SlotTyped, Exists
    <2>7. QED
      BY <2>5, <2>6 DEF Typed
  <1>4. ASSUME NEW r \in Requests, SavedOne(r) PROVE Typed'
    <2>1. PICK written : Save(r, written) /\ written \in Review
      BY <1>4 DEF SavedOne, Written
    <2>2. QED
      BY <1>4, <2>1, SaveTyped DEF SavedOne
  <1>5. ASSUME NEW r \in Requests, NEW d \in Ids, Insert(r, d) PROVE Typed'
    <2> DEFINE new == NewReview(request[r].by)
               taken == [id |-> d, status |-> "PENDING", stale |-> FALSE, passed |-> FALSE]
    <2>1. new \in Review /\ new # NoReview
      <3>1. request[r].by \in Customers
        BY <1>5, RequestFields DEF Insert, At, Typed, SlotTyped
      <3>2. new \in Review
        BY <3>1 DEF NewReview, Review, ModerationStatus
      <3>3. QED
        BY <3>2, ReviewsAssumptions
    <2>2. taken \in Copy /\ taken # NoReview /\ taken.id = d
      <3>1. taken \in Copy
        BY DEF Copy, ModerationStatus
      <3>2. QED
        BY <3>1, ReviewsAssumptions
    <2>3. reviews' = [reviews EXCEPT ![d] = new] /\ copy' = [copy EXCEPT ![r] = taken]
      BY <1>5 DEF Insert
    <2> HIDE DEF new, taken
    <2>4. StoreTyped' /\ SlotsTyped'
      <3>1. pc' = [pc EXCEPT ![r] = "log"] /\ request' = request
        BY <1>5 DEF Insert
      <3>2. QED
        BY <2>1, <2>2, <2>3, <3>1 DEF Typed, StoreTyped, SlotsTyped, Steps
    <2>5. ASSUME NEW x \in Requests PROVE SlotTyped(x)'
      <3>1. x # r => /\ pc'[x] = pc[x] /\ request'[x] = request[x] /\ copy'[x] = copy[x]
        BY <1>5, <2>3 DEF Insert, Typed, SlotsTyped
      <3>2. \A e \in Ids : reviews[e] # NoReview => reviews'[e] # NoReview
        BY <2>1, <2>3 DEF Typed, StoreTyped
      <3>3. copy[x] # NoReview => copy[x].id \in Ids
        BY CopyFields
      <3>4. x # r => SlotTyped(x)'
        BY <3>1, <3>2, <3>3 DEF Typed, SlotTyped, Exists
      <3>5. pc'[r] = "log" /\ copy'[r] = taken /\ request'[r] = request[r]
        BY <1>5, <2>3 DEF Insert, Typed, SlotsTyped
      <3>6. reviews'[d] # NoReview
        BY <2>1, <2>3 DEF Typed, StoreTyped
      <3>7. SlotTyped(r)'
        BY <1>5, <2>2, <3>5, <3>6 DEF Insert, At, Typed, SlotTyped, Exists
      <3>8. QED
        BY <3>4, <3>7
    <2>6. QED
      BY <2>4, <2>5 DEF Typed
  <1>6. CASE UNCHANGED vars
    BY <1>6 DEF vars, Typed, StoreTyped, SlotsTyped, SlotTyped, Exists
  <1>7. QED
    BY <1>1, <1>2, <1>3, <1>4, <1>5, <1>6, StepsAre

LEMMA TypedAlways == Spec => []Typed
  <1>1. Init => Typed
    BY ReviewsAssumptions DEF Init, Typed, StoreTyped, SlotsTyped, SlotTyped, Steps
  <1>2. QED
    BY <1>1, TypedNext, PTL DEF Spec

\* The documents and the requests keep their types, and every request's copy is of a
\* review that exists.
THEOREM TypeCorrect == Spec => []TypeOK
  BY TypedAlways, TypedIsTypeOK, PTL

-----------------------------------------------------------------------------
(* One review of each customer.                                            *)

LEMMA AuthorsStay ==
  ASSUME Typed, NEW r \in Requests, SavedOne(r)
  PROVE  \A d \in Ids : /\ Exists(d)' <=> Exists(d)
                        /\ Exists(d) => reviews'[d].author = reviews[d].author
  <1>1. PICK written : Save(r, written) /\ Written(r, written)
    BY DEF SavedOne
  <1>2. QED
    BY <1>1, SavedReviews DEF SavedOne, Written

\* Whatever requests overlap, a customer has one review of the banquet.
THEOREM OneEach == Spec => []OneReviewEach
  <1>1. Init => OneReviewEach
    BY DEF Init, OneReviewEach, Exists
  <1>2. ASSUME Typed, OneReviewEach, [Next]_vars PROVE OneReviewEach'
    <2>1. ASSUME NEW r \in Requests, SavedOne(r) PROVE OneReviewEach'
      BY <1>2, <2>1, AuthorsStay DEF OneReviewEach
    <2>2. ASSUME NEW r \in Requests, NEW d \in Ids, Insert(r, d) PROVE OneReviewEach'
      <3>1. \A e \in Ids : e # d => reviews'[e] = reviews[e]
        BY <1>2, <2>2 DEF Insert, Typed, StoreTyped
      <3>2. reviews'[d].author = request[r].by
        BY <1>2, <2>2 DEF Insert, Typed, StoreTyped, NewReview
      <3>3. \A e \in Ids : Exists(e) => reviews[e].author # request[r].by
        BY <2>2 DEF Insert, PairIsFree
      <3>4. QED
        BY <1>2, <3>1, <3>2, <3>3 DEF OneReviewEach, Exists
    <2>3. ASSUME UNCHANGED reviews PROVE OneReviewEach'
      BY <1>2, <2>3 DEF OneReviewEach, Exists
    <2>4. QED
      BY <1>2, <2>1, <2>2, <2>3, StepsAre DEF Moved, Ended, Taken, vars
  <1>3. QED
    BY <1>1, <1>2, TypedAlways, PTL DEF Spec

-----------------------------------------------------------------------------
(* Moderation.                                                             *)

\* An approval is in the trail of what it approved, and the review that is approved
\* now has not been edited since, unless by an edit that knows of the approval.
ApprovalsCount(d) ==
  Exists(d) /\ reviews[d].status = "APPROVED" => reviews[d].vetted /\ reviews[d].approved

\* What the copy of a request tells of its review as it is now: read in moderation, it
\* knows of an approval that came since; read as approved, there is an approval; and
\* an edit's copy was not of a rejected review.
CopyTells(r) ==
  copy[r] # NoReview =>
    LET d == copy[r].id IN
    /\ copy[r].status = "PENDING" /\ reviews[d].status = "APPROVED" => copy[r].passed
    /\ copy[r].status = "APPROVED" => reviews[d].approved
    /\ request[r].op = "update" => copy[r].status # "REJECTED"

Moderated ==
  /\ \A d \in Ids : ApprovalsCount(d)
  /\ \A r \in Requests : CopyTells(r)

LEMMA SavesModerate ==
  ASSUME Typed, Moderated, NEW r \in Requests, SavedOne(r)
  PROVE  Moderated'
  <1> DEFINE d == copy[r].id
  <1>1. PICK written : Save(r, written) /\ Written(r, written)
    BY DEF SavedOne
  <1>2. copy[r] # NoReview /\ written \in Review
    BY <1>1 DEF SavedOne, Written
  <1>3. /\ d \in Ids /\ Exists(d) /\ reviews[d] \in Review
        /\ copy[r].status \in ModerationStatus /\ copy[r].passed \in BOOLEAN
    BY <1>2, CopyFields
  <1>4. /\ reviews'[d] = written
        /\ \A e \in Ids : e # d => reviews'[e] = reviews[e]
        /\ \A e \in Ids : reviews'[e] # NoReview <=> reviews[e] # NoReview
    BY <1>1, <1>2, SavedReviews DEF Exists
  <1>5. ApprovalsCount(d) /\ CopyTells(r)
    BY <1>3 DEF Moderated
  <1>6. request[r].op = "update" /\ written.status = EditedStatus(r) /\ written.status = "APPROVED"
          => copy[r].status = "PENDING" /\ reviews[d].status = "APPROVED"
    BY DEF EditedStatus, StatusAfter
  <1>7. written.status = "APPROVED" => written.vetted /\ written.approved
    <2>1. CASE written.status \in {reviews[d].status, "REJECTED"}
                 /\ written.vetted = reviews[d].vetted
      BY <1>1, <1>3, <1>5, <2>1 DEF ApprovalsCount, Written
    <2>2. CASE written.approved /\ written.vetted
      BY <2>2
    <2>3. CASE /\ request[r].op = "update" /\ written.vetted = copy[r].passed
               /\ written.status = EditedStatus(r) /\ written.approved = reviews[d].approved
      BY <1>2, <1>3, <1>5, <1>6, <2>3 DEF ApprovalsCount, CopyTells
    <2>4. QED
      BY <1>1, <2>1, <2>2, <2>3 DEF Written
  <1>8. \A e \in Ids : ApprovalsCount(e)'
    BY <1>4, <1>7 DEF Moderated, ApprovalsCount, Exists
  <1>9. ASSUME NEW x \in Requests PROVE CopyTells(x)'
    <2> SUFFICES ASSUME copy'[x] # NoReview PROVE CopyTells(x)'
      BY DEF CopyTells
    <2>1. /\ x # r /\ copy[x] # NoReview
          /\ copy'[x].id = copy[x].id /\ copy'[x].status = copy[x].status
          /\ copy[x].passed => copy'[x].passed
          /\ copy[x].id = d /\ request[r].op = "approve" => copy'[x].passed
      BY <1>1, <1>2, SavedCopies
    <2>2. request'[x] = request[x]
      BY <1>1, <2>1 DEF Save, Reset, Typed, SlotsTyped
    <2>3. CopyTells(x) /\ copy[x].id \in Ids
      BY <2>1, CopyFields DEF Moderated
    <2>4. CASE copy[x].id # d
      BY <1>4, <2>1, <2>2, <2>3, <2>4 DEF CopyTells
    <2>5. CASE copy[x].id = d
      <3>1. reviews[d].approved => written.approved
        BY <1>1 DEF Written
      <3>2. written.status = "APPROVED" =>
              reviews[d].status = "APPROVED" \/ request[r].op = "approve"
        BY <1>1, <1>6 DEF Written
      <3>3. QED
        BY <1>4, <2>1, <2>2, <2>3, <2>5, <3>1, <3>2 DEF CopyTells
    <2>6. QED
      BY <2>4, <2>5
  <1>10. QED
    BY <1>8, <1>9 DEF Moderated

LEMMA ModeratedNext ==
  ASSUME Typed, Moderated, [Next]_vars PROVE Moderated'
  <1>1. ASSUME NEW r \in Requests, SavedOne(r) PROVE Moderated'
    BY <1>1, SavesModerate
  <1>2. ASSUME NEW r \in Requests, Moved(r) PROVE Moderated'
    <2>1. \A x \in Requests : copy[x] # NoReview => request'[x] = request[x]
      BY <1>2 DEF Moved, At, Typed, SlotsTyped, SlotTyped
    <2>2. QED
      BY <1>2, <2>1 DEF Moved, Moderated, ApprovalsCount, CopyTells, Exists
  <1>3. ASSUME NEW r \in Requests, Ended(r) PROVE Moderated'
    <2>1. /\ copy'[r] = NoReview
          /\ \A x \in Requests : x # r => copy'[x] = copy[x] /\ request'[x] = request[x]
      BY <1>3 DEF Ended, Finish, Reset, Typed, SlotsTyped
    <2>2. QED
      BY <1>3, <2>1 DEF Ended, Moderated, ApprovalsCount, CopyTells, Exists
  <1>4. ASSUME NEW r \in Requests, Taken(r) PROVE Moderated'
    <2>1. /\ copy'[r].id = request[r].id
          /\ copy'[r].status = reviews[request[r].id].status
          /\ \A x \in Requests : x # r => copy'[x] = copy[x]
      BY <1>4 DEF Taken, Typed, SlotsTyped
    <2>2. request[r].id \in Ids /\ Exists(request[r].id)
      BY <1>4, RequestFields DEF Taken, At, Found, Typed, SlotTyped
    <2>3. request[r].op = "update" => reviews[request[r].id].status # "REJECTED"
      BY <1>4 DEF Taken, Allowed
    <2>4. CopyTells(r)'
      BY <1>4, <2>1, <2>2, <2>3 DEF Taken, CopyTells, Moderated, ApprovalsCount
    <2>5. QED
      BY <1>4, <2>1, <2>4 DEF Taken, Moderated, ApprovalsCount, CopyTells, Exists
  <1>5. ASSUME NEW r \in Requests, NEW d \in Ids, Insert(r, d) PROVE Moderated'
    <2>1. /\ reviews'[d].status = "PENDING"
          /\ \A e \in Ids : e # d => reviews'[e] = reviews[e]
      BY <1>5 DEF Insert, Typed, StoreTyped, NewReview
    <2>2. /\ copy'[r].id = d /\ copy'[r].status = "PENDING"
          /\ \A x \in Requests : x # r => copy'[x] = copy[x]
      BY <1>5 DEF Insert, Typed, SlotsTyped
    <2>3. \A x \in Requests : copy[x] # NoReview => copy[x].id \in Ids /\ copy[x].id # d
      BY <1>5, CopyFields DEF Insert
    <2>4. request' = request
      BY <1>5 DEF Insert
    <2>5. CopyTells(r)'
      BY <2>1, <2>2 DEF CopyTells
    <2>6. \A x \in Requests : x # r => CopyTells(x)'
      BY <2>1, <2>2, <2>3, <2>4 DEF CopyTells, Moderated
    <2>7. \A e \in Ids : ApprovalsCount(e)'
      BY <2>1 DEF ApprovalsCount, Moderated, Exists
    <2>8. QED
      BY <2>5, <2>6, <2>7 DEF Moderated
  <1>6. CASE UNCHANGED vars
    BY <1>6 DEF vars, Moderated, ApprovalsCount, CopyTells, Exists
  <1>7. QED
    BY <1>1, <1>2, <1>3, <1>4, <1>5, <1>6, StepsAre

LEMMA ModeratedAlways == Spec => []Moderated
  <1>1. Init => Moderated
    BY DEF Init, Moderated, ApprovalsCount, CopyTells, Exists
  <1>2. QED
    BY <1>1, ModeratedNext, TypedAlways, PTL DEF Spec

\* No review is published that a moderator did not approve after the edit had read it.
THEOREM PublicationsAreApproved == Spec => []PublishedWereApproved
  <1>1. Moderated => PublishedWereApproved
    BY DEF Moderated, ApprovalsCount, PublishedWereApproved, Found
  <1>2. QED
    BY <1>1, ModeratedAlways, PTL

\* An edit that overlaps a rejection does not undo it.
THEOREM RejectionsHold == Spec => RejectionsStand
  <1>1. ASSUME Typed, Moderated, [Next]_vars
        PROVE  [\A d \in Ids :
                  Exists(d) /\ reviews[d].status = "REJECTED" /\ ~reviews[d].approved
                  => reviews'[d].status \in {"REJECTED", "APPROVED"}]_vars
    <2> SUFFICES ASSUME NEW d \in Ids, Exists(d), reviews[d].status = "REJECTED",
                        ~reviews[d].approved, ~UNCHANGED vars
                 PROVE  reviews'[d].status \in {"REJECTED", "APPROVED"}
      OBVIOUS
    <2>1. ASSUME NEW r \in Requests, SavedOne(r)
          PROVE  reviews'[d].status \in {"REJECTED", "APPROVED"}
      <3>1. PICK written : Save(r, written) /\ Written(r, written)
        BY <2>1 DEF SavedOne
      <3>2. /\ copy[r].id # d => reviews'[d] = reviews[d]
            /\ copy[r].id = d => reviews'[d] = written
            /\ copy[r].status \in ModerationStatus
        BY <1>1, <2>1, <3>1, SavedReviews, CopyFields DEF SavedOne, Written
      <3>3. CopyTells(r) /\ copy[r] # NoReview
        BY <1>1, <2>1 DEF Moderated, SavedOne
      <3>4. CASE copy[r].id = d /\ request[r].op = "update" /\ written.status = EditedStatus(r)
        <4>1. copy[r].status = "PENDING"
          BY <3>2, <3>3, <3>4 DEF CopyTells, ModerationStatus
        <4>2. QED
          BY <3>2, <3>4, <4>1 DEF EditedStatus, StatusAfter
      <3>5. QED
        BY <3>1, <3>2, <3>4 DEF Written
    <2>2. ASSUME NEW r \in Requests, NEW e \in Ids, Insert(r, e)
          PROVE  reviews'[d] = reviews[d]
      BY <1>1, <2>2 DEF Insert, Typed, StoreTyped, Exists
    <2>3. QED
      BY <1>1, <2>1, <2>2, StepsAre DEF Moved, Ended, Taken
  <1>2. QED
    BY <1>1, TypedAlways, ModeratedAlways, PTL DEF Spec, RejectionsStand
=============================================================================
