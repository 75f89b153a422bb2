------------------------------- MODULE Reviews -------------------------------
(***************************************************************************)
(* ReviewService and ModerationService: the reviews of one banquet.        *)
(*                                                                         *)
(* Each operation reads a document, decides on its copy and saves the      *)
(* paths it has modified; Mongoose writes no path whose value is the one   *)
(* that was read, appends to arrays with $push, and refuses to overwrite a *)
(* whole array (the photos) when another save came between.  So the status *)
(* a review ends up with depends on what each writer had read.             *)
(*                                                                         *)
(* Left out, as they change nothing: addOwnerReply compares the banquet's  *)
(* ownerId (an owner's profile) with the caller's user id and refuses      *)
(* every reply; recalculateBanquetRating sets paths that the schema of     *)
(* banquets lacks, which the driver drops, and swallows its errors.        *)
(* A customer here has a completed booking within the review window.       *)
(***************************************************************************)
CONSTANTS
  Customers,  \* customers with a completed booking of the banquet
  Ids,        \* identifiers of reviews
  Requests,   \* requests served at the same time
  NoReview,   \* no document has the identifier
  NoRequest   \* the slot is free

ModerationStatus == {"PENDING", "APPROVED", "REJECTED"}

\* Of the audit trail, whether it has an approval.  vetted is a history: an approval
\* was saved after the last edit had read the review.
Review == [author : Customers, status : ModerationStatus, deleted : BOOLEAN,
           approved : BOOLEAN, vetted : BOOLEAN]

\* by is the customer, or an administrator ("admin"); photos: the edit changes them.
Request ==
  [op : {"create"}, by : Customers]
  \cup [op : {"update"}, id : Ids, by : Customers, photos : BOOLEAN]
  \cup [op : {"delete"}, id : Ids, by : Customers \cup {"admin"}]
  \cup [op : {"approve", "reject"}, id : Ids]

\* What a request keeps of the review: the status it read, whether the review was
\* saved since, and (a history) whether an approval was.
Copy == [id : Ids, status : ModerationStatus, stale : BOOLEAN, passed : BOOLEAN]

ASSUME ReviewsAssumptions ==
  /\ "admin" \notin Customers
  /\ NoReview \notin Review \cup Copy
  /\ NoRequest \notin Request

VARIABLES
  reviews,  \* [Ids -> Review or NoReview]
  pc,       \* [Requests -> the step the request is at]
  request,  \* [Requests -> Request or NoRequest]
  copy      \* [Requests -> Copy or NoReview]: review

vars == <<reviews, pc, request, copy>>

TypeOK ==
  /\ reviews \in [Ids -> Review \cup {NoReview}]
  /\ pc \in [Requests -> {"idle", "existing", "insert", "log", "find", "save"}]
  /\ request \in [Requests -> Request \cup {NoRequest}]
  /\ copy \in [Requests -> Copy \cup {NoReview}]
  /\ \A r \in Requests :
       /\ request[r] = NoRequest <=> pc[r] = "idle"
       /\ copy[r] # NoReview <=> pc[r] \in {"log", "save"}
       /\ copy[r] # NoReview => reviews[copy[r].id] # NoReview

Init ==
  /\ reviews = [d \in Ids |-> NoReview]
  /\ pc = [r \in Requests |-> "idle"]
  /\ request = [r \in Requests |-> NoRequest]
  /\ copy = [r \in Requests |-> NoReview]

-----------------------------------------------------------------------------
Exists(d) == reviews[d] # NoReview
Found(d) == Exists(d) /\ ~reviews[d].deleted

At(r, step) == pc[r] = step
Goto(r, step) == pc' = [pc EXCEPT ![r] = step] /\ UNCHANGED <<request, copy>>
Reset(r) ==
  /\ pc' = [pc EXCEPT ![r] = "idle"]
  /\ request' = [request EXCEPT ![r] = NoRequest]
Finish(r) == Reset(r) /\ copy' = [copy EXCEPT ![r] = NoReview]

Arrive(r, step, q) ==
  /\ At(r, "idle")
  /\ pc' = [pc EXCEPT ![r] = step]
  /\ request' = [request EXCEPT ![r] = q]
  /\ UNCHANGED <<reviews, copy>>

CreateReview(r, c) == Arrive(r, "existing", [op |-> "create", by |-> c])
UpdateReview(r, d, c, photos) ==
  Arrive(r, "find", [op |-> "update", id |-> d, by |-> c, photos |-> photos])
DeleteReview(r, d, c) == Arrive(r, "find", [op |-> "delete", id |-> d, by |-> c])
ApproveReview(r, d) == Arrive(r, "find", [op |-> "approve", id |-> d])
RejectReview(r, d) == Arrive(r, "find", [op |-> "reject", id |-> d])

-----------------------------------------------------------------------------
\* save: the review becomes what is written; the other copies of it are stale from
\* now on, and the approval they missed is remembered.
Save(r, written) ==
  LET d == copy[r].id IN
  /\ reviews' = [reviews EXCEPT ![d] = written]
  /\ Reset(r)
  /\ copy' = [x \in Requests |->
       IF x = r THEN NoReview
       ELSE IF copy[x] # NoReview /\ copy[x].id = d
         THEN [copy[x] EXCEPT !.stale = TRUE,
                 !.passed = @ \/ request[r].op = "approve"]
       ELSE copy[x]]

\* The status after a save that sets it: not written if it is the one that was read.
StatusAfter(r, status) ==
  IF copy[r].status = status THEN reviews[copy[r].id].status ELSE status

-----------------------------------------------------------------------------
(* createReview: the check, the insert, and a second save with the entry.  *)

FindExisting(r) ==
  /\ At(r, "existing")
  /\ IF \E d \in Ids : Found(d) /\ reviews[d].author = request[r].by
       THEN Finish(r)
       ELSE Goto(r, "insert")
  /\ UNCHANGED reviews

\* Mutant of PairIsFree: the index of the pair is not unique.
NoUniqueIndex(c) == TRUE

\* The unique index on banquet and customer, which also holds deleted reviews.
PairIsFree(c) == \A d \in Ids : Exists(d) => reviews[d].author # c

NewReview(c) ==
  [author |-> c, status |-> "PENDING", deleted |-> FALSE, approved |-> FALSE,
   vetted |-> FALSE]

Insert(r, d) ==
  /\ At(r, "insert")
  /\ ~Exists(d)
  /\ PairIsFree(request[r].by)
  /\ reviews' = [reviews EXCEPT ![d] = NewReview(request[r].by)]
  /\ pc' = [pc EXCEPT ![r] = "log"]
  /\ copy' = [copy EXCEPT ![r] =
       [id |-> d, status |-> "PENDING", stale |-> FALSE, passed |-> FALSE]]
  /\ UNCHANGED request

DuplicateKey(r) ==
  /\ At(r, "insert")
  /\ ~PairIsFree(request[r].by)
  /\ Finish(r)
  /\ UNCHANGED reviews

LogCreated(r) ==
  /\ At(r, "log")
  /\ Save(r, reviews[copy[r].id])

-----------------------------------------------------------------------------
(* The other operations: the lookup with its checks, and the save.         *)

\* An edit is its author's and not of a rejected review; a deletion is its
\* author's or an administrator's; the moderators look at no status.
Allowed(q) ==
  CASE q.op = "update" -> reviews[q.id].author = q.by /\ reviews[q.id].status # "REJECTED"
    [] q.op = "delete" -> q.by \in {"admin", reviews[q.id].author}
    [] OTHER -> TRUE

Find(r) ==
  LET q == request[r] IN
  /\ At(r, "find")
  /\ IF Found(q.id) /\ Allowed(q)
       THEN /\ copy' = [copy EXCEPT ![r] =
                 [id |-> q.id, status |-> reviews[q.id].status, stale |-> FALSE,
                  passed |-> FALSE]]
            /\ pc' = [pc EXCEPT ![r] = "save"]
            /\ UNCHANGED request
       ELSE Finish(r)
  /\ UNCHANGED reviews

Saving(r, op) == At(r, "save") /\ request[r].op = op

\* Mutant of EditedStatus: the line that asks for a new moderation is left out.
KeptStatus(r) == reviews[copy[r].id].status

\* Mutant of EditedStatus: the whole document is written back.
WrittenStatus(r) == "PENDING"

\* Back to moderation.
EditedStatus(r) == StatusAfter(r, "PENDING")

SaveUpdate(r) ==
  /\ Saving(r, "update")
  /\ ~(request[r].photos /\ copy[r].stale)
  /\ Save(r, [reviews[copy[r].id] EXCEPT
       !.status = EditedStatus(r), !.vetted = copy[r].passed])

\* Mutant of Deleted: the document is removed.
Removed(d) == NoReview

Deleted(d) == [reviews[d] EXCEPT !.deleted = TRUE]

SaveDelete(r) ==
  /\ Saving(r, "delete")
  /\ Save(r, Deleted(copy[r].id))

SaveApproval(r) ==
  /\ Saving(r, "approve")
  /\ Save(r, [reviews[copy[r].id] EXCEPT
       !.status = StatusAfter(r, "APPROVED"), !.approved = TRUE, !.vetted = TRUE])

SaveRejection(r) ==
  /\ Saving(r, "reject")
  /\ Save(r, [reviews[copy[r].id] EXCEPT !.status = StatusAfter(r, "REJECTED")])

\* A database call throws (the version error of an edit of photos that came too
\* late among them) or the process stops: what was saved stays.
Fail(r) == ~At(r, "idle") /\ Finish(r) /\ UNCHANGED reviews

Handler(r) ==
  \/ \E c \in Customers : CreateReview(r, c)
  \/ \E d \in Ids : Exists(d) /\
       \/ \E c \in Customers, photos \in BOOLEAN : UpdateReview(r, d, c, photos)
       \/ \E c \in Customers \cup {"admin"} : DeleteReview(r, d, c)
       \/ ApproveReview(r, d) \/ RejectReview(r, d)
  \/ FindExisting(r) \/ (\E d \in Ids : Insert(r, d)) \/ DuplicateKey(r)
  \/ LogCreated(r) \/ Find(r)
  \/ SaveUpdate(r) \/ SaveDelete(r) \/ SaveApproval(r) \/ SaveRejection(r)
  \/ Fail(r)

Next == \E r \in Requests : Handler(r)

Spec == Init /\ [][Next]_vars

-----------------------------------------------------------------------------
(* Properties.                                                             *)

\* A customer has one review of the banquet, whatever requests overlap: two that
\* both found none are told apart by the unique index.
OneReviewEach ==
  \A d, e \in Ids :
    Exists(d) /\ Exists(e) /\ reviews[d].author = reviews[e].author => d = e

\* What is published was approved: an approval was saved after the last edit had
\* read the review.  (Not after the edit was saved: an edit that read a review in
\* moderation writes no status, and one that overlaps the approval is published.)
PublishedWereApproved ==
  \A d \in Ids : Found(d) /\ reviews[d].status = "APPROVED" => reviews[d].vetted

\* No edit takes a review that was never approved out of its rejection: an edit that
\* overlaps the rejection read a review in moderation and leaves the status alone.
\* Only a moderator's approval does.
RejectionsStand ==
  [][\A d \in Ids :
       Exists(d) /\ reviews[d].status = "REJECTED" /\ ~reviews[d].approved
       => reviews'[d].status \in {"REJECTED", "APPROVED"}]_vars

=============================================================================
