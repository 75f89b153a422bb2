------------------------------ MODULE Catalogue ------------------------------
(***************************************************************************)
(* BanquetsService, BanquetManagementService and SearchService: what the   *)
(* owners and the administrators do to the banquets, the log of the        *)
(* administrators' actions, and the search with its cache in Redis.        *)
(*                                                                         *)
(* The cache is the entry of one search that matches every banquet.        *)
(* Nothing invalidates it: invalidateBanquetCache and clearAllCaches have  *)
(* no caller, so only the time to live takes an old result away.           *)
(* The filters, the order and the paging of the search are left out, and   *)
(* so are the requests that the guards or the check of the owner refuse.   *)
(***************************************************************************)
CONSTANTS
  Banquets,   \* identifiers of banquets
  Requests,   \* requests served at the same time
  NoBanquet,  \* no document has the identifier
  NoResult,   \* the cache has no entry
  NoRequest   \* the slot is free

\* PENDING and DELETED are declared as well; no code sets them.
BanquetStatus == {"DRAFT", "PUBLISHED", "REJECTED", "UNAVAILABLE"}

\* listed is a history: its owner has published it at some time.
Banquet == [status : BanquetStatus, deleted : BOOLEAN, listed : BOOLEAN]

OwnerOps == {"update", "publish", "unpublish", "delete"}
AdminOps == {"approve", "reject", "feature"}
Request == [op : OwnerOps \cup AdminOps, banquet : Banquets] \cup [op : {"search"}]
AdminAction == {"BANQUET_APPROVED", "BANQUET_REJECTED", "BANQUET_FEATURED"}

SearchResult == [data : SUBSET Banquets]
Nothing == [data |-> {}]

ASSUME CatalogueAssumptions ==
  /\ NoBanquet \notin Banquet
  /\ NoResult \notin SearchResult
  /\ NoRequest \notin Request

VARIABLES
  banquets,    \* [Banquets -> Banquet or NoBanquet]
  featured,    \* banquets with a featured listing
  activities,  \* the entries of the log: pairs of a banquet and an AdminAction
  unlogged,    \* history: the entries that a failure after the save has lost
  cache,       \* SearchResult, or NoResult
  pc,          \* [Requests -> the step the request is at]
  request,     \* [Requests -> Request or NoRequest]
  result       \* [Requests -> SearchResult]: what a search found

stores == <<banquets, featured, activities, unlogged, cache>>
vars == <<banquets, featured, activities, unlogged, cache, pc, request, result>>

Steps == {"idle", "find", "write", "resave", "log", "lookup", "query", "store"}

TypeOK ==
  /\ banquets \in [Banquets -> Banquet \cup {NoBanquet}]
  /\ featured \subseteq Banquets
  /\ activities \subseteq Banquets \X AdminAction
  /\ unlogged \subseteq Banquets \X AdminAction
  /\ cache \in SearchResult \cup {NoResult}
  /\ pc \in [Requests -> Steps]
  /\ request \in [Requests -> Request \cup {NoRequest}]
  /\ result \in [Requests -> SearchResult]
  /\ \A r \in Requests :
       /\ request[r] = NoRequest <=> pc[r] = "idle"
       /\ pc[r] \in {"find", "write"} => banquets[request[r].banquet] # NoBanquet
       /\ pc[r] = "log" => request[r].op \in AdminOps

Init ==
  /\ banquets = [b \in Banquets |-> NoBanquet]
  /\ featured = {} /\ activities = {} /\ unlogged = {}
  /\ cache = NoResult
  /\ pc = [r \in Requests |-> "idle"]
  /\ request = [r \in Requests |-> NoRequest]
  /\ result = [r \in Requests |-> Nothing]

-----------------------------------------------------------------------------
Exists(b) == banquets[b] # NoBanquet
Found(b) == Exists(b) /\ ~banquets[b].deleted
Published(b) == Found(b) /\ banquets[b].status = "PUBLISHED"

At(r, step) == pc[r] = step
Serving(r, step, op) == At(r, step) /\ request[r].op = op
Goto(r, step) == pc' = [pc EXCEPT ![r] = step] /\ UNCHANGED <<request, result>>

Finish(r) ==
  /\ pc' = [pc EXCEPT ![r] = "idle"]
  /\ request' = [request EXCEPT ![r] = NoRequest]
  /\ result' = [result EXCEPT ![r] = Nothing]

Arrive(r, step, q) ==
  /\ At(r, "idle")
  /\ pc' = [pc EXCEPT ![r] = step]
  /\ request' = [request EXCEPT ![r] = q]
  /\ UNCHANGED <<stores, result>>

Ask(r, op, b) == Exists(b) /\ Arrive(r, "find", [op |-> op, banquet |-> b])
SearchBanquets(r) == Arrive(r, "lookup", [op |-> "search"])

\* One write, by an owner who has a profile.
CreateBanquet(b) ==
  /\ ~Exists(b)
  /\ banquets' = [banquets EXCEPT ![b] =
       [status |-> "DRAFT", deleted |-> FALSE, listed |-> FALSE]]
  /\ UNCHANGED <<featured, activities, unlogged, cache, pc, request, result>>

-----------------------------------------------------------------------------
(* The lookup that each operation starts with, and its checks.             *)

Allowed(q) ==
  CASE q.op = "approve" -> banquets[q.banquet].status # "PUBLISHED"
    [] q.op = "feature" -> banquets[q.banquet].status = "PUBLISHED"
    [] OTHER -> TRUE

\* A save sends what was modified only: here, nothing.
Unmodified(q) == q.op = "reject" /\ banquets[q.banquet].status = "REJECTED"

Find(r) ==
  /\ At(r, "find")
  /\ IF Found(request[r].banquet) /\ Allowed(request[r])
       THEN Goto(r, IF Unmodified(request[r]) THEN "resave" ELSE "write")
       ELSE Finish(r)
  /\ UNCHANGED stores

-----------------------------------------------------------------------------
(* Owners.  findOneAndUpdate leaves a banquet alone that was deleted since *)
(* it was read; the answer is then an error.                               *)

Update(r, b, written) ==
  /\ banquets' = IF Found(b) THEN [banquets EXCEPT ![b] = written] ELSE banquets
  /\ Finish(r)
  /\ UNCHANGED <<featured, activities, unlogged, cache>>

\* The body has fields of the banquet, its status not among them.
UpdateBanquet(r) ==
  LET b == request[r].banquet IN
  /\ Serving(r, "write", "update")
  /\ Update(r, b, banquets[b])

PublishBanquet(r) ==
  LET b == request[r].banquet IN
  /\ Serving(r, "write", "publish")
  /\ Update(r, b, [banquets[b] EXCEPT !.status = "PUBLISHED", !.listed = TRUE])

UnpublishBanquet(r) ==
  LET b == request[r].banquet IN
  /\ Serving(r, "write", "unpublish")
  /\ Update(r, b, [banquets[b] EXCEPT !.status = "UNAVAILABLE"])

\* Mutant of Deleted: the document is removed.
Removed(b) == NoBanquet

Deleted(b) == [banquets[b] EXCEPT !.deleted = TRUE]

DeleteBanquet(r) ==
  LET b == request[r].banquet IN
  /\ Serving(r, "write", "delete")
  /\ Update(r, b, Deleted(b))

-----------------------------------------------------------------------------
(* Administrators.  save writes by the identifier, to deleted banquets as  *)
(* well; the log is written after it, by another call.                     *)

SaveStatus(r, op, status) ==
  /\ Serving(r, "write", op)
  /\ banquets' = [banquets EXCEPT ![request[r].banquet].status = status]
  /\ Goto(r, "log")
  /\ UNCHANGED <<featured, activities, unlogged, cache>>

ApproveBanquet(r) == SaveStatus(r, "approve", "PUBLISHED")

RejectBanquet(r) ==
  \/ SaveStatus(r, "reject", "REJECTED")
  \/ Serving(r, "resave", "reject") /\ Goto(r, "log") /\ UNCHANGED stores

FeatureBanquet(r) ==
  /\ Serving(r, "write", "feature")
  /\ featured' = featured \cup {request[r].banquet}
  /\ Goto(r, "log")
  /\ UNCHANGED <<banquets, activities, unlogged, cache>>

\* Mutant of Entry: the rejection was copied from the approval, its action too.
CopiedEntry(q) ==
  <<q.banquet, IF q.op = "feature" THEN "BANQUET_FEATURED" ELSE "BANQUET_APPROVED">>

Entry(q) ==
  <<q.banquet,
    CASE q.op = "approve" -> "BANQUET_APPROVED"
      [] q.op = "reject" -> "BANQUET_REJECTED"
      [] q.op = "feature" -> "BANQUET_FEATURED">>

LogActivity(r) ==
  /\ At(r, "log")
  /\ activities' = activities \cup {Entry(request[r])}
  /\ Finish(r)
  /\ UNCHANGED <<banquets, featured, unlogged, cache>>

-----------------------------------------------------------------------------
(* Search.                                                                 *)

CacheHit(r) ==
  /\ At(r, "lookup")
  /\ cache # NoResult
  /\ Finish(r)
  /\ UNCHANGED stores

\* Also when Redis cannot be asked.
CacheMiss(r) == At(r, "lookup") /\ Goto(r, "query") /\ UNCHANGED stores

\* Mutant of Matching: the match on the status is left out.
MatchingAny == {b \in Banquets : Found(b)}

Matching == {b \in Banquets : Published(b)}

\* The search is answered here; the result is cached after the answer.
Query(r) ==
  /\ At(r, "query")
  /\ result' = [result EXCEPT ![r] = [data |-> Matching]]
  /\ pc' = [pc EXCEPT ![r] = "store"]
  /\ UNCHANGED <<stores, request>>

SetCachedResults(r) ==
  /\ At(r, "store")
  /\ cache' = result[r]
  /\ Finish(r)
  /\ UNCHANGED <<banquets, featured, activities, unlogged>>

\* CACHE_TTL passes.
Expire ==
  /\ cache # NoResult
  /\ cache' = NoResult
  /\ UNCHANGED <<banquets, featured, activities, unlogged, pc, request, result>>

-----------------------------------------------------------------------------
\* A call throws or the process stops: what was written stays.
Fail(r) ==
  /\ ~At(r, "idle")
  /\ unlogged' = IF At(r, "log") THEN unlogged \cup {Entry(request[r])} ELSE unlogged
  /\ Finish(r)
  /\ UNCHANGED <<banquets, featured, activities, cache>>

Progress(r) ==
  \/ Find(r)
  \/ UpdateBanquet(r) \/ PublishBanquet(r) \/ UnpublishBanquet(r) \/ DeleteBanquet(r)
  \/ ApproveBanquet(r) \/ RejectBanquet(r) \/ FeatureBanquet(r) \/ LogActivity(r)
  \/ CacheHit(r) \/ CacheMiss(r) \/ Query(r) \/ SetCachedResults(r)

Next ==
  \/ \E b \in Banquets : CreateBanquet(b)
  \/ \E r \in Requests :
       \/ \E op \in OwnerOps \cup AdminOps, b \in Banquets : Ask(r, op, b)
       \/ SearchBanquets(r)
       \/ Progress(r) \/ Fail(r)
  \/ Expire

\* A request gets on unless it fails, and Redis removes what has expired.
Spec ==
  /\ Init /\ [][Next]_vars
  /\ \A r \in Requests : WF_vars(Progress(r))
  /\ WF_vars(Expire)

-----------------------------------------------------------------------------
(* Properties.                                                             *)

\* The log accounts for the status of every banquet: what is rejected, and what is
\* public without its owner having published it, was decided by an administrator
\* whose entry is in the log, is about to be written, or was lost by a failure
\* between the two writes.
Accounted(b, action) ==
  \/ <<b, action>> \in activities \cup unlogged
  \/ \E r \in Requests : At(r, "log") /\ Entry(request[r]) = <<b, action>>

LogAccounts ==
  \A b \in Banquets : Exists(b) =>
    /\ banquets[b].status = "REJECTED" => Accounted(b, "BANQUET_REJECTED")
    /\ banquets[b].status = "PUBLISHED" /\ ~banquets[b].listed
         => Accounted(b, "BANQUET_APPROVED")
    /\ b \in featured => Accounted(b, "BANQUET_FEATURED")

\* A banquet that stops being public for good disappears from the cached results,
\* although nothing invalidates them and results that were computed before are
\* still being stored: the time to live ends each, and they are finitely many.
StaleResultsEnd ==
  \A b \in Banquets :
    <>[](~Published(b)) => <>[](cache = NoResult \/ b \notin cache.data)

=============================================================================
