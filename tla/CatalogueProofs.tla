-------------------------- MODULE CatalogueProofs --------------------------
(***************************************************************************)
(* Theorems about Catalogue, for any banquets and any number of requests   *)
(* served at the same time.                                                *)
(*                                                                         *)
(* TypeOK needs to know that a request at the lookup or the write names a  *)
(* banquet (a search names none).  LogAccounts is inductive with it once   *)
(* the featured listings are accounted for whether or not their banquet    *)
(* exists: creation must not bring a listing that nobody logged.           *)
(***************************************************************************)
EXTENDS Catalogue, TLAPS

BanquetRequest == [op : OwnerOps \cup AdminOps, banquet : Banquets]

\* The stores and the slots of the requests, each as the actions change them.
StoresTyped ==
  /\ banquets \in [Banquets -> Banquet \cup {NoBanquet}]
  /\ featured \subseteq Banquets
  /\ activities \subseteq Banquets \X AdminAction
  /\ unlogged \subseteq Banquets \X AdminAction
  /\ cache \in SearchResult \cup {NoResult}

SlotsTyped ==
  /\ pc \in [Requests -> Steps]
  /\ request \in [Requests -> Request \cup {NoRequest}]
  /\ result \in [Requests -> SearchResult]
  /\ \A r \in Requests :
       /\ request[r] = NoRequest <=> pc[r] = "idle"
       /\ pc[r] \in {"find", "write"} => request[r] \in BanquetRequest
       /\ pc[r] = "log" => request[r].op \in AdminOps

Pointed ==
  \A r \in Requests :
    pc[r] \in {"find", "write"} => banquets[request[r].banquet] # NoBanquet

\* TypeOK, and that a request that is about to read or write a banquet names one.
Types == StoresTyped /\ SlotsTyped /\ Pointed

\* Banquets are never removed, so whoever has found one finds it again.
BanquetsStay == \A b \in Banquets : Exists(b) => Exists(b)'

\* The other requests' slots are left alone.
OthersKept(r) ==
  \A q \in Requests \ {r} :
    pc'[q] = pc[q] /\ request'[q] = request[q] /\ result'[q] = result[q]

LEMMA NothingTyped == Nothing \in SearchResult
  BY DEF Nothing, SearchResult

LEMMA FinishSlots ==
  ASSUME SlotsTyped, NEW r \in Requests, Finish(r)
  PROVE  SlotsTyped' /\ OthersKept(r) /\ pc'[r] = "idle"
  BY NothingTyped DEF SlotsTyped, Finish, OthersKept, Steps

LEMMA GotoSlots ==
  ASSUME SlotsTyped, NEW r \in Requests, pc[r] # "idle",
         NEW step \in Steps \ {"idle", "find"}, Goto(r, step),
         step = "write" => request[r] \in BanquetRequest,
         step = "log" => request[r].op \in AdminOps
  PROVE  SlotsTyped' /\ OthersKept(r) /\ pc'[r] = step /\ request'[r] = request[r]
  BY DEF SlotsTyped, Goto, OthersKept

\* A step of request r that keeps the banquets and, if it goes on to the write,
\* names one that exists.
LEMMA StepPointed ==
  ASSUME SlotsTyped, SlotsTyped', Pointed, BanquetsStay, NEW r \in Requests,
         OthersKept(r),
         pc'[r] \in {"find", "write"} => banquets'[request'[r].banquet] # NoBanquet
  PROVE  Pointed'
  BY DEF SlotsTyped, Pointed, BanquetsStay, OthersKept, Exists, BanquetRequest

LEMMA EntryTyped ==
  ASSUME NEW q \in Request, q.op \in AdminOps
  PROVE  Entry(q) \in Banquets \X AdminAction
  <1>1. q.banquet \in Banquets
    BY DEF Request, AdminOps
  <1>2. QED
    BY <1>1 DEF Entry, AdminOps, AdminAction

LEMMA TypesInit == Init => Types
  <1> SUFFICES ASSUME Init PROVE Types
    OBVIOUS
  <1>1. StoresTyped /\ SlotsTyped /\ Pointed
    BY NothingTyped, CatalogueAssumptions DEF Init, StoresTyped, SlotsTyped, Pointed, Steps
  <1>2. QED
    BY <1>1 DEF Types

\* The writes of an owner: the document becomes written, or stays.
LEMMA UpdateTypes ==
  ASSUME Types, NEW r \in Requests, pc[r] = "write", NEW b, b = request[r].banquet,
         NEW written, Found(b) => written \in Banquet, Update(r, b, written)
  PROVE  Types'
  <1> USE DEF Types
  <1>1. b \in Banquets
    BY DEF SlotsTyped, BanquetRequest
  <1>2. banquets' \in [Banquets -> Banquet \cup {NoBanquet}] /\ BanquetsStay
    BY <1>1, CatalogueAssumptions DEF Update, StoresTyped, BanquetsStay, Exists
  <1>3. SlotsTyped' /\ OthersKept(r) /\ pc'[r] = "idle"
    BY FinishSlots DEF Update
  <1>4. StoresTyped'
    BY <1>2 DEF Update, StoresTyped
  <1>5. QED
    BY <1>2, <1>3, <1>4, StepPointed

\* The saves of an administrator.
LEMMA SaveStatusTypes ==
  ASSUME Types, NEW r \in Requests, NEW op \in AdminOps, NEW status \in BanquetStatus,
         SaveStatus(r, op, status)
  PROVE  Types'
  <1> USE DEF Types
  <1>1. pc[r] = "write" /\ request[r].op = op /\ request[r] \in BanquetRequest
    BY DEF SaveStatus, Serving, At, SlotsTyped
  <1>2. request[r].banquet \in Banquets /\ Exists(request[r].banquet)
    BY <1>1 DEF BanquetRequest, Pointed, Exists
  <1>3. [banquets[request[r].banquet] EXCEPT !.status = status] \in Banquet
    BY <1>2 DEF StoresTyped, Exists, Banquet
  <1>4. banquets' \in [Banquets -> Banquet \cup {NoBanquet}] /\ BanquetsStay
    BY <1>2, <1>3, CatalogueAssumptions DEF SaveStatus, StoresTyped, BanquetsStay, Exists
  <1>5. SlotsTyped' /\ OthersKept(r) /\ pc'[r] = "log"
    BY <1>1, GotoSlots DEF SaveStatus, Steps
  <1>6. StoresTyped'
    BY <1>4 DEF SaveStatus, StoresTyped
  <1>7. QED
    BY <1>4, <1>5, <1>6, StepPointed

LEMMA TypesProgress ==
  ASSUME Types, NEW r \in Requests, Progress(r)
  PROVE  Types'
  <1> USE DEF Types
  <1>a. \A b \in Banquets : Found(b) => banquets[b] \in Banquet
    BY DEF Found, Exists, StoresTyped
  <1>b. pc[r] = "write" => request[r].banquet \in Banquets
    BY DEF SlotsTyped, BanquetRequest
  <1>c. ASSUME banquets' = banquets PROVE BanquetsStay
    BY <1>c DEF BanquetsStay, Exists
  <1>1. CASE Find(r)
    <2>1. StoresTyped' /\ BanquetsStay
      BY <1>1, <1>c DEF Find, stores, StoresTyped
    <2>2. pc[r] = "find" /\ request[r] \in BanquetRequest
      BY <1>1 DEF Find, At, SlotsTyped
    <2>3. CASE Goto(r, "write") \/ Goto(r, "resave")
      <3>1. SlotsTyped' /\ OthersKept(r) /\ request'[r] = request[r]
        <4>1. \A step \in {"write", "resave"} : step \in Steps \ {"idle", "find"}
          BY DEF Steps
        <4>2. QED
          BY <2>2, <2>3, <4>1, GotoSlots
      <3>2. banquets'[request'[r].banquet] # NoBanquet
        BY <1>1, <2>2, <3>1 DEF Find, stores, Pointed
      <3>3. QED
        BY <2>1, <3>1, <3>2, StepPointed
    <2>4. CASE Finish(r)
      BY <2>1, <2>4, FinishSlots, StepPointed
    <2>5. QED
      BY <1>1, <2>3, <2>4 DEF Find
  <1>2. CASE UpdateBanquet(r)
    BY <1>2, <1>a, <1>b, UpdateTypes DEF UpdateBanquet, Serving, At
  <1>3. CASE PublishBanquet(r)
    <2> DEFINE b == request[r].banquet
    <2>1. Found(b) => [banquets[b] EXCEPT !.status = "PUBLISHED", !.listed = TRUE] \in Banquet
      BY <1>3, <1>a, <1>b DEF PublishBanquet, Serving, At, Banquet, BanquetStatus
    <2>2. QED
      BY <1>3, <2>1, UpdateTypes DEF PublishBanquet, Serving, At
  <1>4. CASE UnpublishBanquet(r)
    <2> DEFINE b == request[r].banquet
    <2>1. Found(b) => [banquets[b] EXCEPT !.status = "UNAVAILABLE"] \in Banquet
      BY <1>4, <1>a, <1>b DEF UnpublishBanquet, Serving, At, Banquet, BanquetStatus
    <2>2. QED
      BY <1>4, <2>1, UpdateTypes DEF UnpublishBanquet, Serving, At
  <1>5. CASE DeleteBanquet(r)
    <2> DEFINE b == request[r].banquet
    <2>1. Found(b) => Deleted(b) \in Banquet
      BY <1>5, <1>a, <1>b DEF DeleteBanquet, Deleted, Serving, At, Banquet
    <2>2. QED
      BY <1>5, <2>1, UpdateTypes DEF DeleteBanquet, Serving, At
  <1>6. CASE ApproveBanquet(r) \/ RejectBanquet(r)
    <2>1. CASE UNCHANGED stores
      <3>1. CASE Serving(r, "resave", "reject") /\ Goto(r, "log")
        <4>1. pc[r] = "resave" /\ request[r].op \in AdminOps
          BY <3>1 DEF Serving, At, AdminOps
        <4>2. SlotsTyped' /\ OthersKept(r) /\ pc'[r] = "log"
          BY <3>1, <4>1, GotoSlots DEF Steps
        <4>3. StoresTyped' /\ BanquetsStay
          BY <2>1, <1>b, <1>c DEF stores, StoresTyped
        <4>4. QED
          BY <4>2, <4>3, StepPointed
      <3>2. QED
        BY <1>6, <3>1, SaveStatusTypes
           DEF ApproveBanquet, RejectBanquet, AdminOps, BanquetStatus
    <2>2. QED
      BY <1>6, <2>1, SaveStatusTypes
         DEF ApproveBanquet, RejectBanquet, AdminOps, BanquetStatus
  <1>7. CASE FeatureBanquet(r)
    <2>1. pc[r] = "write" /\ request[r].op \in AdminOps
      BY <1>7 DEF FeatureBanquet, Serving, At, AdminOps
    <2>2. SlotsTyped' /\ OthersKept(r) /\ pc'[r] = "log"
      BY <1>7, <2>1, GotoSlots DEF FeatureBanquet, Steps
    <2>3. StoresTyped' /\ BanquetsStay
      BY <1>7, <1>b, <1>c, <2>1 DEF FeatureBanquet, StoresTyped
    <2>4. QED
      BY <2>2, <2>3, StepPointed
  <1>8. CASE LogActivity(r)
    <2>1. Entry(request[r]) \in Banquets \X AdminAction
      BY <1>8, EntryTyped DEF LogActivity, At, SlotsTyped
    <2>2. StoresTyped' /\ BanquetsStay
      BY <1>8, <1>c, <2>1 DEF LogActivity, StoresTyped
    <2>3. QED
      BY <1>8, <2>2, FinishSlots, StepPointed DEF LogActivity
  <1>9. CASE CacheHit(r)
    BY <1>9, <1>c, FinishSlots, StepPointed DEF CacheHit, stores, StoresTyped
  <1>10. CASE CacheMiss(r)
    <2>1. SlotsTyped' /\ OthersKept(r) /\ pc'[r] = "query"
      BY <1>10, GotoSlots DEF CacheMiss, At, Steps
    <2>2. QED
      BY <1>10, <1>c, <2>1, StepPointed DEF CacheMiss, stores, StoresTyped
  <1>11. CASE Query(r)
    <2>1. [data |-> Matching] \in SearchResult
      BY DEF Matching, SearchResult
    <2>2. SlotsTyped' /\ OthersKept(r) /\ pc'[r] = "store"
      BY <1>11, <2>1 DEF Query, At, SlotsTyped, OthersKept, Steps
    <2>3. QED
      BY <1>11, <1>c, <2>2, StepPointed DEF Query, stores, StoresTyped
  <1>12. CASE SetCachedResults(r)
    <2>1. StoresTyped' /\ BanquetsStay
      BY <1>12, <1>c DEF SetCachedResults, StoresTyped, SlotsTyped
    <2>2. QED
      BY <1>12, <2>1, FinishSlots, StepPointed DEF SetCachedResults
  <1>13. QED
    BY <1>1, <1>2, <1>3, <1>4, <1>5, <1>6, <1>7, <1>8, <1>9, <1>10, <1>11, <1>12
    DEF Progress

LEMMA TypesNext ==
  ASSUME Types, [Next]_vars
  PROVE  Types'
  <1> USE DEF Types
  <1>1. ASSUME NEW b \in Banquets, CreateBanquet(b) PROVE Types'
    <2>1. [status |-> "DRAFT", deleted |-> FALSE, listed |-> FALSE] \in Banquet
      BY DEF Banquet, BanquetStatus
    <2>2. StoresTyped' /\ BanquetsStay
      BY <1>1, <2>1, CatalogueAssumptions DEF CreateBanquet, StoresTyped, BanquetsStay, Exists
    <2>3. SlotsTyped' /\ Pointed'
      BY <1>1, <2>2 DEF CreateBanquet, SlotsTyped, Pointed, BanquetsStay, Exists,
         BanquetRequest
    <2>4. QED
      BY <2>2, <2>3
  <1>2. ASSUME NEW r \in Requests, NEW op \in OwnerOps \cup AdminOps, NEW b \in Banquets,
               Ask(r, op, b)
        PROVE  Types'
    <2> DEFINE q == [op |-> op, banquet |-> b]
    <2>1. q \in BanquetRequest /\ q \in Request /\ q # NoRequest
      BY CatalogueAssumptions DEF BanquetRequest, Request
    <2>2. SlotsTyped' /\ OthersKept(r) /\ request'[r] = q
      BY <1>2, <2>1 DEF Ask, Arrive, At, SlotsTyped, OthersKept, Steps
    <2>3. StoresTyped' /\ BanquetsStay /\ banquets' = banquets
      BY <1>2 DEF Ask, Arrive, stores, StoresTyped, BanquetsStay, Exists
    <2>4. banquets'[request'[r].banquet] # NoBanquet
      BY <1>2, <2>2, <2>3 DEF Ask, Exists
    <2>5. QED
      BY <2>2, <2>3, <2>4, StepPointed
  <1>3. ASSUME NEW r \in Requests, SearchBanquets(r) PROVE Types'
    <2>1. [op |-> "search"] \in Request /\ [op |-> "search"] # NoRequest
      BY CatalogueAssumptions DEF Request
    <2>2. SlotsTyped' /\ OthersKept(r) /\ pc'[r] = "lookup"
      BY <1>3, <2>1 DEF SearchBanquets, Arrive, At, SlotsTyped, OthersKept, Steps
    <2>3. StoresTyped' /\ BanquetsStay
      BY <1>3 DEF SearchBanquets, Arrive, stores, StoresTyped, BanquetsStay, Exists
    <2>4. QED
      BY <2>2, <2>3, StepPointed
  <1>4. ASSUME NEW r \in Requests, Fail(r) PROVE Types'
    <2>1. At(r, "log") => Entry(request[r]) \in Banquets \X AdminAction
      BY <1>4, EntryTyped DEF At, SlotsTyped
    <2>2. StoresTyped' /\ BanquetsStay
      BY <1>4, <2>1 DEF Fail, StoresTyped, BanquetsStay, Exists
    <2>3. QED
      BY <1>4, <2>2, FinishSlots, StepPointed DEF Fail
  <1>5. CASE Expire \/ UNCHANGED vars
    BY <1>5 DEF Expire, vars, StoresTyped, SlotsTyped, Pointed
  <1>6. QED
    BY <1>1, <1>2, <1>3, <1>4, <1>5, TypesProgress DEF Next

LEMMA TypesAlways == Spec => []Types
  BY TypesInit, TypesNext, PTL DEF Spec

\* Documents stay whole and are never removed, and a request that has found its
\* banquet can rely on it to be there.
THEOREM TypeCorrect == Spec => []TypeOK
  <1>1. Types => TypeOK
    BY DEF Types, StoresTyped, SlotsTyped, Pointed, TypeOK
  <1>2. QED
    BY TypesAlways, <1>1, PTL

-----------------------------------------------------------------------------
(* The log of the administrators' actions.                                 *)

LogInv ==
  \A b \in Banquets :
    /\ Exists(b) /\ banquets[b].status = "REJECTED" => Accounted(b, "BANQUET_REJECTED")
    /\ Exists(b) /\ banquets[b].status = "PUBLISHED" /\ ~banquets[b].listed
         => Accounted(b, "BANQUET_APPROVED")
    /\ b \in featured => Accounted(b, "BANQUET_FEATURED")

\* An entry that is owed is written or lost, and never forgotten.
LEMMA AccountedStays ==
  ASSUME Types, [Next]_vars, NEW b, NEW action, Accounted(b, action)
  PROVE  Accounted(b, action)'
  <1>1. activities \subseteq activities' /\ unlogged \subseteq unlogged'
    BY DEF Next, CreateBanquet, Ask, SearchBanquets, Arrive, Progress, Find, Update,
       UpdateBanquet, PublishBanquet, UnpublishBanquet, DeleteBanquet, SaveStatus,
       ApproveBanquet, RejectBanquet, FeatureBanquet, LogActivity, CacheHit, CacheMiss,
       Query, SetCachedResults, Fail, Expire, stores, vars
  <1>2. CASE <<b, action>> \in activities \cup unlogged
    BY <1>1, <1>2 DEF Accounted
  <1>3. ASSUME NEW r \in Requests, At(r, "log"), Entry(request[r]) = <<b, action>>
        PROVE  Accounted(b, action)'
    <2> USE DEF At, Types, SlotsTyped
    <2>1. CASE LogActivity(r) \/ Fail(r)
      BY <1>3, <2>1 DEF LogActivity, Fail, Accounted
    <2>2. CASE pc'[r] = "log" /\ request'[r] = request[r]
      BY <1>3, <2>2 DEF Accounted, Entry
    <2>3. ASSUME NEW x \in Requests, Progress(x), ~LogActivity(r)
          PROVE  pc'[r] = "log" /\ request'[r] = request[r]
      <3>1. x # r
        BY <1>3, <2>3 DEF Progress, Find, UpdateBanquet, PublishBanquet,
           UnpublishBanquet, DeleteBanquet, SaveStatus, ApproveBanquet, RejectBanquet,
           FeatureBanquet, CacheHit, CacheMiss, Query, SetCachedResults, Serving
      <3>2. \/ Finish(x)
            \/ \E step \in Steps : Goto(x, step)
            \/ Query(x)
        BY <2>3 DEF Progress, Find, UpdateBanquet, PublishBanquet,
           UnpublishBanquet, DeleteBanquet, Update, SaveStatus, ApproveBanquet,
           RejectBanquet, FeatureBanquet, LogActivity, CacheHit, CacheMiss,
           SetCachedResults, Steps
      <3>3. QED
        BY <1>3, <3>1, <3>2 DEF Finish, Goto, Query
    <2>4. ASSUME NEW x \in Requests,
                 \/ SearchBanquets(x)
                 \/ \E op \in OwnerOps \cup AdminOps, c \in Banquets : Ask(x, op, c)
          PROVE  pc'[r] = "log" /\ request'[r] = request[r]
      BY <1>3, <2>4 DEF SearchBanquets, Ask, Arrive
    <2>5. ASSUME NEW x \in Requests, Fail(x), x # r
          PROVE  pc'[r] = "log" /\ request'[r] = request[r]
      BY <1>3, <2>5 DEF Fail, Finish
    <2>6. ASSUME \/ \E c \in Banquets : CreateBanquet(c)
                 \/ Expire \/ UNCHANGED vars
          PROVE  pc'[r] = "log" /\ request'[r] = request[r]
      BY <1>3, <2>6 DEF CreateBanquet, Expire, vars
    <2>7. QED
      BY <2>1, <2>2, <2>3, <2>4, <2>5, <2>6 DEF Next
  <1>4. QED
    BY <1>2, <1>3 DEF Accounted

\* An administrator's save owes the entry of its operation.
LEMMA SaveOwes ==
  ASSUME Types, NEW r \in Requests, Goto(r, "log"), NEW b, NEW action,
         Entry(request[r]) = <<b, action>>
  PROVE  Accounted(b, action)'
  BY DEF Types, SlotsTyped, Goto, Accounted, At, Entry

LEMMA LogInvNext ==
  ASSUME Types, LogInv, [Next]_vars
  PROVE  LogInv'
  <1> USE DEF Types
  <1>a. \A b, action : Accounted(b, action) => Accounted(b, action)'
    BY AccountedStays
  <1>b. ASSUME featured' = featured, NEW c \in Banquets,
               \A b \in Banquets \ {c} : banquets'[b] = banquets[b],
               banquets'[c].status = "REJECTED" => Accounted(c, "BANQUET_REJECTED")',
               banquets'[c].status = "PUBLISHED" /\ ~banquets'[c].listed
                 => Accounted(c, "BANQUET_APPROVED")'
        PROVE  LogInv'
    BY <1>a, <1>b DEF LogInv, Exists
  <1>1. CASE UNCHANGED <<banquets, featured>>
    BY <1>a, <1>1 DEF LogInv, Exists
  <1>2. ASSUME NEW b \in Banquets, CreateBanquet(b) PROVE LogInv'
    BY <1>2, <1>b DEF CreateBanquet, StoresTyped
  <1>3. ASSUME NEW r \in Requests,
               \/ UpdateBanquet(r) \/ PublishBanquet(r)
               \/ UnpublishBanquet(r) \/ DeleteBanquet(r)
        PROVE  LogInv'
    <2>1. request[r].banquet \in Banquets
      BY <1>3 DEF UpdateBanquet, PublishBanquet, UnpublishBanquet, DeleteBanquet, Serving,
         At, SlotsTyped, BanquetRequest
    <2>2. PICK b \in Banquets : b = request[r].banquet
      BY <2>1
    <2>3. featured' = featured /\ (banquets' = banquets \/ Found(b))
      BY <1>3, <2>2 DEF UpdateBanquet, PublishBanquet, UnpublishBanquet, DeleteBanquet, Update
    <2>4. CASE Found(b)
      <3>1. banquets[b] \in Banquet /\ Exists(b)
        BY <2>4 DEF Found, Exists, StoresTyped
      <3>2. \A c \in Banquets \ {b} : banquets'[c] = banquets[c]
        BY <1>3, <2>2 DEF UpdateBanquet, PublishBanquet, UnpublishBanquet, DeleteBanquet,
           Update, StoresTyped
      <3> DEFINE Harmless ==
            \/ banquets'[b].status = banquets[b].status
                 /\ banquets'[b].listed = banquets[b].listed
            \/ banquets'[b].status = "PUBLISHED" /\ banquets'[b].listed
            \/ banquets'[b].status = "UNAVAILABLE"
      <3>3. ASSUME UpdateBanquet(r) PROVE Harmless
        BY <2>2, <2>4, <3>1, <3>3 DEF UpdateBanquet, Update, Found, Exists, StoresTyped
      <3>4. ASSUME PublishBanquet(r) PROVE Harmless
        <4>1. banquets'[b] = [banquets[b] EXCEPT !.status = "PUBLISHED", !.listed = TRUE]
          BY <2>2, <2>4, <3>4 DEF PublishBanquet, Update, Found, Exists, StoresTyped
        <4>2. QED
          BY <3>1, <4>1 DEF Banquet
      <3>5. ASSUME UnpublishBanquet(r) PROVE Harmless
        <4>1. banquets'[b] = [banquets[b] EXCEPT !.status = "UNAVAILABLE"]
          BY <2>2, <2>4, <3>5 DEF UnpublishBanquet, Update, Found, Exists, StoresTyped
        <4>2. QED
          BY <3>1, <4>1 DEF Banquet
      <3>6. ASSUME DeleteBanquet(r) PROVE Harmless
        <4>1. banquets'[b] = [banquets[b] EXCEPT !.deleted = TRUE]
          BY <2>2, <2>4, <3>6 DEF DeleteBanquet, Deleted, Update, Found, Exists, StoresTyped
        <4>2. QED
          BY <3>1, <4>1 DEF Banquet
      <3>7. Harmless
        BY <1>3, <3>3, <3>4, <3>5, <3>6
      <3>8. /\ banquets'[b].status = "REJECTED" => Accounted(b, "BANQUET_REJECTED")'
            /\ banquets'[b].status = "PUBLISHED" /\ ~banquets'[b].listed
                 => Accounted(b, "BANQUET_APPROVED")'
        BY <1>a, <3>1, <3>7 DEF LogInv
      <3>9. QED
        BY <1>b, <2>3, <3>2, <3>8
    <2>5. QED
      BY <1>1, <2>3, <2>4
  <1>4. ASSUME NEW r \in Requests, ApproveBanquet(r) \/ RejectBanquet(r),
               ~UNCHANGED stores
        PROVE  LogInv'
    <2>a. \/ SaveStatus(r, "approve", "PUBLISHED")
          \/ SaveStatus(r, "reject", "REJECTED")
      BY <1>4 DEF ApproveBanquet, RejectBanquet
    <2>1. request[r].banquet \in Banquets /\ Exists(request[r].banquet)
      BY <2>a DEF SaveStatus, Serving, At, SlotsTyped,
         BanquetRequest, Pointed, Exists
    <2>2. PICK b \in Banquets : b = request[r].banquet /\ banquets[b] \in Banquet
      BY <2>1 DEF Exists, StoresTyped
    <2>3. /\ featured' = featured
          /\ \A c \in Banquets \ {b} : banquets'[c] = banquets[c]
      BY <2>a, <2>2 DEF SaveStatus, StoresTyped
    <2>4. \/ /\ banquets'[b].status = "PUBLISHED"
             /\ Entry(request[r]) = <<b, "BANQUET_APPROVED">>
          \/ /\ banquets'[b].status = "REJECTED"
             /\ Entry(request[r]) = <<b, "BANQUET_REJECTED">>
      BY <2>a, <2>2 DEF SaveStatus, Serving, Entry,
         StoresTyped, Banquet
    <2>5. /\ banquets'[b].status = "REJECTED" => Accounted(b, "BANQUET_REJECTED")'
          /\ banquets'[b].status = "PUBLISHED" => Accounted(b, "BANQUET_APPROVED")'
      BY <2>a, <2>4, SaveOwes DEF SaveStatus
    <2>6. QED
      BY <1>b, <2>3, <2>5
  <1>5. ASSUME NEW r \in Requests, FeatureBanquet(r) PROVE LogInv'
    <2>1. PICK b : b = request[r].banquet
      OBVIOUS
    <2>2. Accounted(b, "BANQUET_FEATURED")'
      BY <1>5, <2>1, SaveOwes DEF FeatureBanquet, Serving, At, Entry
    <2>3. banquets' = banquets /\ featured' = featured \cup {b}
      BY <1>5, <2>1 DEF FeatureBanquet
    <2>4. QED
      BY <1>a, <2>2, <2>3 DEF LogInv, Exists
  <1>6. QED
    <2>1. ASSUME NEW r \in Requests, Progress(r) PROVE LogInv'
      BY <1>1, <1>3, <1>4, <1>5, <2>1 DEF Progress, Find, LogActivity, CacheHit,
         CacheMiss, Query, SetCachedResults, stores
    <2>2. QED
      BY <1>1, <1>2, <2>1 DEF Next, Ask, SearchBanquets, Arrive, Fail, Expire, stores, vars

\* Whatever is rejected, public without its owner's doing, or featured was made so by
\* an administrator whose entry is in the log, about to be written, or was lost by a
\* failure between the two writes.
THEOREM LogStaysComplete == Spec => []LogAccounts
  <1>1. Init => LogInv
    BY DEF Init, LogInv, Exists
  <1>2. LogInv => LogAccounts
    BY DEF LogInv, LogAccounts
  <1>3. QED
    BY TypesAlways, <1>1, <1>2, LogInvNext, PTL DEF Spec
-----------------------------------------------------------------------------
(* Stale results.  StaleResultsEnd is a liveness property and stays with   *)
(* TLC; what it rests on is proved here for every instance.                *)

\* The searches that have found b and are about to cache what they found.
Finders(b) == {r \in Requests : At(r, "store") /\ b \in result[r].data}
Listed(b) == cache # NoResult /\ b \in cache.data

\* While a banquet is not public no further search finds it, so the searches that have
\* found it only get fewer; and each time it comes back into the cache, after the time
\* to live has taken it out or another result has replaced it, uses one of them up.
StaleResultsDrain ==
  [][\A b \in Banquets : ~Published(b) =>
       /\ Finders(b)' \subseteq Finders(b)
       /\ Listed(b)' => Listed(b) \/ Finders(b)' # Finders(b)]_vars

THEOREM StaleResultsAreUsedUp == Spec => StaleResultsDrain
  <1>1. ASSUME Types, [Next]_vars
        PROVE  [\A b \in Banquets : ~Published(b) =>
                  /\ Finders(b)' \subseteq Finders(b)
                  /\ Listed(b)' => Listed(b) \/ Finders(b)' # Finders(b)]_vars
    <2> SUFFICES ASSUME NEW b \in Banquets, ~Published(b), Next
                 PROVE  /\ Finders(b)' \subseteq Finders(b)
                        /\ Listed(b)' => Listed(b) \/ Finders(b)' # Finders(b)
      BY <1>1
    <2>1. pc \in [Requests -> Steps] /\ result \in [Requests -> SearchResult]
      BY <1>1 DEF Types, SlotsTyped
    <2> DEFINE Kept(r) == pc'[r] = pc[r] /\ result'[r] = result[r]
    <2>2. ASSUME NEW r \in Requests, \A q \in Requests \ {r} : Kept(q),
                 pc'[r] = "store" => b \notin result'[r].data
          PROVE  Finders(b)' \subseteq Finders(b)
      BY <2>2 DEF Finders, At
    <2>3. ASSUME NEW r \in Requests, SetCachedResults(r)
          PROVE  /\ Finders(b)' \subseteq Finders(b)
                 /\ Listed(b)' => Finders(b)' # Finders(b)
      <3>1. pc'[r] = "idle" /\ \A q \in Requests \ {r} : Kept(q)
        BY <2>1, <2>3 DEF SetCachedResults, Finish
      <3>2. Listed(b)' => r \in Finders(b) /\ r \notin Finders(b)'
        BY <2>3, <3>1 DEF SetCachedResults, Listed, Finders, At
      <3>3. QED
        BY <2>2, <3>1, <3>2
    <2>4. ASSUME NEW r \in Requests, Query(r)
          PROVE  Finders(b)' \subseteq Finders(b) /\ UNCHANGED cache
      <3>1. b \notin result'[r].data /\ UNCHANGED cache
        BY <2>1, <2>4 DEF Query, Matching, stores
      <3>2. \A q \in Requests \ {r} : Kept(q)
        BY <2>1, <2>4 DEF Query
      <3>3. QED
        BY <2>2, <3>1, <3>2
    <2>5. ASSUME NEW r \in Requests,
                 \/ SearchBanquets(r) \/ Fail(r)
                 \/ \E op \in OwnerOps \cup AdminOps, c \in Banquets : Ask(r, op, c)
                 \/ Progress(r) /\ ~SetCachedResults(r) /\ ~Query(r)
          PROVE  Finders(b)' \subseteq Finders(b) /\ UNCHANGED cache
      <3>1. UNCHANGED cache
        BY <2>5 DEF SearchBanquets, Ask, Arrive, Fail, Progress, Find, UpdateBanquet,
           PublishBanquet, UnpublishBanquet, DeleteBanquet, Update, SaveStatus,
           ApproveBanquet, RejectBanquet, FeatureBanquet, LogActivity, CacheHit,
           CacheMiss, stores
      <3>2. \/ Finish(r)
            \/ \E step \in Steps \ {"store"} :
                 pc' = [pc EXCEPT ![r] = step] /\ UNCHANGED result
        BY <2>5 DEF SearchBanquets, Ask, Arrive, Fail, Progress, Find, UpdateBanquet,
           PublishBanquet, UnpublishBanquet, DeleteBanquet, Update, SaveStatus,
           ApproveBanquet, RejectBanquet, FeatureBanquet, LogActivity, CacheHit,
           CacheMiss, Goto, Steps
      <3>3. pc'[r] # "store" /\ \A q \in Requests \ {r} : Kept(q)
        BY <2>1, <3>2 DEF Finish
      <3>4. QED
        BY <2>2, <3>1, <3>3
    <2>6. ASSUME Expire \/ \E c \in Banquets : CreateBanquet(c)
          PROVE  Finders(b)' = Finders(b) /\ (Listed(b)' => Listed(b))
      BY <2>6 DEF Expire, CreateBanquet, Finders, Listed, At
    <2>7. UNCHANGED cache => (Listed(b)' => Listed(b))
      BY DEF Listed
    <2>8. QED
      BY <2>3, <2>4, <2>5, <2>6, <2>7 DEF Next
  <1>2. QED
    BY <1>1, TypesAlways, PTL DEF Spec, StaleResultsDrain
=============================================================================
