--------------------------- MODULE WebClientProofs ---------------------------
(***************************************************************************)
(* Theorems about WebClient, for any accounts, queries and tours.          *)
(***************************************************************************)
EXTENDS WebClient, TLAPS

-----------------------------------------------------------------------------
(* Types.  They are split as the actions are: what is in the tab, and what *)
(* is around it.                                                           *)

InTabTyped ==
  /\ page \in tour.pages
  /\ cache \in [Queries -> Entry \cup {NoData}]
  /\ fetch \in [Queries -> Fetch \cup {NoFetch}]
  /\ stray \in BOOLEAN

AroundTyped ==
  /\ tour \in Tours
  /\ accessToken \in Users \cup {NoUser}
  /\ versions \in [Queries -> 0..MaxWrites]
  /\ mutation \in Pending \cup {NoMutation}
  /\ leaving \in BOOLEAN
  /\ due \in [Queries -> 0..MaxWrites]
  /\ left \subseteq Users

LEMMA TypeOKSplit == TypeOK <=> InTabTyped /\ AroundTyped
  BY DEF TypeOK, InTabTyped, AroundTyped

LEMMA NewFetchTyped ==
  ASSUME AroundTyped PROVE NewFetch \in Fetch
  BY WebClientAssumptions DEF AroundTyped, NewFetch, Fetch

LEMMA EmptyTyped == Shown(NoUser, 0, TRUE) \in Entry
  BY WebClientAssumptions DEF Shown, Entry

LEMMA FetchFields ==
  ASSUME InTabTyped, NEW q \in Queries, ~Idle(q)
  PROVE  /\ fetch[q] \in Fetch
         /\ fetch[q].token \in Users \cup {NoUser} /\ fetch[q].version \in 0..MaxWrites
  BY DEF InTabTyped, Idle, Fetch

LEMMA MutationFields ==
  ASSUME AroundTyped, mutation # NoMutation
  PROVE  mutation \in Pending /\ mutation.user \in Users /\ mutation.done \in BOOLEAN
  BY DEF AroundTyped, Pending

LEMMA LoginIsVisited ==
  ASSUME AroundTyped PROVE LoginPage \in tour.pages
  BY WebClientAssumptions DEF AroundTyped

LEMMA GiveUpTyped ==
  ASSUME InTabTyped, AroundTyped, NEW q \in Queries, GiveUp(q)
  PROVE  /\ cache' \in [Queries -> Entry \cup {NoData}]
         /\ fetch' \in [Queries -> Fetch \cup {NoFetch}]
  BY NewFetchTyped, EmptyTyped DEF GiveUp, InTabTyped

LEMMA TypesInit == Init => InTabTyped /\ AroundTyped
  <1> SUFFICES ASSUME Init PROVE InTabTyped /\ AroundTyped
    OBVIOUS
  <1>1. 0 \in 0..MaxWrites
    BY WebClientAssumptions
  <1>2. LoginPage \in tour.pages
    BY WebClientAssumptions DEF Init
  <1>3. InTabTyped
    BY <1>2 DEF Init, InTabTyped
  <1>4. AroundTyped
    BY <1>1 DEF Init, AroundTyped
  <1>5. QED
    BY <1>3, <1>4

LEMMA TypesNext ==
  ASSUME InTabTyped, AroundTyped, [Next]_vars
  PROVE  InTabTyped' /\ AroundTyped'
  <1> USE DEF history, inTab
  <1>1. ASSUME NEW p \in tour.pages, Visit(p) PROVE InTabTyped' /\ AroundTyped'
    <2>1. PICK stale \in SUBSET (Observed(p) \ Observed(page)) :
            fetch' = [q \in Queries |->
              IF /\ q \in Observed(p) \ Observed(page)
                 /\ Idle(q) /\ Enabled(q)
                 /\ HasData(q) /\ ~cache[q].invalidated => q \in stale
                THEN NewFetch ELSE fetch[q]]
      BY <1>1 DEF Visit
    <2>2. fetch' \in [Queries -> Fetch \cup {NoFetch}]
      BY <2>1, NewFetchTyped DEF InTabTyped
    <2>3. QED
      BY <1>1, <2>2 DEF Visit, InTabTyped, AroundTyped
  <1>2. ASSUME NEW p \in tour.pages, Load(p) PROVE InTabTyped' /\ AroundTyped'
    <2>1. fetch' \in [Queries -> Fetch \cup {NoFetch}]
      BY <1>2, NewFetchTyped DEF Load
    <2>2. InTabTyped'
      BY <1>2, <2>1 DEF Load, InTabTyped
    <2>3. 0 \in 0..MaxWrites
      BY WebClientAssumptions
    <2>4. AroundTyped'
      BY <1>2, <2>3 DEF Load, AroundTyped
    <2>5. QED
      BY <2>2, <2>4
  <1>3. ASSUME NEW q \in Queries, Serve(q) PROVE InTabTyped' /\ AroundTyped'
    <2>1. versions[q] \in 0..MaxWrites /\ fetch[q] \in Fetch
      BY <1>3, FetchFields DEF Serve, Asking, AroundTyped
    <2>2. [fetch[q] EXCEPT !.answered = TRUE, !.version = versions[q]] \in Fetch
      BY <2>1 DEF Fetch
    <2>3. fetch' \in [Queries -> Fetch \cup {NoFetch}]
      BY <1>3, <2>2 DEF Serve, InTabTyped
    <2>4. QED
      BY <1>3, <2>3 DEF Serve, InTabTyped, AroundTyped
  <1>4. ASSUME NEW q \in Queries, FetchDone(q) PROVE InTabTyped' /\ AroundTyped'
    <2>1. Shown(fetch[q].token, fetch[q].version, FALSE) \in Entry
      BY <1>4, FetchFields DEF FetchDone, Shown, Entry
    <2>2. QED
      BY <1>4, <2>1 DEF FetchDone, InTabTyped, AroundTyped
  <1>5. ASSUME NEW q \in Queries, FetchFailed(q) PROVE InTabTyped' /\ AroundTyped'
    BY <1>5, GiveUpTyped DEF FetchFailed, InTabTyped, AroundTyped
  <1>6. ASSUME NEW q \in Queries, FetchRefused(q) PROVE InTabTyped' /\ AroundTyped'
    BY <1>6, GiveUpTyped DEF FetchRefused, InTabTyped, AroundTyped
  <1>7. ASSUME NEW op \in page.mutations, NEW u \in Users, Mutate(op, u)
        PROVE  InTabTyped' /\ AroundTyped'
    <2>1. page \in AllPages
      BY WebClientAssumptions DEF InTabTyped, AroundTyped
    <2>2. mutation' \in Pending
      BY <1>7, <2>1 DEF Mutate, Pending
    <2>3. QED
      BY <1>7, <2>2 DEF Mutate, InTabTyped, AroundTyped
  <1>8. CASE StrayRefused
    BY <1>8 DEF StrayRefused, InTabTyped, AroundTyped
  <1>9. CASE Write
    <2>1. mutation' \in Pending
      BY <1>9, MutationFields DEF Write, Pending
    <2>2. \A q \in Queries : versions[q] \in 0..MaxWrites
      BY DEF AroundTyped
    <2>3. \A q \in Queries :
            (IF q \in Writes(mutation.op) THEN versions[q] + 1 ELSE versions[q]) \in 0..MaxWrites
      BY <1>9, <2>2, WebClientAssumptions DEF Write
    <2>4. versions' \in [Queries -> 0..MaxWrites]
      BY <1>9, <2>3 DEF Write
    <2>5. QED
      BY <1>9, <2>1, <2>4 DEF Write, InTabTyped, AroundTyped
  <1>10. CASE Succeeded
    <2> DEFINE keys == Invalidated(mutation.op)
    <2>1. \A q \in Queries : HasData(q) => [cache[q] EXCEPT !.invalidated = TRUE] \in Entry
      BY DEF HasData, InTabTyped, Entry
    <2>2. cache' \in [Queries -> Entry \cup {NoData}]
      <3>1. cache' = [q \in Queries |->
              IF q \in keys /\ HasData(q) THEN [cache[q] EXCEPT !.invalidated = TRUE]
              ELSE cache[q]]
        BY <1>10 DEF Succeeded
      <3> HIDE DEF keys
      <3>2. QED
        BY <2>1, <3>1 DEF InTabTyped
    <2>3. fetch' \in [Queries -> Fetch \cup {NoFetch}]
      BY <1>10, NewFetchTyped DEF Succeeded, InTabTyped
    <2>4. due' \in [Queries -> 0..MaxWrites]
      BY <1>10 DEF Succeeded, AroundTyped
    <2>5. stray' \in BOOLEAN
      BY <1>10 DEF Succeeded
    <2>6. QED
      BY <1>10, <2>2, <2>3, <2>4, <2>5 DEF Succeeded, InTabTyped, AroundTyped
  <1>11. CASE LoggedIn
    <2>1. \A q \in Queries : Shown(mutation.user, versions[q], FALSE) \in Entry
      BY <1>11, MutationFields DEF LoggedIn, Shown, Entry, AroundTyped
    <2>2. cache' \in [Queries -> Entry \cup {NoData}]
      BY <1>11, <2>1 DEF LoggedIn, InTabTyped
    <2>3. accessToken' \in Users /\ left' \subseteq Users
      BY <1>11, MutationFields DEF LoggedIn, AroundTyped
    <2>4. QED
      BY <1>11, <2>2, <2>3 DEF LoggedIn, InTabTyped, AroundTyped
  <1>12. CASE LogoutSettled
    <2>1. leaving' \in BOOLEAN
      BY <1>12, MutationFields DEF LogoutSettled, AroundTyped
    <2>2. InTabTyped'
      BY <1>12, LoginIsVisited DEF LogoutSettled, LoggedOut, Cleared, InTabTyped
    <2>3. QED
      BY <1>12, <2>1, <2>2 DEF LogoutSettled, AroundTyped
  <1>13. CASE MutationFailed
    BY <1>13 DEF MutationFailed, InTabTyped, AroundTyped
  <1>14. CASE MutationRefused
    BY <1>14 DEF MutationRefused, InTabTyped, AroundTyped
  <1>15. ASSUME NEW u \in Users \cup {NoUser}, OtherTab(u)
         PROVE  InTabTyped' /\ AroundTyped'
    BY <1>15 DEF OtherTab, InTabTyped, AroundTyped
  <1>16. CASE UNCHANGED vars
    BY <1>16 DEF vars, InTabTyped, AroundTyped
  <1>17. QED
    BY <1>1, <1>2, <1>3, <1>4, <1>5, <1>6, <1>7, <1>8, <1>9, <1>10, <1>11, <1>12, <1>13,
       <1>14, <1>15, <1>16 DEF Next

LEMMA Types == Spec => [](InTabTyped /\ AroundTyped)
  BY TypesInit, TypesNext, PTL DEF Spec

\* What is in the tab and in the storage is always of its kind, whatever is refused,
\* fails or comes late.
THEOREM Typed == Spec => []TypeOK
  BY Types, TypeOKSplit, PTL

-----------------------------------------------------------------------------
(* After a logout.                                                         *)

\* Nothing in the tab is, or will be, of a user who has left: neither the token, nor
\* a request on its way, nor the data.
NothingOf(users) ==
  /\ accessToken \notin users
  /\ \A q \in Queries : ~Idle(q) => fetch[q].token \notin users
  /\ \A q \in Queries : HasData(q) => cache[q].user \notin users

LEMMA NothingInit == Init => NothingOf(left)
  BY DEF Init, NothingOf, HasData, Idle

LEMMA NothingNext ==
  ASSUME InTabTyped, AroundTyped, NothingOf(left), [Next]_vars
  PROVE  NothingOf(left)'
  <1> USE DEF history, inTab
  <1>a. NoUser \notin left /\ NewFetch.token = accessToken
    BY WebClientAssumptions DEF AroundTyped, NewFetch
  <1>b. ASSUME NEW q \in Queries, GiveUp(q), left' = left, accessToken' \in {accessToken, NoUser}
        PROVE  NothingOf(left)'
    <2>1. Shown(NoUser, 0, TRUE).user = NoUser
      BY DEF Shown
    <2>2. QED
      BY <1>a, <1>b, <2>1 DEF GiveUp, NothingOf, HasData, Idle, InTabTyped
  <1>1. ASSUME NEW p \in tour.pages, Visit(p) PROVE NothingOf(left)'
    BY <1>1, <1>a DEF Visit, NothingOf, HasData, Idle
  <1>2. ASSUME NEW p \in tour.pages, Load(p) PROVE NothingOf(left)'
    BY <1>2, <1>a DEF Load, NothingOf, HasData, Idle
  <1>3. ASSUME NEW q \in Queries, Serve(q) PROVE NothingOf(left)'
    <2>1. fetch[q] \in Fetch
      BY <1>3, FetchFields DEF Serve, Asking
    <2>2. fetch'[q].token = fetch[q].token /\ \A x \in Queries \ {q} : fetch'[x] = fetch[x]
      BY <1>3, <2>1 DEF Serve, InTabTyped, Fetch
    <2>3. \A x \in Queries : ~Idle(x)' => ~Idle(x) /\ fetch'[x].token = fetch[x].token
      BY <1>3, <2>2 DEF Serve, Asking, Idle
    <2>4. \A x \in Queries : ~Idle(x)' => fetch'[x].token \notin left
      BY <2>3 DEF NothingOf
    <2>5. cache' = cache /\ left' = left /\ accessToken' = accessToken
      BY <1>3 DEF Serve
    <2>6. QED
      BY <2>4, <2>5 DEF NothingOf, HasData
  <1>4. ASSUME NEW q \in Queries, FetchDone(q) PROVE NothingOf(left)'
    <2>1. cache'[q].user = fetch[q].token /\ \A x \in Queries \ {q} : cache'[x] = cache[x]
      BY <1>4 DEF FetchDone, InTabTyped, Shown
    <2>2. \A x \in Queries : fetch'[x] \in {fetch[x], NoFetch}
      BY <1>4 DEF FetchDone, InTabTyped
    <2>3. \A x \in Queries : HasData(x)' => cache'[x].user \notin left
      BY <1>4, <2>1 DEF FetchDone, NothingOf, HasData
    <2>4. \A x \in Queries : ~Idle(x)' => fetch'[x].token \notin left
      BY <2>2 DEF NothingOf, Idle
    <2>5. left' = left /\ accessToken' = accessToken
      BY <1>4 DEF FetchDone
    <2>6. QED
      BY <2>3, <2>4, <2>5 DEF NothingOf
  <1>5. ASSUME NEW q \in Queries, FetchFailed(q) PROVE NothingOf(left)'
    BY <1>5, <1>b DEF FetchFailed
  <1>6. ASSUME NEW q \in Queries, FetchRefused(q) PROVE NothingOf(left)'
    BY <1>6, <1>b DEF FetchRefused
  <1>7. ASSUME NEW op \in page.mutations, NEW u \in Users, Mutate(op, u)
        PROVE  NothingOf(left)'
    BY <1>7 DEF Mutate, NothingOf, HasData, Idle
  <1>8. CASE StrayRefused
    BY <1>8, <1>a DEF StrayRefused, NothingOf, HasData, Idle
  <1>9. CASE Write
    BY <1>9 DEF Write, NothingOf, HasData, Idle
  <1>10. CASE Succeeded
    <2>1. \A q \in Queries : fetch'[q] \in {fetch[q], NewFetch}
      BY <1>10 DEF Succeeded
    <2>2. \A q \in Queries : HasData(q)' => HasData(q) /\ cache'[q].user = cache[q].user
      BY <1>10 DEF Succeeded, HasData, InTabTyped, Entry
    <2>3. left' = left /\ accessToken' = accessToken
      BY <1>10 DEF Succeeded
    <2>4. QED
      BY <1>a, <2>1, <2>2, <2>3 DEF NothingOf, Idle
  <1>11. CASE LoggedIn
    <2>1. \A q \in Queries : cache'[q].user = mutation.user \/ cache'[q] = cache[q]
      BY <1>11 DEF LoggedIn, Shown
    <2>2. QED
      BY <1>11, <2>1 DEF LoggedIn, NothingOf, HasData, Idle
  <1>12. CASE LogoutSettled
    BY <1>12, WebClientAssumptions
    DEF LogoutSettled, LoggedOut, Cleared, NothingOf, HasData, Idle
  <1>13. CASE MutationFailed
    BY <1>13 DEF MutationFailed, NothingOf, HasData, Idle
  <1>14. CASE MutationRefused
    BY <1>14, <1>a DEF MutationRefused, NothingOf, HasData, Idle
  <1>15. ASSUME NEW u \in Users \cup {NoUser}, OtherTab(u) PROVE NothingOf(left)'
    BY <1>15, <1>a DEF OtherTab, NothingOf, HasData, Idle
  <1>16. CASE UNCHANGED vars
    BY <1>16 DEF vars, NothingOf, HasData, Idle
  <1>17. QED
    BY <1>1, <1>2, <1>3, <1>4, <1>5, <1>6, <1>7, <1>8, <1>9, <1>10, <1>11, <1>12, <1>13,
       <1>14, <1>15, <1>16 DEF Next

\* However many requests were out when a logout settled, nothing that a user's token
\* fetched is in the tab before that user has logged in again.
THEOREM LogoutLeavesNothing == Spec => []AfterLogoutNothingIsLeft
  <1>1. NothingOf(left) => AfterLogoutNothingIsLeft
    BY DEF NothingOf, AfterLogoutNothingIsLeft
  <1>2. Spec => []NothingOf(left)
    BY NothingInit, NothingNext, Types, PTL DEF Spec
  <1>3. QED
    BY <1>1, <1>2, PTL
-----------------------------------------------------------------------------
(* Reading one's writes.  ReadYourWrites speaks of the cache alone; what   *)
(* keeps it is that an answer on its way shows what is due as well, which  *)
(* rests on what the server has: it never falls behind what is due.        *)

FreshData(q) ==
  HasData(q) /\ ~cache[q].invalidated /\ ~cache[q].empty => cache[q].version >= due[q]

FreshAnswer(q) == ~Idle(q) /\ fetch[q].answered => fetch[q].version >= due[q]

ShowsWrites ==
  \A q \in Queries : due[q] <= versions[q] /\ FreshData(q) /\ FreshAnswer(q)

\* The hooks invalidate whatever they promise to show: useBanquets, useBookings and
\* useReviews the lists by their own keys, useAdmin the pending reviews by a prefix.
LEMMA PromisedAreInvalidated ==
  ASSUME NEW m PROVE Promised(m) \subseteq Invalidated(m)
  <1> SUFFICES ASSUME NEW q \in Queries, q \in Promised(m)
               PROVE  \E key \in Keys(m) : IsPrefix(key, q)
    BY DEF Promised, Writes, Invalidated
  <1> USE DEF Keys, AuthMutations, BanquetMutations, BookingMutations, ReviewMutations,
        AdminMutations
  <1>1. \/ q = MyBanquets /\ m \in {"createBanquet", "updateBanquet", "deleteBanquet"}
        \/ q = Banquet /\ m = "updateBanquet"
        \/ q = MyBookings /\ m = "createBooking"
        \/ q = MyReviews /\ m = "createReview"
        \/ q = AdminReviews /\ m = "approveReview"
    BY DEF Promised, Writes
  <1>2. CASE q = MyBanquets /\ m \in {"createBanquet", "updateBanquet", "deleteBanquet"}
    <2>1. MyBanquets \in Keys(m)
      BY <1>2
    <2>2. IsPrefix(MyBanquets, MyBanquets)
      BY DEF IsPrefix, MyBanquets
    <2>3. QED
      BY <1>2, <2>1, <2>2
  <1>3. CASE q = Banquet /\ m = "updateBanquet"
    <2>1. Banquet \in Keys(m)
      BY <1>3
    <2>2. IsPrefix(Banquet, Banquet)
      BY DEF IsPrefix, Banquet
    <2>3. QED
      BY <1>3, <2>1, <2>2
  <1>4. CASE q = MyBookings /\ m = "createBooking"
    <2>1. MyBookings \in Keys(m)
      BY <1>4
    <2>2. IsPrefix(MyBookings, MyBookings)
      BY DEF IsPrefix, MyBookings
    <2>3. QED
      BY <1>4, <2>1, <2>2
  <1>5. CASE q = MyReviews /\ m = "createReview"
    <2>1. MyReviews \in Keys(m)
      BY <1>5
    <2>2. IsPrefix(MyReviews, MyReviews)
      BY DEF IsPrefix, MyReviews
    <2>3. QED
      BY <1>5, <2>1, <2>2
  <1>6. CASE q = AdminReviews /\ m = "approveReview"
    <2>1. <<"admin", "reviews">> \in Keys(m)
      BY <1>6 DEF Administration
    <2>2. IsPrefix(<<"admin", "reviews">>, AdminReviews)
      BY DEF IsPrefix, AdminReviews
    <2>3. QED
      BY <1>6, <2>1, <2>2
  <1>7. QED
    BY <1>1, <1>2, <1>3, <1>4, <1>5, <1>6

LEMMA ShowsWritesNext ==
  ASSUME InTabTyped, AroundTyped, ShowsWrites, [Next]_vars
  PROVE  ShowsWrites'
  <1> USE DEF history, inTab
  <1>a. ~NewFetch.answered
    BY DEF NewFetch
  <1>b. \A q \in Queries : versions[q] \in Nat /\ due[q] \in Nat /\ due[q] <= versions[q]
    BY WebClientAssumptions DEF AroundTyped, ShowsWrites
  <1>c. ASSUME UNCHANGED <<cache, versions, due>>,
               \A q \in Queries : fetch'[q] \in {fetch[q], NewFetch, NoFetch}
        PROVE  ShowsWrites'
    BY <1>a, <1>c DEF ShowsWrites, FreshData, FreshAnswer, HasData, Idle
  <1>d. ASSUME NEW q \in Queries, GiveUp(q), UNCHANGED <<versions, due>>
        PROVE  ShowsWrites'
    <2>1. \A x \in Queries : fetch'[x] \in {fetch[x], NewFetch, NoFetch}
      BY <1>d DEF GiveUp, InTabTyped
    <2>2. \A x \in Queries : cache'[x] = cache[x] \/ cache'[x].empty
      BY <1>d DEF GiveUp, InTabTyped, Shown
    <2>3. QED
      BY <1>a, <1>d, <2>1, <2>2 DEF ShowsWrites, FreshData, FreshAnswer, HasData, Idle
  <1>1. ASSUME NEW p \in tour.pages, Visit(p) PROVE ShowsWrites'
    BY <1>1, <1>c DEF Visit
  <1>2. ASSUME NEW p \in tour.pages, Load(p) PROVE ShowsWrites'
    BY <1>2, <1>a, <1>b DEF Load, ShowsWrites, FreshData, FreshAnswer, HasData, Idle
  <1>3. ASSUME NEW q \in Queries, Serve(q) PROVE ShowsWrites'
    <2>1. fetch[q] \in Fetch
      BY <1>3, FetchFields DEF Serve, Asking
    <2>2. fetch'[q].version = versions[q] /\ \A x \in Queries \ {q} : fetch'[x] = fetch[x]
      BY <1>3, <2>1 DEF Serve, InTabTyped, Fetch
    <2>3. cache' = cache /\ versions' = versions /\ due' = due
      BY <1>3 DEF Serve
    <2>4. \A x \in Queries : FreshAnswer(x)'
      BY <1>b, <2>2, <2>3 DEF ShowsWrites, FreshAnswer, Idle
    <2>5. QED
      BY <2>3, <2>4 DEF ShowsWrites, FreshData, HasData
  <1>4. ASSUME NEW q \in Queries, FetchDone(q) PROVE ShowsWrites'
    <2>1. /\ cache'[q].version = fetch[q].version
          /\ \A x \in Queries \ {q} : cache'[x] = cache[x]
      BY <1>4 DEF FetchDone, InTabTyped, Shown
    <2>2. \A x \in Queries : fetch'[x] \in {fetch[x], NoFetch}
      BY <1>4 DEF FetchDone, InTabTyped
    <2>3. versions' = versions /\ due' = due /\ FreshAnswer(q) /\ ~Idle(q) /\ fetch[q].answered
      BY <1>4 DEF FetchDone, ShowsWrites
    <2>4. \A x \in Queries : FreshData(x)'
      BY <2>1, <2>3 DEF ShowsWrites, FreshData, FreshAnswer, HasData
    <2>5. \A x \in Queries : FreshAnswer(x)'
      BY <2>2, <2>3 DEF ShowsWrites, FreshAnswer, Idle
    <2>6. QED
      BY <2>3, <2>4, <2>5 DEF ShowsWrites
  <1>5. ASSUME NEW q \in Queries, FetchFailed(q) \/ FetchRefused(q) PROVE ShowsWrites'
    BY <1>5, <1>d DEF FetchFailed, FetchRefused
  <1>6. CASE Write
    <2>1. \A q \in Queries : versions'[q] \in {versions[q], versions[q] + 1}
      BY <1>6 DEF Write
    <2>2. cache' = cache /\ fetch' = fetch /\ due' = due
      BY <1>6 DEF Write
    <2>3. \A q \in Queries : due'[q] <= versions'[q]
      BY <1>b, <2>1, <2>2
    <2>4. QED
      BY <2>2, <2>3 DEF ShowsWrites, FreshData, FreshAnswer, HasData, Idle
  <1>7. CASE Succeeded
    <2> DEFINE keys == Invalidated(mutation.op)
    <2>1. /\ cache' = [q \in Queries |->
               IF q \in keys /\ HasData(q) THEN [cache[q] EXCEPT !.invalidated = TRUE]
               ELSE cache[q]]
          /\ fetch' = [q \in Queries |->
               IF q \in keys /\ Refetched(q) THEN NewFetch ELSE fetch[q]]
          /\ due' = [q \in Queries |->
               IF q \in Promised(mutation.op) /\ (Refetched(q) \/ Idle(q)) THEN versions[q]
               ELSE due[q]]
          /\ versions' = versions
      BY <1>7 DEF Succeeded
    <2>2. Promised(mutation.op) \subseteq keys
      BY PromisedAreInvalidated
    <2> HIDE DEF keys
    <2>3. ASSUME NEW q \in Queries, q \in keys, HasData(q) PROVE cache'[q].invalidated
      BY <2>1, <2>3 DEF HasData, InTabTyped, Entry
    <2>4. ASSUME NEW q \in Queries PROVE due'[q] <= versions'[q]
      BY <1>b, <2>1
    <2>5. ASSUME NEW q \in Queries PROVE FreshData(q)'
      <3>1. CASE q \in keys /\ HasData(q)
        BY <2>3, <3>1 DEF FreshData
      <3>2. CASE ~HasData(q)
        BY <2>1, <3>2 DEF FreshData, HasData
      <3>3. CASE q \notin keys
        <4>1. cache'[q] = cache[q] /\ due'[q] = due[q]
          BY <2>1, <2>2, <3>3
        <4>2. QED
          BY <4>1 DEF ShowsWrites, FreshData, HasData
      <3>4. QED
        BY <3>1, <3>2, <3>3
    <2>6. ASSUME NEW q \in Queries PROVE FreshAnswer(q)'
      <3>1. CASE q \in keys /\ Refetched(q)
        BY <1>a, <2>1, <3>1 DEF FreshAnswer
      <3>2. CASE ~(q \in keys /\ Refetched(q))
        <4>1. fetch'[q] = fetch[q] /\ (due'[q] = due[q] \/ Idle(q))
          BY <2>1, <2>2, <3>2
        <4>2. QED
          BY <4>1 DEF ShowsWrites, FreshAnswer, Idle
      <3>3. QED
        BY <3>1, <3>2
    <2>7. QED
      BY <2>4, <2>5, <2>6 DEF ShowsWrites
  <1>8. CASE LoggedIn
    <2>1. \A q \in Queries : cache'[q].version = versions[q] \/ cache'[q] = cache[q]
      BY <1>8 DEF LoggedIn, Shown
    <2>2. fetch' = fetch /\ versions' = versions /\ due' = due
      BY <1>8 DEF LoggedIn
    <2>3. QED
      BY <1>b, <2>1, <2>2 DEF ShowsWrites, FreshData, FreshAnswer, HasData, Idle
  <1>9. CASE LogoutSettled
    BY <1>9 DEF LogoutSettled, LoggedOut, Cleared, ShowsWrites, FreshData, FreshAnswer,
       HasData, Idle
  <1>10. ASSUME \/ \E op \in page.mutations, u \in Users : Mutate(op, u)
                \/ StrayRefused \/ MutationFailed \/ MutationRefused
                \/ \E u \in Users \cup {NoUser} : OtherTab(u)
                \/ UNCHANGED vars
         PROVE  ShowsWrites'
    <2>1. UNCHANGED <<cache, fetch, versions, due>>
      BY <1>10 DEF Mutate, StrayRefused, MutationFailed, MutationRefused, OtherTab, vars
    <2>2. QED
      BY <1>c, <2>1
  <1>11. QED
    BY <1>1, <1>2, <1>3, <1>4, <1>5, <1>6, <1>7, <1>8, <1>9, <1>10 DEF Next

\* Once a mutation's success has been handled, no query passes for valid data that
\* were read before the mutation, whatever fetches were under way.
THEOREM WritesAreRead == Spec => []ReadYourWrites
  <1>1. Init => ShowsWrites
    BY DEF Init, ShowsWrites, FreshData, FreshAnswer, HasData, Idle
  <1>2. ShowsWrites => ReadYourWrites
    BY DEF ShowsWrites, FreshData, ReadYourWrites
  <1>3. QED
    BY Types, <1>1, <1>2, ShowsWritesNext, PTL DEF Spec
=============================================================================
