------------------------------ MODULE WebClient ------------------------------
(***************************************************************************)
(* The web frontend in one tab: the axios client with its interceptors,    *)
(* the hooks over React Query, and the session that they keep in           *)
(* localStorage, which the tab shares with the other tabs of the browser.  *)
(*                                                                         *)
(* A query is its key, a sequence; invalidation matches keys by prefix.    *)
(* What React Query does (the cache, fetches that go on without a          *)
(* component, a fetch that is cancelled only if the query has data) is     *)
(* modelled from how the hooks use it.  The server answers a request       *)
(* with what there is when it serves it, and refuses one without a token,  *)
(* or with one that has expired or whose user is suspended, at any time.   *)
(* A page is the queries that its components observe and the mutations     *)
(* they make; its layout, the state of its forms and the route it leaves   *)
(* for are left open.  One mutation is pending at a time.                  *)
(***************************************************************************)
EXTENDS Naturals, Sequences, SequencesExt

CONSTANTS
  Users,      \* accounts
  Queries,    \* keys of queries
  Tours,      \* what a behaviour looks at: the pages it visits, and queries of theirs
  MaxWrites,  \* bound on the writes the server makes
  NoUser,     \* there is no token
  NoData,     \* the cache has no data for the query
  NoFetch,    \* no fetch of the query is in flight
  NoMutation  \* no mutation is pending

-----------------------------------------------------------------------------
(* The pages.  Each shows the user of the session (useAuth), in the bar or *)
(* the side bar that its layout has or in its own form.                    *)

CurrentUser == <<"currentUser">>
MyBanquets == <<"myBanquets">>
Banquet == <<"banquet", "id">>
MyBookings == <<"myBookings">>
OwnerBookings == <<"ownerBookings">>
MyReviews == <<"reviews", "my">>
Search == {<<"search", "banquets", "filters">>, <<"search", "suggestions", "query">>}
Popular == {<<"trendingBanquets">>, <<"search", "popular">>, <<"search", "trending", "locations">>}
Metrics == {<<"analytics", kind>> : kind \in {"funnel", "revenue", "users", "health"}}
AdminOverview == <<"admin", "overview">>
AdminUsers == <<"admin", "users", "search">>
AdminBanquets == <<"admin", "banquets", "status">>
AdminTickets == <<"admin", "tickets", "status">>
AdminReviews == <<"admin", "reviews", "pending">>

\* The components that make the mutations of a page.
BookingForm == {"createBooking"}
ReviewDialog == {"createReview"}
BanquetForm(onSubmit) == {onSubmit}

PublicPage(queries, mutations) ==
  [queries |-> queries \cup {CurrentUser}, mutations |-> mutations \cup {"logout"}]
SidebarPage(queries, mutations) ==
  [queries |-> queries \cup {CurrentUser}, mutations |-> mutations \cup {"logout"}]
AuthPage(mutation) == [queries |-> {CurrentUser}, mutations |-> {mutation}]

HomePage == PublicPage(Popular, {})
AboutPage == PublicPage({}, {})
SearchPage == PublicPage(Search, {})
BanquetDetailsPage == PublicPage({Banquet}, BookingForm)
BookingFlowPage == PublicPage({Banquet}, {"createBooking"})

LoginPage == AuthPage("login")
RegisterPage == AuthPage("register")
VerifyOtpPage == AuthPage("verifyOtp")

DashboardPage == SidebarPage({}, {})
SettingsPage == SidebarPage({}, {})
OwnerProfilePage == SidebarPage({}, {})
BookingsPage == SidebarPage({MyBookings}, ReviewDialog)
BookingDetailPage == SidebarPage({}, {})
MyReviewsPage == SidebarPage({MyReviews}, {})
BanquetsPage == SidebarPage({MyBanquets}, {"deleteBanquet"})
CreateBanquetPage == SidebarPage({}, BanquetForm("createBanquet"))
EditBanquetPage == SidebarPage({Banquet}, BanquetForm("updateBanquet"))
OwnerBookingsPage == SidebarPage({OwnerBookings}, {"updateBookingStatus"})
OwnerAnalyticsPage == SidebarPage({MyBanquets, OwnerBookings}, {})

AdminDashboardPage == SidebarPage({AdminOverview}, {})
AdminUsersPage == SidebarPage({AdminUsers}, {"suspendUser", "activateUser"})
AdminBanquetsPage == SidebarPage({AdminBanquets}, {"approveBanquet", "rejectBanquet"})
AdminTicketsPage == SidebarPage({AdminTickets}, {"resolveTicket"})
AdminReviewsPage == SidebarPage({AdminReviews}, {"approveReview", "rejectReview"})
AdminAnalyticsPage == SidebarPage(Metrics, {})

AllPages ==
  {HomePage, AboutPage, SearchPage, BanquetDetailsPage, BookingFlowPage,
   LoginPage, RegisterPage, VerifyOtpPage,
   DashboardPage, SettingsPage, OwnerProfilePage, BookingsPage, BookingDetailPage,
   MyReviewsPage,
   BanquetsPage, CreateBanquetPage, EditBanquetPage, OwnerBookingsPage, OwnerAnalyticsPage,
   AdminDashboardPage, AdminUsersPage, AdminBanquetsPage, AdminTicketsPage,
   AdminReviewsPage, AdminAnalyticsPage}

-----------------------------------------------------------------------------
\* The data of a query: whose token fetched it, how many writes it shows, whether it
\* is the empty list that a caught error left, and whether it was invalidated.
Entry == [user : Users \cup {NoUser}, version : 0..MaxWrites, empty : BOOLEAN,
          invalidated : BOOLEAN]

\* A request for a query: its token, and the answer on its way back.
Fetch == [token : Users \cup {NoUser}, answered : BOOLEAN, version : 0..MaxWrites]

\* A mutation whose answer is awaited: by whom, and whether the server has carried it
\* out.
Pending ==
  [op : UNION {p.mutations : p \in AllPages}, user : Users, done : BOOLEAN]

ASSUME WebClientAssumptions ==
  /\ MaxWrites \in Nat
  /\ CurrentUser \in Queries
  /\ \A t \in Tours :
       LoginPage \in t.pages /\ t.pages \subseteq AllPages /\ t.queries \subseteq Queries
  /\ NoUser \notin Users /\ NoData \notin Entry
  /\ NoFetch \notin Fetch /\ NoMutation \notin Pending

VARIABLES
  tour,         \* the pages that are visited and the queries that are looked at
  accessToken,  \* localStorage: whose token there is
  versions,     \* [Queries -> the writes the server has made to what it shows]
  page,         \* the page that is shown
  cache,        \* [Queries -> Entry or NoData]
  fetch,        \* [Queries -> Fetch or NoFetch]
  stray,        \* a request is out whose query has been cleared or fetched again
  mutation,     \* Pending, or NoMutation
  leaving,      \* the tab is on its way to /login, which loads the page anew
  due,          \* history: [Queries -> the version that must be shown]
  left          \* history: who has logged out here and not logged in since

inTab == <<page, cache, fetch, stray>>
history == <<due, left>>
vars ==
  <<tour, accessToken, versions, page, cache, fetch, stray, mutation, leaving, due, left>>

TypeOK ==
  /\ tour \in Tours
  /\ accessToken \in Users \cup {NoUser}
  /\ versions \in [Queries -> 0..MaxWrites]
  /\ page \in tour.pages
  /\ cache \in [Queries -> Entry \cup {NoData}]
  /\ fetch \in [Queries -> Fetch \cup {NoFetch}]
  /\ stray \in BOOLEAN
  /\ mutation \in Pending \cup {NoMutation}
  /\ leaving \in BOOLEAN
  /\ due \in [Queries -> 0..MaxWrites]
  /\ left \subseteq Users

Init ==
  /\ tour \in Tours
  /\ accessToken = NoUser
  /\ versions = [q \in Queries |-> 0]
  /\ page = LoginPage
  /\ cache = [q \in Queries |-> NoData]
  /\ fetch = [q \in Queries |-> NoFetch]
  /\ stray = FALSE
  /\ mutation = NoMutation
  /\ leaving = FALSE
  /\ due = [q \in Queries |-> 0]
  /\ left = {}

-----------------------------------------------------------------------------
(* The hooks: which keys a mutation invalidates when it has succeeded.     *)

AuthMutations == [register |-> {}, verifyOtp |-> {}]

BanquetMutations ==
  [createBanquet |-> {MyBanquets},
   updateBanquet |-> {MyBanquets, Banquet},
   deleteBanquet |-> {MyBanquets}]

BookingMutations ==
  [createBooking |-> {MyBookings},
   updateBookingStatus |-> {OwnerBookings, MyBookings}]

ReviewMutations ==
  [createReview |-> {<<"reviews", "banquet", "id">>, MyReviews, MyBookings}]

Administration(key) == {<<"admin", key>>, AdminOverview}

AdminMutations ==
  [suspendUser |-> {<<"admin", "users">>},
   activateUser |-> {<<"admin", "users">>},
   approveBanquet |-> Administration("banquets"),
   rejectBanquet |-> Administration("banquets"),
   resolveTicket |-> Administration("tickets"),
   approveReview |-> Administration("reviews"),
   rejectReview |-> Administration("reviews")]

Keys(m) ==
  CASE m \in DOMAIN AuthMutations -> AuthMutations[m]
    [] m \in DOMAIN BanquetMutations -> BanquetMutations[m]
    [] m \in DOMAIN BookingMutations -> BookingMutations[m]
    [] m \in DOMAIN ReviewMutations -> ReviewMutations[m]
    [] m \in DOMAIN AdminMutations -> AdminMutations[m]

\* Mutant of Invalidated: a key is matched as a whole.
InvalidatedExactly(m) == Queries \cap Keys(m)

Invalidated(m) == {q \in Queries : \E key \in Keys(m) : IsPrefix(key, q)}

\* The mutations that the backend can carry out.  The others meet a 404 or a 400:
\* suspendUser and activateUser use PATCH where the route takes POST, there is no
\* bookings/:id/status, no ticket ever exists, and rejectBanquet and rejectReview
\* send no reason, which the backend requires.
ServedAuth == {"login", "register", "verifyOtp", "logout"}
ServedBanquets == {"createBanquet", "updateBanquet", "deleteBanquet"}
ServedBookings == {"createBooking"}
ServedReviews == {"createReview"}
ServedAdministration == {"approveBanquet", "approveReview"}

Served ==
  UNION {ServedAuth, ServedBanquets, ServedBookings, ServedReviews, ServedAdministration}

\* What the mutations write, as the queries of this frontend show it.
Writes(m) ==
  {q \in Queries :
     \/ q = MyBanquets /\ m \in {"createBanquet", "updateBanquet", "deleteBanquet"}
     \/ q = Banquet /\ m \in {"updateBanquet", "deleteBanquet"}
     \/ q = MyBookings /\ m = "createBooking"
     \/ q = MyReviews /\ m = "createReview"
     \/ q = AdminReviews /\ m \in {"createReview", "approveReview"}}

\* Of these, what the hooks mean to show: the page of a deleted banquet is shown from
\* the cache until it is stale, and a customer's review shows on another's screen.
Promised(m) ==
  CASE m = "deleteBanquet" -> Writes(m) \ {Banquet}
    [] m = "createReview" -> Writes(m) \ {AdminReviews}
    [] OTHER -> Writes(m)

\* The queries whose function catches every error and returns an empty list.
CaughtBanquets == {MyBanquets}
CaughtBookings == {MyBookings, OwnerBookings}
CaughtReviews == {MyReviews}
CaughtSearches == Search \cup Popular

Catches == UNION {CaughtBanquets, CaughtBookings, CaughtReviews, CaughtSearches}

\* Queries the backend has no route for; it takes "owner" for the id of a booking,
\* which a guard may refuse as well.
Missing == {AdminOverview, AdminBanquets}
Unanswered == Missing \cup {OwnerBookings}

\* What the server tells anybody.
Open == Search \cup Popular

-----------------------------------------------------------------------------
(* Queries.                                                                *)

Idle(q) == fetch[q] = NoFetch
Asking(q) == ~Idle(q) /\ ~fetch[q].answered
HasData(q) == cache[q] # NoData

\* Mutant of NewFetch: nothing is known of the answer.
BareFetch == [token |-> accessToken, answered |-> FALSE]

\* The request interceptor attaches the token there is when the request is made.
NewFetch == [token |-> accessToken, answered |-> FALSE, version |-> 0]

\* currentUser is asked for only with a token.  (Its own bookings and reviews are also
\* not asked for by an owner: users have no roles here, so each may ask.)
Enabled(q) == q = CurrentUser => accessToken # NoUser

\* The queries of a page that are looked at.
Observed(p) == p.queries \cap tour.queries

\* Another page is shown, and asks for what the one before did not show.  Data that is
\* neither stale nor invalidated is shown as it is; how long ago it was fetched is
\* left open.  The fetches of the page that is left go on.
Visit(p) ==
  /\ ~leaving /\ p # page
  /\ page' = p
  /\ \E stale \in SUBSET (Observed(p) \ Observed(page)) :
       fetch' = [q \in Queries |->
         IF /\ q \in Observed(p) \ Observed(page)
            /\ Idle(q) /\ Enabled(q)
            /\ HasData(q) /\ ~cache[q].invalidated => q \in stale
           THEN NewFetch ELSE fetch[q]]
  /\ UNCHANGED <<tour, accessToken, versions, cache, stray, mutation, leaving, history>>

\* The server reads what it answers a request that it does not refuse.
Serve(q) ==
  /\ Asking(q) /\ (fetch[q].token # NoUser \/ q \in Open)
  /\ q \notin Unanswered
  /\ fetch' = [fetch EXCEPT ![q].answered = TRUE, ![q].version = versions[q]]
  /\ UNCHANGED <<tour, accessToken, versions, page, cache, stray, mutation, leaving, history>>

Shown(user, version, empty) ==
  [user |-> user, version |-> version, empty |-> empty, invalidated |-> FALSE]

FetchDone(q) ==
  /\ ~Idle(q) /\ fetch[q].answered
  /\ cache' = [cache EXCEPT ![q] = Shown(fetch[q].token, fetch[q].version, FALSE)]
  /\ fetch' = [fetch EXCEPT ![q] = NoFetch]
  /\ UNCHANGED <<tour, accessToken, versions, page, stray, mutation, leaving, history>>

\* A fetch that fails, before the server has answered or after, leaves the data there
\* is, or an empty list where the function catches the error; it may be tried again.
GiveUp(q) ==
  /\ \/ fetch' = [fetch EXCEPT ![q] = NoFetch]
     \/ q \notin Catches \cup {CurrentUser} /\ fetch' = [fetch EXCEPT ![q] = NewFetch]
  /\ cache' = IF q \in Catches THEN [cache EXCEPT ![q] = Shown(NoUser, 0, TRUE)] ELSE cache

FetchFailed(q) ==
  /\ ~Idle(q)
  /\ GiveUp(q)
  /\ UNCHANGED <<tour, accessToken, versions, page, stray, mutation, leaving, history>>

\* The response interceptor: a 401 drops the token, whichever token was refused, and
\* leaves for /login.
FetchRefused(q) ==
  /\ Asking(q) /\ q \notin Open \cup Missing
  /\ accessToken' = NoUser /\ leaving' = TRUE
  /\ GiveUp(q)
  /\ UNCHANGED <<tour, versions, page, stray, mutation, history>>

\* So does the answer to a request that no query waits for any more.
StrayRefused ==
  /\ stray
  /\ accessToken' = NoUser /\ leaving' = TRUE
  /\ UNCHANGED <<tour, versions, inTab, mutation, history>>

-----------------------------------------------------------------------------
(* Mutations.                                                              *)

Mutate(op, user) ==
  /\ ~leaving /\ mutation = NoMutation
  /\ mutation' = [op |-> op, user |-> user, done |-> FALSE]
  /\ UNCHANGED <<tour, accessToken, versions, inTab, leaving, history>>

\* The server carries the mutation out.
Write ==
  /\ mutation # NoMutation /\ ~mutation.done
  /\ mutation' = [mutation EXCEPT !.done = TRUE]
  /\ mutation.op \in Served
  /\ \A q \in Writes(mutation.op) : versions[q] < MaxWrites
  /\ versions' = [q \in Queries |->
       IF q \in Writes(mutation.op) THEN versions[q] + 1 ELSE versions[q]]
  /\ UNCHANGED <<tour, accessToken, inTab, leaving, history>>

\* onSuccess: the keys are invalidated; what a component observes is fetched again,
\* and a fetch in flight is cancelled for it, unless it is the query's first.
Refetched(q) == q \in Observed(page) /\ (Idle(q) \/ HasData(q))

Succeeded ==
  /\ mutation # NoMutation
  /\ mutation.op \notin {"login", "logout"} /\ mutation.done
  /\ LET keys == Invalidated(mutation.op) IN
       /\ cache' = [q \in Queries |->
            IF q \in keys /\ HasData(q) THEN [cache[q] EXCEPT !.invalidated = TRUE]
            ELSE cache[q]]
       /\ fetch' = [q \in Queries |->
            IF q \in keys /\ Refetched(q) THEN NewFetch ELSE fetch[q]]
  /\ stray' = (stray \/ \E q \in Invalidated(mutation.op) : Refetched(q) /\ Asking(q))
  /\ due' = [q \in Queries |->
       IF q \in Promised(mutation.op) /\ (Refetched(q) \/ Idle(q)) THEN versions[q]
       ELSE due[q]]
  /\ mutation' = NoMutation
  /\ UNCHANGED <<tour, accessToken, versions, page, leaving, left>>

LoggedIn ==
  /\ mutation # NoMutation
  /\ mutation.op = "login" /\ mutation.done
  /\ accessToken' = mutation.user
  /\ cache' = [q \in Queries |->
       IF q = CurrentUser THEN Shown(mutation.user, versions[q], FALSE) ELSE cache[q]]
  /\ mutation' = NoMutation
  /\ left' = left \ {mutation.user}
  /\ UNCHANGED <<tour, versions, page, fetch, stray, leaving, due>>

\* queryClient.clear(): the results of fetches in flight reach no query any more.
\* The page is left for /login.
Cleared ==
  /\ cache' = [q \in Queries |-> NoData]
  /\ fetch' = [q \in Queries |-> NoFetch]
  /\ stray' = (stray \/ \E q \in Queries : Asking(q))
  /\ page' = LoginPage

\* Mutant of LoggedOut: only the storage is cleared.
LoggedOutOfStorage == page' = LoginPage /\ UNCHANGED <<cache, fetch, stray>>

\* What onSettled does to the cache.
LoggedOut == Cleared

\* The answer to a logout, or its failure, or its refusal, which leaves for /login.
LogoutSettled ==
  /\ mutation # NoMutation /\ mutation.op = "logout"
  /\ accessToken' = NoUser
  /\ LoggedOut
  /\ mutation' = NoMutation
  /\ leaving' \in {leaving, leaving \/ ~mutation.done}
  /\ left' = Users
  /\ UNCHANGED <<tour, versions, due>>

\* A mutation fails, carried out or not: nothing is invalidated.
MutationFailed ==
  /\ mutation # NoMutation /\ mutation.op # "logout"
  /\ mutation' = NoMutation
  /\ UNCHANGED <<tour, accessToken, versions, inTab, leaving, history>>

\* The interceptor again, for a login with the wrong password too.
MutationRefused ==
  /\ mutation # NoMutation /\ mutation.op # "logout" /\ ~mutation.done
  /\ accessToken' = NoUser /\ leaving' = TRUE
  /\ mutation' = NoMutation
  /\ UNCHANGED <<tour, versions, inTab, history>>

-----------------------------------------------------------------------------
\* A page is loaded anew; the tab keeps nothing.
Load(p) ==
  /\ leaving => p = LoginPage
  /\ page' = p
  /\ cache' = [q \in Queries |-> NoData]
  /\ fetch' = [q \in Queries |-> IF q \in Observed(p) /\ Enabled(q) THEN NewFetch ELSE NoFetch]
  /\ stray' = FALSE
  /\ mutation' = NoMutation /\ leaving' = FALSE
  /\ due' = [q \in Queries |-> 0]
  /\ UNCHANGED <<tour, accessToken, versions, left>>

\* Another tab logs in, or drops the token.
OtherTab(u) ==
  /\ accessToken' = u
  /\ left' = left \ {u}
  /\ UNCHANGED <<tour, versions, inTab, mutation, leaving, due>>

Next ==
  \/ \E p \in tour.pages : Visit(p) \/ Load(p)
  \/ \E q \in Queries : Serve(q) \/ FetchDone(q) \/ FetchFailed(q) \/ FetchRefused(q)
  \/ \E op \in page.mutations, u \in Users : Mutate(op, u)
  \/ StrayRefused \/ Write \/ Succeeded
  \/ LoggedIn \/ LogoutSettled \/ MutationFailed \/ MutationRefused
  \/ \E u \in Users \cup {NoUser} : OtherTab(u)

Spec == Init /\ [][Next]_vars

-----------------------------------------------------------------------------
(* Properties.                                                             *)

\* After a logout nothing that was fetched with the token of a user is in the tab
\* before that user has logged in again, whatever was in flight when it settled,
\* and whether the server answered it or not.
AfterLogoutNothingIsLeft ==
  \A q \in Queries : HasData(q) => cache[q].user \notin left

\* Read your writes: from the time a mutation's success is handled, what a query
\* takes for valid shows it, whatever fetches overlap the mutation, or is the empty
\* list of a failed fetch.  (A query in its first fetch, or in a fetch that no
\* component waits for, is not cancelled, and its older result then counts as
\* valid; due leaves these out.)
ReadYourWrites ==
  \A q \in Queries :
    HasData(q) /\ ~cache[q].invalidated /\ ~cache[q].empty => cache[q].version >= due[q]

=============================================================================
