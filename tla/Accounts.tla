------------------------------ MODULE Accounts ------------------------------
(***************************************************************************)
(* The routes of the API, the guards before them, and the handlers that    *)
(* change accounts: UsersService and the administrator's                   *)
(* UserManagementService.                                                  *)
(*                                                                         *)
(* A slot of Requests is a client's access token and then the one request  *)
(* that is made with it; every database call of the request is a step, and *)
(* other requests change the accounts in between.  What the other handlers *)
(* do is in the modules of their services: here they run and end.          *)
(* Passwords are left to Sessions, the log of administrators' actions to   *)
(* Catalogue.                                                              *)
(***************************************************************************)
CONSTANTS
  Users,       \* identifiers of accounts
  Emails,      \* their addresses, as they were written
  LowerCase,   \* an address in lower case
  Roles,       \* the roles that accounts take
  Statuses,    \* the states that accounts take
  Patches,     \* bodies of the requests to update an account
  Requests,    \* tokens and requests at the same time
  NoUser,      \* no account has the identifier
  NoRequest,   \* the slot is free
  Same         \* the body leaves the field out

User == [email : Emails, role : Roles, status : Statuses, deleted : BOOLEAN]

\* What a request writes to an account: UpdateUserDto and the administrators' calls.
Change == [email : Emails \cup {Same}, role : Roles \cup {Same},
           status : Statuses \cup {Same}]

Unchanged == [email |-> Same, role |-> Same, status |-> Same]

-----------------------------------------------------------------------------
(* The routes: the handler, whether JwtAuthGuard lets everyone pass, and   *)
(* what RolesGuard and AdminPermissionsGuard ask for; {} asks for nothing. *)

Routed(public, roles, permissions, handlers) ==
  {[handler |-> h, public |-> public, roles |-> roles, permissions |-> permissions] :
     h \in handlers}

Public(handlers) == Routed(TRUE, {}, {}, handlers)
SignedIn(handlers) == Routed(FALSE, {}, {}, handlers)
ForRoles(roles, handlers) == Routed(FALSE, roles, {}, handlers)
ForAdmins(permission, handlers) == Routed(FALSE, {"ADMIN"}, {permission}, handlers)

AuthRoutes ==
  Public({"register", "login", "refreshToken", "sendOtp", "verifyOtp"})
    \cup SignedIn({"logout", "revokeAllSessions", "getCurrentUser"})

UserRoutes ==
  SignedIn({"getMyProfile", "updateMyProfile", "changePassword"})
    \cup ForRoles({"ADMIN"}, {"listUsers", "getUserById", "updateUser", "deactivateUser"})

OwnerRoutes ==
  ForRoles({"OWNER", "ADMIN"}, {"getMyOwnerProfile", "updateMyOwnerProfile"})
    \cup Public({"listOwners", "getOwnerById"})

\* getBanquetById is OptionalAuth, which JwtAuthGuard does not look at.
BanquetRoutes ==
  ForRoles({"OWNER"}, {"createBanquet", "getMyBanquets", "publishBanquet",
                       "unpublishBanquet", "deleteBanquet"})
    \cup ForRoles({"OWNER", "ADMIN"}, {"updateBanquet"})
    \cup SignedIn({"getBanquetById"})
    \cup Public({"searchBanquets"})

SearchRoutes ==
  Public({"searchBanquetsByFilter", "getSearchFacets", "getSearchSuggestions",
          "getPopularSearches", "getTrendingLocations"})
    \cup SignedIn({"getSearchStats"})

BookingRoutes ==
  ForRoles({"CUSTOMER"}, {"createBooking", "getMyBookings"})
    \cup ForRoles({"OWNER", "ADMIN"}, {"confirmBooking"})
    \cup ForRoles({"CUSTOMER", "ADMIN"}, {"rescheduleBooking"})
    \cup SignedIn({"getBookingById", "cancelBooking"})

ReviewRoutes ==
  ForRoles({"CUSTOMER"}, {"createReview", "updateReview", "getMyReviews"})
    \cup ForRoles({"CUSTOMER", "ADMIN"}, {"deleteReview"})
    \cup ForRoles({"OWNER"}, {"addOwnerReply"})
    \cup ForRoles({"ADMIN"}, {"getPendingReviews", "approveReview", "rejectReview"})
    \cup Public({"getBanquetReviews"})

AnalyticsRoutes ==
  Public({"trackPageView", "trackSearch", "trackBanquetView"})
    \cup ForRoles({"ADMIN"}, {"getBookingFunnel", "getRevenue", "getUserActivity",
                              "getSearchAnalytics", "getSystemHealth", "getPerformanceStats",
                              "getSlowRequests", "getErrorRates", "getEventDistribution"})

HealthRoutes ==
  Public({"check", "checkLiveness", "checkReadiness", "checkDatabase", "checkMemory",
          "checkDisk"})

DashboardRoutes ==
  ForAdmins("view_analytics",
            {"getDashboardOverview", "getUserGrowth", "getBookingAnalytics", "getTopBanquets",
             "getTopLocations", "getUserStats", "getBanquetStats", "getRecentActivity"})

UserAdminRoutes ==
  ForAdmins("manage_users", {"getUsers", "suspendUser", "activateUser", "changeUserRole"})

BanquetAdminRoutes ==
  ForAdmins("manage_banquets", {"getPendingBanquets", "approveBanquet", "rejectBanquet"})
    \cup ForAdmins("manage_featured", {"featureBanquet", "getFeaturedListings"})

TicketRoutes ==
  ForAdmins("manage_support", {"getTickets", "getTicketStats", "assignTicket",
                               "updateTicketStatus", "addTicketMessage", "resolveTicket"})

Routes ==
  UNION {AuthRoutes, UserRoutes, OwnerRoutes, BanquetRoutes, SearchRoutes, BookingRoutes,
         ReviewRoutes, AnalyticsRoutes, HealthRoutes, DashboardRoutes, UserAdminRoutes,
         BanquetAdminRoutes, TicketRoutes}

Saves == {"suspendUser", "activateUser", "changeUserRole"}
Updates == {"updateMyProfile", "updateUser"}

\* Routes whose handlers change no account differ here by their guards only.
Known(route) ==
  IF route.handler \in Saves \cup Updates \cup {"deactivateUser"} THEN route
  ELSE [route EXCEPT !.handler = "another"]

KnownRoutes == {Known(route) : route \in Routes}
NoRoute == [handler |-> "none", public |-> FALSE, roles |-> {}, permissions |-> {}]

\* role is that of the token, and from the guards on that of the account they read.
Request ==
  [actor : Users, role : Roles, route : KnownRoutes \cup {NoRoute}, target : Users,
   change : Change]

ASSUME AccountsAssumptions ==
  /\ LowerCase \in [Emails -> Emails]
  /\ Roles \subseteq {"ADMIN", "OWNER", "CUSTOMER"}
  /\ {"ACTIVE", "SUSPENDED"} \subseteq Statuses
  /\ Patches \subseteq {change \in Change : change.role = Same}
  /\ Same \notin Emails \cup Roles \cup Statuses
  /\ NoUser \notin User
  /\ NoRequest \notin Request

-----------------------------------------------------------------------------
VARIABLES
  users,    \* [Users -> User or NoUser]
  pc,       \* [Requests -> the step the token or the request is at]
  request,  \* [Requests -> Request, or NoRequest]
  allowed   \* history: [Requests -> it was right to serve it, at a time since it was sent]

vars == <<users, pc, request, allowed>>

Steps == {"idle", "token", "guard", "find", "exists", "write", "handler"}

TypeOK ==
  /\ users \in [Users -> User \cup {NoUser}]
  /\ pc \in [Requests -> Steps]
  /\ request \in [Requests -> Request \cup {NoRequest}]
  /\ allowed \in [Requests -> BOOLEAN]
  /\ \A r \in Requests :
       /\ request[r] = NoRequest <=> pc[r] = "idle"
       /\ pc[r] # "idle" =>
            /\ request[r].route = NoRoute <=> pc[r] = "token"
            /\ users[request[r].actor] # NoUser /\ users[request[r].target] # NoUser

Init ==
  /\ users = [u \in Users |-> NoUser]
  /\ pc = [r \in Requests |-> "idle"]
  /\ request = [r \in Requests |-> NoRequest]
  /\ allowed = [r \in Requests |-> FALSE]

-----------------------------------------------------------------------------
(* The guards.                                                             *)

Found(u) == users[u] # NoUser /\ ~users[u].deleted
Usable(u) == Found(u) /\ users[u].status = "ACTIVE"

RolesGuard(role, route) == route.roles = {} \/ role \in route.roles

HasPermission(permissions, required) ==
  "super_admin" \in permissions \/ required \in permissions

\* The user that the strategy returns has no permissions of its own, so that every
\* administrator has ADMIN_PERMISSION_SETS.SUPER_ADMIN.
UserPermissions == {"super_admin"}

AdminPermissionsGuard(role, route) ==
  route.permissions # {} =>
    /\ role = "ADMIN"
    /\ \A required \in route.permissions : HasPermission(UserPermissions, required)

\* What makes it right to serve a request: its account is in use, in a role that the
\* route is for.
Right(q) ==
  \/ q.route.public
  \/ /\ Usable(q.actor)
     /\ RolesGuard(users[q.actor].role, q.route)
     /\ AdminPermissionsGuard(users[q.actor].role, q.route)

\* The history after a step, of the requests that have been sent.
Observe ==
  allowed' = [r \in Requests |->
    /\ pc'[r] \notin {"idle", "token"}
    /\ (pc[r] \notin {"idle", "token"} /\ allowed[r]) \/ Right(request[r])']

At(r, step) == pc[r] = step
Goto(r, step) == pc' = [pc EXCEPT ![r] = step] /\ UNCHANGED request

Finish(r) ==
  /\ pc' = [pc EXCEPT ![r] = "idle"]
  /\ request' = [request EXCEPT ![r] = NoRequest]

-----------------------------------------------------------------------------
(* Registration and login, in one step each; a login gives a token with    *)
(* the role that the account has.                                          *)

\* Mutant of EmailIsFree: no unique index, what the request has looked up decides.
NoUniqueIndex(u, email) == TRUE

\* The unique index on email; a deleted account keeps its address.
EmailIsFree(u, email) ==
  \A v \in Users \ {u} : users[v] # NoUser => users[v].email # email

Register(u, email, role) ==
  /\ users[u] = NoUser
  /\ EmailIsFree(u, email)
  /\ users' = [users EXCEPT ![u] =
       [email |-> email, role |-> role, status |-> "ACTIVE", deleted |-> FALSE]]
  /\ UNCHANGED <<pc, request>>
  /\ Observe

Login(r, u) ==
  /\ At(r, "idle")
  /\ Usable(u)
  /\ pc' = [pc EXCEPT ![r] = "token"]
  /\ request' = [request EXCEPT ![r] =
       [actor |-> u, role |-> users[u].role, route |-> NoRoute, target |-> u,
        change |-> Unchanged]]
  /\ UNCHANGED users
  /\ Observe

-----------------------------------------------------------------------------
(* What a request asks for.                                                *)

Asks(route, u, target, change) ==
  CASE route.handler = "suspendUser" -> change = [Unchanged EXCEPT !.status = "SUSPENDED"]
    [] route.handler = "activateUser" -> change = [Unchanged EXCEPT !.status = "ACTIVE"]
    [] route.handler = "changeUserRole" ->
         \E role \in Roles : change = [Unchanged EXCEPT !.role = role]
    [] route.handler = "updateUser" -> change \in Patches
    [] route.handler = "updateMyProfile" -> target = u /\ change \in Patches
    [] route.handler = "deactivateUser" -> change = Unchanged
    [] OTHER -> target = u /\ change = Unchanged

Send(r, route, target, change) ==
  /\ At(r, "token")
  /\ users[target] # NoUser
  /\ Asks(route, request[r].actor, target, change)
  /\ pc' = [pc EXCEPT ![r] = "guard"]
  /\ request' = [request EXCEPT ![r] =
       [@ EXCEPT !.route = route, !.target = target, !.change = change]]
  /\ UNCHANGED users
  /\ Observe

-----------------------------------------------------------------------------
(* The guards read the account of the token; the checks that a service     *)
(* makes of the sender come before its first call of the database.         *)

\* Mutant of CallerRole: the strategy returns what the token says.
TokenRole(q) == q.role

CallerRole(q) == users[q.actor].role

ChecksSender(q, role) ==
  CASE q.route.handler \in Updates -> q.target = q.actor \/ role = "ADMIN"
    [] q.route.handler = "deactivateUser" -> q.target # q.actor /\ role = "ADMIN"
    [] OTHER -> TRUE

FirstStep(route) ==
  IF route.handler \in Saves \cup Updates \cup {"deactivateUser"} THEN "find" ELSE "handler"

Pass(r, role) ==
  /\ pc' = [pc EXCEPT ![r] = FirstStep(request[r].route)]
  /\ request' = [request EXCEPT ![r].role = role]

Guards(r) ==
  LET q == request[r] IN
  /\ At(r, "guard")
  /\ \/ q.route.public /\ Pass(r, q.role)
     \/ /\ ~q.route.public
        /\ Usable(q.actor)
        /\ RolesGuard(CallerRole(q), q.route) /\ AdminPermissionsGuard(CallerRole(q), q.route)
        /\ ChecksSender(q, CallerRole(q))
        /\ Pass(r, CallerRole(q))
     \/ /\ ~q.route.public
        /\ \/ ~Usable(q.actor)
           \/ ~RolesGuard(CallerRole(q), q.route)
           \/ ~AdminPermissionsGuard(CallerRole(q), q.route)
           \/ ~ChecksSender(q, CallerRole(q))
        /\ Finish(r)
  /\ UNCHANGED users
  /\ Observe

-----------------------------------------------------------------------------
(* The handlers.                                                           *)

\* The account is already what the administrator asks for.
AlreadySo(q) ==
  /\ q.route.handler \in Saves
  /\ q.change.status \in {Same, users[q.target].status}
  /\ q.change.role \in {Same, users[q.target].role}

NewEmail(q) == q.change.email \notin {Same, users[q.target].email}

Find(r) ==
  LET q == request[r] IN
  /\ At(r, "find")
  /\ \/ (~Found(q.target) \/ AlreadySo(q)) /\ Finish(r)
     \/ Found(q.target) /\ ~AlreadySo(q) /\ NewEmail(q) /\ Goto(r, "exists")
     \/ Found(q.target) /\ ~AlreadySo(q) /\ ~NewEmail(q) /\ Goto(r, "write")
  /\ UNCHANGED users
  /\ Observe

\* emailExists looks among the others, deleted ones excepted, for the address in lower
\* case, which is not how registrations and updates store it.
EmailExists(r) ==
  LET q == request[r] IN
  /\ At(r, "exists")
  /\ IF \E v \in Users \ {q.target} : Found(v) /\ users[v].email = LowerCase[q.change.email]
       THEN Finish(r) ELSE Goto(r, "write")
  /\ UNCHANGED users
  /\ Observe

\* Only what the request changes is written.
Written(u, change) ==
  [users[u] EXCEPT !.email = IF change.email = Same THEN @ ELSE change.email,
                   !.role = IF change.role = Same THEN @ ELSE change.role,
                   !.status = IF change.status = Same THEN @ ELSE change.status]

Write(r, u, written) ==
  /\ users' = [users EXCEPT ![u] = written]
  /\ Finish(r)
  /\ Observe

\* save writes by the identifier, to an account deleted since as well.
Save(r) ==
  LET q == request[r] IN
  /\ At(r, "write") /\ q.route.handler \in Saves
  /\ Write(r, q.target, Written(q.target, q.change))

\* findOneAndUpdate finds no deleted account; the index may refuse the address.
Update(r) ==
  LET q == request[r]
      done == Found(q.target) /\ (q.change.email = Same \/ EmailIsFree(q.target, q.change.email))
  IN
  /\ At(r, "write") /\ q.route.handler \in Updates
  /\ Write(r, q.target, IF done THEN Written(q.target, q.change) ELSE users[q.target])

\* Mutant of Deactivated: the document is removed.
Removed(u) == NoUser

Deactivated(u) == [users[u] EXCEPT !.deleted = TRUE]

Deactivate(r) ==
  LET u == request[r].target IN
  /\ At(r, "write") /\ request[r].route.handler = "deactivateUser"
  /\ Write(r, u, IF Found(u) THEN Deactivated(u) ELSE users[u])

\* The handlers that change no account.
Serve(r) == At(r, "handler") /\ Finish(r) /\ UNCHANGED users /\ Observe

\* The token expires, a call throws, or the process stops: what was written stays.
Fail(r) == ~At(r, "idle") /\ Finish(r) /\ UNCHANGED users /\ Observe

Handler(r) ==
  Guards(r) \/ Find(r) \/ EmailExists(r) \/ Save(r) \/ Update(r) \/ Deactivate(r) \/ Serve(r)

Next ==
  \/ \E u \in Users, email \in Emails, role \in Roles : Register(u, email, role)
  \/ \E r \in Requests :
       \/ \E u \in Users : Login(r, u)
       \/ \E route \in KnownRoutes, target \in Users,
             change \in Patches \cup {Unchanged}
                          \cup {[Unchanged EXCEPT !.role = role] : role \in Roles}
                          \cup {[Unchanged EXCEPT !.status = status] :
                                  status \in {"ACTIVE", "SUSPENDED"}} :
            Send(r, route, target, change)
       \/ Handler(r) \/ Fail(r)

Spec == Init /\ [][Next]_vars

-----------------------------------------------------------------------------
(* Properties.                                                             *)

\* Every handler runs for an account that was in use, in a role the route is for, at
\* a time since the request was sent: not by what its token says, which is older, and
\* so none runs for a request sent after the account was suspended, deactivated or
\* moved to another role, until that is undone.
ActsAreAuthorized ==
  \A r \in Requests : pc[r] \in {"find", "exists", "write", "handler"} => allowed[r]

\* No two accounts have one address, deleted accounts included, though the lookups of
\* registrations and updates leave those out, look for another spelling and may be old
\* when the write comes.
AddressesDiffer ==
  \A u, v \in Users :
    /\ users[u] # NoUser /\ users[v] # NoUser
    /\ users[u].email = users[v].email
    => u = v

=============================================================================
