--------------------------- MODULE AccountsProofs ---------------------------
(***************************************************************************)
(* Theorems about Accounts, for any accounts, addresses, bodies of         *)
(* requests and number of requests served at the same time.                *)
(***************************************************************************)
EXTENDS Accounts, TLAPS

-----------------------------------------------------------------------------
(* The routes.                                                             *)

HasHandler(route) ==
  route = [handler |-> route.handler, public |-> route.public, roles |-> route.roles,
           permissions |-> route.permissions]

LEMMA RoutedHaveHandlers ==
  ASSUME NEW public, NEW roles, NEW permissions, NEW handlers,
         NEW route \in Routed(public, roles, permissions, handlers)
  PROVE  HasHandler(route)
  BY DEF Routed, HasHandler

LEMMA RoutesHaveHandlers == \A route \in Routes : HasHandler(route)
  <1> USE RoutedHaveHandlers DEF Public, SignedIn, ForRoles, ForAdmins
  <1>1. \A route \in AuthRoutes \cup UserRoutes : HasHandler(route)
    BY DEF AuthRoutes, UserRoutes
  <1>2. \A route \in OwnerRoutes \cup BanquetRoutes : HasHandler(route)
    BY DEF OwnerRoutes, BanquetRoutes
  <1>3. \A route \in SearchRoutes \cup BookingRoutes : HasHandler(route)
    BY DEF SearchRoutes, BookingRoutes
  <1>4. \A route \in ReviewRoutes \cup AnalyticsRoutes : HasHandler(route)
    BY DEF ReviewRoutes, AnalyticsRoutes
  <1>5. \A route \in HealthRoutes \cup DashboardRoutes : HasHandler(route)
    BY DEF HealthRoutes, DashboardRoutes
  <1>6. \A route \in UserAdminRoutes \cup BanquetAdminRoutes \cup TicketRoutes : HasHandler(route)
    BY DEF UserAdminRoutes, BanquetAdminRoutes, TicketRoutes
  <1>7. QED
    BY <1>1, <1>2, <1>3, <1>4, <1>5, <1>6 DEF Routes

LEMMA NoRouteIsUnknown == NoRoute \notin KnownRoutes
  <1>1. ASSUME NEW route \in Routes PROVE Known(route).handler # "none"
    BY RoutesHaveHandlers DEF Known, HasHandler, Saves, Updates
  <1>2. NoRoute.handler = "none"
    BY DEF NoRoute
  <1>3. QED
    BY <1>1, <1>2 DEF KnownRoutes

-----------------------------------------------------------------------------
(* Types.  TypeOK is inductive once it says that an administrator's save   *)
(* writes no address, which AddressesDiffer needs.                         *)

SlotTyped(r) ==
  /\ request[r] = NoRequest <=> pc[r] = "idle"
  /\ pc[r] # "idle" =>
       /\ request[r].route = NoRoute <=> pc[r] = "token"
       /\ users[request[r].actor] # NoUser /\ users[request[r].target] # NoUser
       /\ request[r].route.handler \in Saves => request[r].change.email = Same

StoresTyped ==
  /\ users \in [Users -> User \cup {NoUser}]
  /\ pc \in [Requests -> Steps]
  /\ request \in [Requests -> Request \cup {NoRequest}]
  /\ allowed \in [Requests -> BOOLEAN]

Typed == StoresTyped /\ \A r \in Requests : SlotTyped(r)

LEMMA TypedIsTypeOK == Typed => TypeOK
  BY DEF Typed, StoresTyped, SlotTyped, TypeOK

LEMMA RequestFields ==
  ASSUME Typed, NEW r \in Requests, pc[r] # "idle"
  PROVE  /\ request[r] \in Request
         /\ request[r].actor \in Users /\ request[r].target \in Users
         /\ request[r].role \in Roles
         /\ request[r].change \in Change
         /\ users[request[r].actor] \in User /\ users[request[r].target] \in User
  BY DEF Typed, StoresTyped, SlotTyped, Request

LEMMA UserFields ==
  ASSUME NEW user \in User
  PROVE  /\ user.email \in Emails /\ user.role \in Roles /\ user.status \in Statuses
         /\ user.deleted \in BOOLEAN /\ user # NoUser
  BY AccountsAssumptions DEF User

LEMMA ObserveTyped ==
  ASSUME Observe
  PROVE  (allowed \in [Requests -> BOOLEAN])'
  BY DEF Observe

\* Accounts are never removed, so that a slot whose request stays is typed as before.
LEMMA SlotStays ==
  ASSUME Typed, NEW r \in Requests, request'[r] = request[r], pc'[r] # "idle", pc[r] # "idle",
         pc'[r] # "token", pc[r] # "token",
         \A u \in Users : users[u] # NoUser => users'[u] # NoUser
  PROVE  SlotTyped(r)'
  BY RequestFields DEF Typed, SlotTyped

LEMMA SlotUntouched ==
  ASSUME Typed, NEW r \in Requests, request'[r] = request[r], pc'[r] = pc[r],
         \A u \in Users : users[u] # NoUser => users'[u] # NoUser
  PROVE  SlotTyped(r)'
  BY RequestFields DEF Typed, SlotTyped

LEMMA FinishTyped ==
  ASSUME Typed, NEW r \in Requests, Finish(r), Observe,
         users' \in [Users -> User \cup {NoUser}],
         \A u \in Users : users[u] # NoUser => users'[u] # NoUser
  PROVE  Typed'
  <1>1. StoresTyped'
    BY ObserveTyped DEF Finish, Typed, StoresTyped, Steps
  <1>2. SlotTyped(r)'
    BY DEF Finish, Typed, StoresTyped, SlotTyped
  <1>3. ASSUME NEW x \in Requests \ {r} PROVE SlotTyped(x)'
    BY SlotUntouched DEF Finish, Typed, StoresTyped
  <1>4. QED
    BY <1>1, <1>2, <1>3 DEF Typed

LEMMA GotoTyped ==
  ASSUME Typed, NEW r \in Requests, NEW step \in {"exists", "write"}, Goto(r, step), Observe,
         UNCHANGED users, pc[r] \notin {"idle", "token"}
  PROVE  Typed'
  <1>1. StoresTyped'
    BY ObserveTyped DEF Goto, Typed, StoresTyped, Steps
  <1>2. SlotTyped(r)'
    BY SlotStays DEF Goto, Typed, StoresTyped
  <1>3. ASSUME NEW x \in Requests \ {r} PROVE SlotTyped(x)'
    BY SlotUntouched DEF Goto, Typed, StoresTyped
  <1>4. QED
    BY <1>1, <1>2, <1>3 DEF Typed

LEMMA RegisterTyped ==
  ASSUME Typed, NEW u \in Users, NEW email \in Emails, NEW role \in Roles,
         Register(u, email, role)
  PROVE  Typed'
  <1> DEFINE new == [email |-> email, role |-> role, status |-> "ACTIVE", deleted |-> FALSE]
  <1>1. new \in User
    BY AccountsAssumptions DEF User
  <1>2. users' = [users EXCEPT ![u] = new] /\ new # NoUser
    BY <1>1, UserFields DEF Register
  <1> HIDE DEF new
  <1>3. StoresTyped'
    BY <1>1, <1>2, ObserveTyped DEF Register, Typed, StoresTyped
  <1>4. \A v \in Users : users[v] # NoUser => users'[v] # NoUser
    BY <1>2 DEF Typed, StoresTyped
  <1>5. ASSUME NEW x \in Requests PROVE SlotTyped(x)'
    BY <1>4, SlotUntouched DEF Register
  <1>6. QED
    BY <1>3, <1>5 DEF Typed

LEMMA LoginTyped ==
  ASSUME Typed, NEW r \in Requests, NEW u \in Users, Login(r, u)
  PROVE  Typed'
  <1> DEFINE new == [actor |-> u, role |-> users[u].role, route |-> NoRoute, target |-> u,
                     change |-> Unchanged]
  <1>1. users[u] \in User
    BY DEF Login, Usable, Found, Typed, StoresTyped
  <1>2. Unchanged \in Change /\ users[u].role \in Roles
    BY <1>1, UserFields DEF Unchanged, Change
  <1>3. new \in Request
    BY <1>2 DEF Request
  <1>4. /\ new.actor = u /\ new.target = u /\ new.route = NoRoute
        /\ NoRoute.handler \notin Saves
    BY DEF NoRoute, Saves
  <1>5. request' = [request EXCEPT ![r] = new] /\ new # NoRequest
    BY <1>3, AccountsAssumptions DEF Login
  <1> HIDE DEF new
  <1>6. StoresTyped'
    BY <1>3, <1>5, ObserveTyped DEF Login, Typed, StoresTyped, Steps
  <1>7. SlotTyped(r)'
    BY <1>1, <1>4, <1>5, UserFields DEF Login, Typed, StoresTyped, SlotTyped
  <1>8. ASSUME NEW x \in Requests \ {r} PROVE SlotTyped(x)'
    BY SlotUntouched DEF Login, Typed, StoresTyped
  <1>9. QED
    BY <1>6, <1>7, <1>8 DEF Typed

LEMMA SendTyped ==
  ASSUME Typed, NEW r \in Requests, NEW route \in KnownRoutes, NEW target \in Users,
         NEW change \in Change, Send(r, route, target, change)
  PROVE  Typed'
  <1> DEFINE new == [request[r] EXCEPT !.route = route, !.target = target, !.change = change]
  <1>1. pc[r] = "token"
    BY DEF Send, At
  <1>2. request[r] \in Request /\ users[request[r].actor] # NoUser
    BY <1>1, RequestFields, UserFields
  <1>3. new \in Request
    BY <1>2 DEF Request
  <1>4. /\ new.actor = request[r].actor /\ new.target = target /\ new.route = route
        /\ new.change = change /\ route # NoRoute
    BY <1>2, NoRouteIsUnknown DEF Request
  <1>5. route.handler \in Saves => change.email = Same
    BY DEF Send, Asks, Saves, Unchanged
  <1>6. request' = [request EXCEPT ![r] = new] /\ new # NoRequest
    BY <1>3, AccountsAssumptions DEF Send
  <1> HIDE DEF new
  <1>7. StoresTyped'
    BY <1>3, <1>6, ObserveTyped DEF Send, Typed, StoresTyped, Steps
  <1>8. SlotTyped(r)'
    BY <1>2, <1>4, <1>5, <1>6 DEF Send, Typed, StoresTyped, SlotTyped
  <1>9. ASSUME NEW x \in Requests \ {r} PROVE SlotTyped(x)'
    BY SlotUntouched DEF Send, Typed, StoresTyped
  <1>10. QED
    BY <1>7, <1>8, <1>9 DEF Typed

LEMMA PassTyped ==
  ASSUME Typed, NEW r \in Requests, NEW role \in Roles, pc[r] = "guard", Pass(r, role),
         UNCHANGED users, Observe
  PROVE  Typed'
  <1> DEFINE new == [request[r] EXCEPT !.role = role]
  <1>1. request[r] \in Request
    BY RequestFields
  <1>2. new \in Request
    BY <1>1 DEF Request
  <1>3. /\ new.actor = request[r].actor /\ new.target = request[r].target
        /\ new.route = request[r].route /\ new.change = request[r].change
    BY <1>1 DEF Request
  <1>4. request' = [request EXCEPT ![r] = new] /\ new # NoRequest
    BY <1>2, AccountsAssumptions DEF Pass
  <1> HIDE DEF new
  <1>5. FirstStep(request[r].route) \in {"find", "handler"}
    BY DEF FirstStep
  <1>6. StoresTyped'
    BY <1>2, <1>4, <1>5, ObserveTyped DEF Pass, Typed, StoresTyped, Steps
  <1>7. SlotTyped(r)'
    BY <1>3, <1>4, <1>5 DEF Pass, Typed, StoresTyped, SlotTyped
  <1>8. ASSUME NEW x \in Requests \ {r} PROVE SlotTyped(x)'
    BY SlotUntouched DEF Pass, Typed, StoresTyped
  <1>9. QED
    BY <1>6, <1>7, <1>8 DEF Typed

LEMMA WrittenFields ==
  ASSUME NEW u \in Users, users[u] \in User, NEW change \in Change
  PROVE  /\ Written(u, change) \in User
         /\ Written(u, change).email = IF change.email = Same THEN users[u].email
                                                              ELSE change.email
  BY DEF Written, User, Change

LEMMA DeactivatedFields ==
  ASSUME NEW u \in Users, users[u] \in User
  PROVE  Deactivated(u) \in User /\ Deactivated(u).email = users[u].email
  BY DEF Deactivated, User

LEMMA WriteTyped ==
  ASSUME Typed, NEW r \in Requests, NEW u \in Users, NEW written \in User,
         Write(r, u, written)
  PROVE  Typed'
  <1>1. users' \in [Users -> User \cup {NoUser}] /\ written # NoUser
    BY UserFields DEF Write, Typed, StoresTyped
  <1>2. \A v \in Users : users[v] # NoUser => users'[v] # NoUser
    BY <1>1 DEF Write, Typed, StoresTyped
  <1>3. QED
    BY <1>1, <1>2, FinishTyped DEF Write

LEMMA GuardsTyped ==
  ASSUME Typed, NEW r \in Requests, Guards(r)
  PROVE  Typed'
  <1> DEFINE q == request[r]
  <1>1. pc[r] = "guard" /\ UNCHANGED users /\ Observe
    BY DEF Guards, At
  <1>2. users \in [Users -> User \cup {NoUser}]
    BY DEF Typed, StoresTyped
  <1>3. q.role \in Roles /\ CallerRole(q) \in Roles
    BY <1>1, RequestFields, UserFields DEF CallerRole
  <1>4. CASE Finish(r)
    BY <1>1, <1>2, <1>4, FinishTyped
  <1>5. CASE Pass(r, q.role)
    BY <1>1, <1>3, <1>5, PassTyped
  <1>6. CASE Pass(r, CallerRole(q))
    BY <1>1, <1>3, <1>6, PassTyped
  <1>7. QED
    BY <1>4, <1>5, <1>6 DEF Guards

\* What the writes of the handlers leave: the account, with the address it had or one
\* that the unique index lets through.
Writes(r, u, written) ==
  /\ pc[r] = "write" /\ u \in Users /\ users[u] \in User /\ written \in User
  /\ Write(r, u, written)
  /\ written.email = users[u].email \/ EmailIsFree(u, written.email)

LEMMA WritesAre ==
  ASSUME Typed, NEW r \in Requests, Save(r) \/ Update(r) \/ Deactivate(r)
  PROVE  \E u \in Users, written \in User : Writes(r, u, written)
  <1> DEFINE q == request[r]
  <1>1. /\ pc[r] = "write"
        /\ q.target \in Users /\ users[q.target] \in User /\ q.change \in Change
    BY RequestFields DEF Save, Update, Deactivate, At
  <1>2. CASE Save(r)
    <2>1. q.change.email = Same
      BY <1>1, <1>2 DEF Save, Typed, SlotTyped
    <2>2. Writes(r, q.target, Written(q.target, q.change))
      BY <1>1, <1>2, <2>1, WrittenFields DEF Save, Writes
    <2>3. QED
      BY <1>1, <2>2, WrittenFields
  <1>3. CASE Update(r)
    <2> DEFINE done == /\ Found(q.target)
                       /\ q.change.email = Same \/ EmailIsFree(q.target, q.change.email)
               written == IF done THEN Written(q.target, q.change) ELSE users[q.target]
    <2>1. Write(r, q.target, written)
      BY <1>3 DEF Update
    <2>2. written \in User
      BY <1>1, WrittenFields
    <2>3. written.email = users[q.target].email \/ EmailIsFree(q.target, written.email)
      BY <1>1, WrittenFields
    <2>4. QED
      BY <1>1, <2>1, <2>2, <2>3 DEF Writes
  <1>4. CASE Deactivate(r)
    <2> DEFINE written == IF Found(q.target) THEN Deactivated(q.target) ELSE users[q.target]
    <2>1. Write(r, q.target, written)
      BY <1>4 DEF Deactivate
    <2>2. written \in User /\ written.email = users[q.target].email
      BY <1>1, DeactivatedFields
    <2>3. QED
      BY <1>1, <2>1, <2>2 DEF Writes
  <1>5. QED
    BY <1>2, <1>3, <1>4

LEMMA HandlerTyped ==
  ASSUME Typed, NEW r \in Requests, Handler(r)
  PROVE  Typed'
  <1>1. users \in [Users -> User \cup {NoUser}]
    BY DEF Typed, StoresTyped
  <1>2. CASE Guards(r)
    BY <1>2, GuardsTyped
  <1>3. CASE Find(r)
    BY <1>1, <1>3, FinishTyped, GotoTyped DEF Find, At
  <1>4. CASE EmailExists(r)
    BY <1>1, <1>4, FinishTyped, GotoTyped DEF EmailExists, At
  <1>5. CASE Save(r) \/ Update(r) \/ Deactivate(r)
    BY <1>5, WritesAre, WriteTyped DEF Writes
  <1>6. CASE Serve(r)
    BY <1>1, <1>6, FinishTyped DEF Serve
  <1>7. QED
    BY <1>2, <1>3, <1>4, <1>5, <1>6 DEF Handler

LEMMA InitTyped == Init => Typed
  BY DEF Init, Typed, StoresTyped, SlotTyped, Steps

LEMMA NextTyped == Typed /\ [Next]_vars => Typed'
  <1> SUFFICES ASSUME Typed, [Next]_vars PROVE Typed'
    OBVIOUS
  <1>1. CASE UNCHANGED vars
    BY <1>1 DEF vars, Typed, StoresTyped, SlotTyped
  <1>2. ASSUME NEW u \in Users, NEW email \in Emails, NEW role \in Roles,
               Register(u, email, role)
        PROVE  Typed'
    BY <1>2, RegisterTyped
  <1>3. ASSUME NEW r \in Requests, NEW u \in Users, Login(r, u) PROVE Typed'
    BY <1>3, LoginTyped
  <1>4. ASSUME NEW r \in Requests, NEW route \in KnownRoutes, NEW target \in Users,
               NEW change \in Patches \cup {Unchanged}
                                \cup {[Unchanged EXCEPT !.role = role] : role \in Roles}
                                \cup {[Unchanged EXCEPT !.status = status] :
                                        status \in {"ACTIVE", "SUSPENDED"}},
               Send(r, route, target, change)
        PROVE  Typed'
    <2>1. change \in Change
      BY AccountsAssumptions DEF Change, Unchanged
    <2>2. QED
      BY <1>4, <2>1, SendTyped
  <1>5. ASSUME NEW r \in Requests, Handler(r) PROVE Typed'
    BY <1>5, HandlerTyped
  <1>6. ASSUME NEW r \in Requests, Fail(r) PROVE Typed'
    BY <1>6, FinishTyped DEF Fail, Typed, StoresTyped
  <1>7. QED
    BY <1>1, <1>2, <1>3, <1>4, <1>5, <1>6 DEF Next

LEMMA Types == Spec => []Typed
  BY InitTyped, NextTyped, PTL DEF Spec

\* Accounts and requests keep their types; a request's sender and target stay documents.
THEOREM TypeCorrect == Spec => []TypeOK
  BY Types, TypedIsTypeOK, PTL

-----------------------------------------------------------------------------
(* Authorization.  A request begins to be served in the step of its        *)
(* guards, which leaves the accounts as they were read.                    *)

Serving == {"find", "exists", "write", "handler"}

LEMMA NextObserves == Next => Observe
  <1>1. ASSUME NEW r \in Requests, Handler(r) PROVE Observe
    BY <1>1 DEF Handler, Guards, Find, EmailExists, Save, Update, Deactivate, Serve, Write
  <1>2. QED
    BY <1>1 DEF Next, Register, Login, Send, Fail

LEMMA PassesAreRight ==
  ASSUME Typed, NEW r \in Requests, Guards(r), pc'[r] # "idle"
  PROVE  Right(request[r])'
  <1> DEFINE q == request[r]
  <1>1. PICK role \in {q.role, CallerRole(q)} :
          /\ Pass(r, role)
          /\ q.route.public \/ /\ Usable(q.actor)
                               /\ RolesGuard(CallerRole(q), q.route)
                               /\ AdminPermissionsGuard(CallerRole(q), q.route)
    BY DEF Guards, Finish, Typed, StoresTyped
  <1>2. pc[r] = "guard" /\ q \in Request /\ users' = users
    BY RequestFields DEF Guards, At
  <1>3. request'[r].actor = q.actor /\ request'[r].route = q.route
    BY <1>1, <1>2 DEF Pass, Typed, StoresTyped, Request
  <1>4. QED
    BY <1>1, <1>2, <1>3 DEF Right, CallerRole, Usable, Found

LEMMA ServingBegins ==
  ASSUME Typed, Next, NEW x \in Requests, pc'[x] \in Serving, pc[x] \notin Serving
  PROVE  Right(request[x])'
  <1> USE DEF Serving
  <1>1. pc \in [Requests -> Steps]
    BY DEF Typed, StoresTyped
  <1>2. CASE \E r \in Requests : Guards(r)
    <2>1. PICK r \in Requests : Guards(r)
      BY <1>2
    <2>2. r = x
      BY <1>1, <2>1 DEF Guards, Pass, Finish
    <2>3. QED
      BY <2>1, <2>2, PassesAreRight
  <1>3. ASSUME NEW r \in Requests, Handler(r), ~Guards(r) PROVE FALSE
    <2>1. pc[r] \in Serving \/ pc' = [pc EXCEPT ![r] = "idle"]
      BY <1>3 DEF Handler, Find, EmailExists, Save, Update, Deactivate, Serve, At
    <2>2. \A y \in Requests \ {r} : pc'[y] = pc[y]
      BY <1>1, <1>3 DEF Handler, Find, EmailExists, Save, Update, Deactivate, Serve, Write,
                         Finish, Goto
    <2>3. QED
      BY <1>1, <2>1, <2>2
  <1>4. ASSUME NEW r \in Requests, pc' = [pc EXCEPT ![r] = "guard"] PROVE FALSE
    BY <1>1, <1>4
  <1>5. ASSUME NEW r \in Requests, pc' = [pc EXCEPT ![r] = "token"] PROVE FALSE
    BY <1>1, <1>5
  <1>6. ASSUME NEW r \in Requests, pc' = [pc EXCEPT ![r] = "idle"] PROVE FALSE
    BY <1>1, <1>6
  <1>7. QED
    BY <1>2, <1>3, <1>4, <1>5, <1>6 DEF Next, Register, Login, Send, Fail, Finish

LEMMA NextAuthorizes == Typed /\ ActsAreAuthorized /\ [Next]_vars => ActsAreAuthorized'
  <1> SUFFICES ASSUME Typed, ActsAreAuthorized, [Next]_vars, NEW x \in Requests,
                      pc'[x] \in Serving
               PROVE  allowed'[x]
    BY DEF ActsAreAuthorized, Serving
  <1>1. CASE UNCHANGED vars
    BY <1>1 DEF vars, ActsAreAuthorized, Serving
  <1>2. CASE Next
    <2>1. allowed'[x] =
            /\ pc'[x] \notin {"idle", "token"}
            /\ (pc[x] \notin {"idle", "token"} /\ allowed[x]) \/ Right(request[x])'
      BY <1>2, NextObserves DEF Observe
    <2>2. CASE pc[x] \in Serving
      BY <2>1, <2>2 DEF ActsAreAuthorized, Serving
    <2>3. CASE pc[x] \notin Serving
      <3>1. Right(request[x])'
        BY <1>2, <2>3, ServingBegins
      <3>2. QED
        BY <2>1, <3>1 DEF Serving
    <2>4. QED
      BY <2>2, <2>3
  <1>3. QED
    BY <1>1, <1>2

\* No handler runs but for an account that was in use, in a role its route is for,
\* since the request was sent.
THEOREM Authorized == Spec => []ActsAreAuthorized
  <1>1. Init => ActsAreAuthorized
    BY DEF Init, ActsAreAuthorized
  <1>2. QED
    BY <1>1, NextAuthorizes, Types, PTL DEF Spec

-----------------------------------------------------------------------------
(* Addresses.  Every write of one passes the unique index.                 *)

LEMMA AddressesHold ==
  ASSUME Typed, AddressesDiffer, NEW u \in Users, NEW new \in User,
         users' = [users EXCEPT ![u] = new],
         \/ users[u] # NoUser /\ new.email = users[u].email
         \/ EmailIsFree(u, new.email)
  PROVE  AddressesDiffer'
  <1>1. users \in [Users -> User \cup {NoUser}]
    BY DEF Typed, StoresTyped
  <1>2. \A v \in Users \ {u} : users[v] # NoUser => users[v].email # new.email
    BY DEF AddressesDiffer, EmailIsFree
  <1>3. users'[u] = new /\ \A v \in Users \ {u} : users'[v] = users[v]
    BY <1>1
  <1>4. QED
    BY <1>2, <1>3 DEF AddressesDiffer

LEMMA NextAddresses == Typed /\ AddressesDiffer /\ [Next]_vars => AddressesDiffer'
  <1> SUFFICES ASSUME Typed, AddressesDiffer, [Next]_vars PROVE AddressesDiffer'
    OBVIOUS
  <1>1. CASE UNCHANGED users
    BY <1>1 DEF AddressesDiffer
  <1>2. ASSUME NEW u \in Users, NEW email \in Emails, NEW role \in Roles,
               Register(u, email, role)
        PROVE  AddressesDiffer'
    <2> DEFINE new == [email |-> email, role |-> role, status |-> "ACTIVE",
                       deleted |-> FALSE]
    <2>1. new \in User /\ new.email = email
      BY AccountsAssumptions DEF User
    <2>2. users' = [users EXCEPT ![u] = new] /\ EmailIsFree(u, email)
      BY <1>2 DEF Register
    <2> HIDE DEF new
    <2>3. QED
      BY <2>1, <2>2, AddressesHold
  <1>3. ASSUME NEW r \in Requests, Save(r) \/ Update(r) \/ Deactivate(r)
        PROVE  AddressesDiffer'
    <2>1. PICK u \in Users, written \in User : Writes(r, u, written)
      BY <1>3, WritesAre
    <2>2. users' = [users EXCEPT ![u] = written] /\ users[u] # NoUser
      BY <2>1, UserFields DEF Writes, Write
    <2>3. QED
      BY <2>1, <2>2, AddressesHold DEF Writes
  <1>4. ASSUME NEW r \in Requests, Handler(r), ~(Save(r) \/ Update(r) \/ Deactivate(r))
        PROVE  UNCHANGED users
    BY <1>4 DEF Handler, Guards, Find, EmailExists, Serve
  <1>5. QED
    BY <1>1, <1>2, <1>3, <1>4 DEF Next, Login, Send, Fail, vars

\* No two accounts ever have one address, however registrations and updates overlap.
THEOREM OneAddressEach == Spec => []AddressesDiffer
  <1>1. Init => AddressesDiffer
    BY DEF Init, AddressesDiffer
  <1>2. QED
    BY <1>1, NextAddresses, Types, PTL DEF Spec

=============================================================================
