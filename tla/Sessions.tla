------------------------------ MODULE Sessions ------------------------------
(***************************************************************************)
(* AuthService, TokenService and what UsersService and the administrator's *)
(* UserManagementService do to the accounts they look at.                  *)
(*                                                                         *)
(* Each slot of Requests serves one request at a time, and every database  *)
(* call that decides or writes something is a step.  A user stands for the *)
(* account of one e-mail address, with the one network address it is used  *)
(* from: attempts are counted per pair of them.  Access tokens carry no    *)
(* state; a request that needs one is accepted by looking at its user.     *)
(* A refresh token that the TTL index has deleted is refused just as an    *)
(* expired one is, so expired tokens are kept.                             *)
(***************************************************************************)
EXTENDS Naturals, FiniteSets

CONSTANTS
  Users,      \* e-mail addresses
  Passwords,  \* passwords, before hashing
  Tokens,     \* values of refresh tokens
  Requests,   \* requests served at the same time
  Limit,      \* loginAttemptLimit
  NoUser,     \* no account with the address
  NoToken,    \* no such token has been issued, or the request carries none
  NoPassword, \* the request carries no password
  NoRequest   \* the slot is free

User == [status : {"ACTIVE", "SUSPENDED"}, deleted : BOOLEAN, password : Passwords]
RefreshToken == [user : Users, isRevoked : BOOLEAN, expired : BOOLEAN]

\* password is what register and login carry and what a change of password gives
\* as the current one; new is what it changes it to.
Request == [op : {"register", "login", "refresh", "logout", "revokeAll", "change"},
            user : Users,
            token : Tokens \cup {NoToken},
            password : Passwords \cup {NoPassword},
            new : Passwords \cup {NoPassword}]

ASSUME SessionsAssumptions ==
  /\ Limit \in Nat \ {0}
  /\ IsFiniteSet(Requests)
  /\ NoUser \notin User
  /\ NoToken \notin RefreshToken \cup Tokens
  /\ NoPassword \notin Passwords
  /\ NoRequest \notin Request

VARIABLES
  users,    \* [Users -> User or NoUser]
  tokens,   \* [Tokens -> RefreshToken or NoToken]
  failed,   \* [Users -> failed attempts within the window]
  pc,       \* [Requests -> the step the request is at]
  request,  \* [Requests -> Request or NoRequest]
  seen      \* history: [Requests -> the facts that held at a time during it]

stores == <<users, tokens, failed>>
vars == <<users, tokens, failed, pc, request, seen>>

Steps == {"idle", "lookup", "create", "attempts", "find", "fail", "issue", "verify",
          "owner", "revoke", "revokeAll", "current", "update", "granted"}

Facts == {"usable", "password", "known", "live"}

TypeOK ==
  /\ users \in [Users -> User \cup {NoUser}]
  /\ tokens \in [Tokens -> RefreshToken \cup {NoToken}]
  /\ failed \in [Users -> Nat]
  /\ pc \in [Requests -> Steps]
  /\ request \in [Requests -> Request \cup {NoRequest}]
  /\ \A r \in Requests : request[r] = NoRequest <=> pc[r] = "idle"
  /\ seen \in [Requests -> SUBSET Facts]

Init ==
  /\ users = [u \in Users |-> NoUser]
  /\ tokens = [t \in Tokens |-> NoToken]
  /\ failed = [u \in Users |-> 0]
  /\ pc = [r \in Requests |-> "idle"]
  /\ request = [r \in Requests |-> NoRequest]
  /\ seen = [r \in Requests |-> {}]

-----------------------------------------------------------------------------
\* findById and findOne, behind the soft-delete filter, return the account.
Found(u) == users[u] # NoUser /\ ~users[u].deleted
Usable(u) == Found(u) /\ users[u].status = "ACTIVE"
HasPassword(u, password) == Found(u) /\ users[u].password = password
Live(t) == tokens[t] # NoToken /\ ~tokens[t].isRevoked /\ ~tokens[t].expired

\* What makes a grant right: the account is in use and has the password, at one
\* time; the token can be used, and its owner's account is in use.
Needed(op) ==
  CASE op = "login" -> {"known"}
    [] op = "refresh" -> {"live", "usable"}
    [] op = "change" -> {"usable", "password"}
    [] OTHER -> {}

Holds(fact, q) ==
  \/ fact = "usable" /\ Usable(q.user)
  \/ fact = "password" /\ HasPassword(q.user, q.password)
  \/ fact = "known" /\ Usable(q.user) /\ HasPassword(q.user, q.password)
  \/ fact = "live" /\ Live(q.token)

Holding(r) ==
  IF request[r] = NoRequest THEN {}
  ELSE {fact \in Needed(request[r].op) : Holds(fact, request[r])}

\* The history after a step: what it had seen, and what holds after it.
Observe ==
  seen' = [r \in Requests |->
             Holding(r)' \cup IF request'[r] = request[r] THEN seen[r] ELSE {}]

At(r, step) == pc[r] = step
Goto(r, step) == pc' = [pc EXCEPT ![r] = step] /\ UNCHANGED request

Finish(r) ==
  /\ pc' = [pc EXCEPT ![r] = "idle"]
  /\ request' = [request EXCEPT ![r] = NoRequest]

Serve(r, step, q) ==
  /\ At(r, "idle")
  /\ pc' = [pc EXCEPT ![r] = step]
  /\ request' = [request EXCEPT ![r] = q]
  /\ UNCHANGED stores
  /\ Observe

Asks(op, u) ==
  [op |-> op, user |-> u, token |-> NoToken, password |-> NoPassword, new |-> NoPassword]

-----------------------------------------------------------------------------
(* Arrivals.  A request that JwtAuthGuard refuses, or that carries a token *)
(* never issued, changes nothing and is left out.                          *)

ArriveRegister(r, u, password) ==
  Serve(r, "lookup", [Asks("register", u) EXCEPT !.password = password])

ArriveLogin(r, u, password) ==
  Serve(r, "attempts", [Asks("login", u) EXCEPT !.password = password])

ArriveRefresh(r, t) ==
  /\ tokens[t] # NoToken
  /\ Serve(r, "verify", [Asks("refresh", tokens[t].user) EXCEPT !.token = t])

ArriveLogout(r, u, t) ==
  /\ Usable(u)
  /\ tokens[t] # NoToken
  /\ Serve(r, "revoke", [Asks("logout", u) EXCEPT !.token = t])

ArriveRevokeAll(r, u) ==
  /\ Usable(u)
  /\ Serve(r, "revokeAll", Asks("revokeAll", u))

ArriveChange(r, u, password, new) ==
  /\ Usable(u)
  /\ Serve(r, "current",
           [Asks("change", u) EXCEPT !.password = password, !.new = new])

Arrival(r) ==
  \/ \E u \in Users, password \in Passwords :
       \/ ArriveRegister(r, u, password)
       \/ ArriveLogin(r, u, password)
       \/ \E new \in Passwords : ArriveChange(r, u, password, new)
  \/ \E t \in Tokens : ArriveRefresh(r, t)
  \/ \E u \in Users, t \in Tokens : ArriveLogout(r, u, t)
  \/ \E u \in Users : ArriveRevokeAll(r, u)

-----------------------------------------------------------------------------
(* Registration.                                                           *)

LookUp(r) ==
  /\ At(r, "lookup")
  /\ IF Found(request[r].user) THEN Finish(r) ELSE Goto(r, "create")
  /\ UNCHANGED stores
  /\ Observe

\* Mutant of EmailIsFree: no unique index, the lookup alone decides.
NoUniqueIndex(u) == TRUE

\* The unique index on email refuses a second account; a deleted one keeps its
\* address.  Only this index decides: the lookup may be out of date.
EmailIsFree(u) == users[u] = NoUser

Create(r) ==
  LET u == request[r].user IN
  /\ At(r, "create")
  /\ IF EmailIsFree(u)
       THEN /\ users' = [users EXCEPT ![u] =
                 [status |-> "ACTIVE", deleted |-> FALSE, password |-> request[r].password]]
            /\ Goto(r, "issue")
       ELSE Finish(r) /\ UNCHANGED users
  /\ UNCHANGED <<tokens, failed>>
  /\ Observe

-----------------------------------------------------------------------------
(* Login.                                                                  *)

\* Mutant of MayTry: > in place of >=.
MayTryOnceMore(u) == failed[u] <= Limit

MayTry(u) == failed[u] < Limit

\* Mutant of CheckLoginAttempts: what it refuses is recorded as a failure.
CheckAndRecord(r) ==
  LET u == request[r].user IN
  /\ At(r, "attempts")
  /\ IF MayTry(u)
       THEN Goto(r, "find") /\ UNCHANGED failed
       ELSE Finish(r) /\ failed' = [failed EXCEPT ![u] = @ + 1]
  /\ UNCHANGED <<users, tokens>>
  /\ Observe

CheckLoginAttempts(r) ==
  /\ At(r, "attempts")
  /\ IF MayTry(request[r].user) THEN Goto(r, "find") ELSE Finish(r)
  /\ UNCHANGED stores
  /\ Observe

\* One findOne reads the account; its password and then its status are compared
\* with that copy.
FindUser(r) ==
  LET u == request[r].user IN
  /\ At(r, "find")
  /\ \/ ~HasPassword(u, request[r].password) /\ Goto(r, "fail")
     \/ HasPassword(u, request[r].password) /\ ~Usable(u) /\ Finish(r)
     \/ HasPassword(u, request[r].password) /\ Usable(u) /\ Goto(r, "issue")
  /\ UNCHANGED stores
  /\ Observe

RecordFailure(r) ==
  /\ At(r, "fail")
  /\ failed' = [failed EXCEPT ![request[r].user] = @ + 1]
  /\ Finish(r)
  /\ UNCHANGED <<users, tokens>>
  /\ Observe

\* Mutant of NewRefreshToken: the fields that default are left out.
BareRefreshToken(u) == [user |-> u, expired |-> FALSE]

\* generateTokenPair, for a login and for a registration.
NewRefreshToken(u) == [user |-> u, isRevoked |-> FALSE, expired |-> FALSE]

Issue(r, t) ==
  /\ At(r, "issue")
  /\ tokens[t] = NoToken
  /\ tokens' = [tokens EXCEPT ![t] = NewRefreshToken(request[r].user)]
  /\ Goto(r, "granted")
  /\ UNCHANGED <<users, failed>>
  /\ Observe

-----------------------------------------------------------------------------
(* Refresh and logout.                                                     *)

VerifyRefreshToken(r) ==
  /\ At(r, "verify")
  /\ IF Live(request[r].token) THEN Goto(r, "owner") ELSE Finish(r)
  /\ UNCHANGED stores
  /\ Observe

\* Mutant of MayRefresh: the status is not looked at.
MayRefreshAny(u) == Found(u)

MayRefresh(u) == Usable(u)

FindOwner(r) ==
  /\ At(r, "owner")
  /\ IF MayRefresh(request[r].user) THEN Goto(r, "revoke") ELSE Finish(r)
  /\ UNCHANGED stores
  /\ Observe

\* Mutant of Revoke: the value is looked for as it is, not its hash.
RevokeUnhashed(r) ==
  /\ At(r, "revoke")
  /\ Goto(r, "granted")
  /\ UNCHANGED stores
  /\ Observe

Revoke(r) ==
  /\ At(r, "revoke")
  /\ tokens' = [tokens EXCEPT ![request[r].token].isRevoked = TRUE]
  /\ Goto(r, "granted")
  /\ UNCHANGED <<users, failed>>
  /\ Observe

\* The user that JwtStrategy returns has sub and no id: the controller passes
\* undefined, of which ObjectId makes a fresh identifier that no token has.
RevokeAllUserTokens(r) ==
  /\ At(r, "revokeAll")
  /\ Goto(r, "granted")
  /\ UNCHANGED stores
  /\ Observe

-----------------------------------------------------------------------------
(* Change of password.                                                     *)

VerifyCurrent(r) ==
  /\ At(r, "current")
  /\ IF HasPassword(request[r].user, request[r].password)
       THEN Goto(r, "update") ELSE Finish(r)
  /\ UNCHANGED stores
  /\ Observe

\* The update finds nothing when the account has been deleted, and its result is
\* not looked at.
UpdatePassword(r) ==
  LET u == request[r].user IN
  /\ At(r, "update")
  /\ users' = IF Found(u) THEN [users EXCEPT ![u].password = request[r].new] ELSE users
  /\ Goto(r, "granted")
  /\ UNCHANGED <<tokens, failed>>
  /\ Observe

-----------------------------------------------------------------------------
Answer(r) == At(r, "granted") /\ Finish(r) /\ UNCHANGED stores /\ Observe

\* A database call throws or the process stops: what was written stays.
Fail(r) ==
  /\ ~At(r, "idle") /\ ~At(r, "granted")
  /\ Finish(r)
  /\ UNCHANGED stores
  /\ Observe

\* The writes of suspendUser and activateUser.  The read that they follow may be
\* old, so the account may have been deleted since.
SetStatus(u, status) ==
  /\ users[u] # NoUser
  /\ users' = [users EXCEPT ![u].status = status]
  /\ UNCHANGED <<tokens, failed, pc, request>>
  /\ Observe

DeactivateUser(u) ==
  /\ Found(u)
  /\ users' = [users EXCEPT ![u].deleted = TRUE]
  /\ UNCHANGED <<tokens, failed, pc, request>>
  /\ Observe

ExpireToken(t) ==
  /\ tokens[t] # NoToken
  /\ tokens' = [tokens EXCEPT ![t].expired = TRUE]
  /\ UNCHANGED <<users, failed, pc, request>>
  /\ Observe

\* A failed attempt becomes older than loginAttemptWindow.
Forget(u) ==
  /\ failed[u] > 0
  /\ failed' = [failed EXCEPT ![u] = @ - 1]
  /\ UNCHANGED <<users, tokens, pc, request>>
  /\ Observe

Handler(r) ==
  \/ LookUp(r) \/ Create(r)
  \/ CheckLoginAttempts(r) \/ FindUser(r) \/ RecordFailure(r)
  \/ \E t \in Tokens : Issue(r, t)
  \/ VerifyRefreshToken(r) \/ FindOwner(r) \/ Revoke(r)
  \/ RevokeAllUserTokens(r)
  \/ VerifyCurrent(r) \/ UpdatePassword(r)
  \/ Answer(r) \/ Fail(r)

Next ==
  \/ \E r \in Requests : Arrival(r) \/ Handler(r)
  \/ \E u \in Users : DeactivateUser(u) \/ Forget(u)
  \/ \E u \in Users, status \in {"ACTIVE", "SUSPENDED"} : SetStatus(u, status)
  \/ \E t \in Tokens : ExpireToken(t)

\* Time passes: the oldest failed attempt leaves the window in the end.
Fairness == \A u \in Users : WF_vars(Forget(u))

Spec == Init /\ [][Next]_vars /\ Fairness

-----------------------------------------------------------------------------
(* Properties.                                                             *)

Granted(r, op) == At(r, "granted") /\ request[r].op = op

\* A request is granted only on facts that held while it was being served: for a
\* login, that the account was in use and had the password at one time; for a
\* refresh, that the token could be used and that its owner's account was in use;
\* for a change, that the account was in use and had the current password.
\* (Every one is read at an await and used after it.)
GrantsAreJustified ==
  \A r \in Requests : At(r, "granted") => Needed(request[r].op) \subseteq seen[r]

\* Of registrations of one address that overlap, one at most is past the creation
\* of the account, whatever each lookup has found.
OneRegistration ==
  \A r, q \in Requests :
    /\ At(r, "issue") \/ At(r, "granted")
    /\ At(q, "issue") \/ At(q, "granted")
    /\ request[r].op = "register" /\ request[q].op = "register"
    /\ request[r].user = request[q].user
    => r = q

\* When a refresh or a logout is answered its refresh token is revoked, and so it
\* will never be accepted again: nothing that ran meanwhile undid it.
GrantedTokensAreSpent ==
  \A r \in Requests :
    Granted(r, "refresh") \/ Granted(r, "logout") => ~Live(request[r].token)

\* The limit on failed attempts is checked before a failure is recorded, so logins
\* that overlap pass it together; it is exceeded by fewer than there are slots.
AttemptsLimited ==
  \A u \in Users : failed[u] <= Limit - 1 + Cardinality(Requests)

\* An address that is locked out is let in again when its failures age, however
\* often it is tried meanwhile: what is refused at the limit is not recorded.
LockoutEnds == \A u \in Users : ~MayTry(u) ~> MayTry(u)

\* "Logout from all devices (revoke all refresh tokens)": when revoke-all answers,
\* each token that its user had before is revoked.
LogoutAllRevokes ==
  [][\A r \in Requests :
       /\ At(r, "revokeAll") /\ At(r, "granted")'
       => \A t \in Tokens :
            tokens[t] # NoToken /\ tokens[t].user = request[r].user
              => tokens'[t].isRevoked]_vars

=============================================================================
