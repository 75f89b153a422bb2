--------------------------- MODULE SessionsProofs ---------------------------
(***************************************************************************)
(* Theorems about Sessions, for any accounts, passwords and tokens, any    *)
(* limit and any finite number of requests served at the same time.        *)
(***************************************************************************)
EXTENDS Sessions, FiniteSetTheorems, TLAPS

-----------------------------------------------------------------------------
(* Types: TypeOK, and which request may be at which step.                  *)

\* The operations that have the step, and what they carry there.
Fitting(step, q) ==
  /\ step \in {"lookup", "create"} => q.op = "register"
  /\ step \in {"attempts", "find", "fail"} => q.op = "login"
  /\ step = "issue" => q.op \in {"register", "login"}
  /\ step \in {"verify", "owner"} => q.op = "refresh"
  /\ step = "revoke" => q.op \in {"refresh", "logout"}
  /\ step = "revokeAll" => q.op = "revokeAll"
  /\ step \in {"current", "update"} => q.op = "change"
  /\ q.op \in {"register", "login", "change"} => q.password \in Passwords
  /\ q.op = "change" => q.new \in Passwords
  /\ q.op \in {"refresh", "logout"} => q.token \in Tokens

StoresTyped ==
  /\ users \in [Users -> User \cup {NoUser}]
  /\ tokens \in [Tokens -> RefreshToken \cup {NoToken}]
  /\ failed \in [Users -> Nat]

SlotsTyped ==
  /\ pc \in [Requests -> Steps]
  /\ request \in [Requests -> Request \cup {NoRequest}]
  /\ seen \in [Requests -> SUBSET Facts]

\* The request at a step, and its token, which has been issued.
SlotTyped(r) ==
  /\ request[r] = NoRequest <=> pc[r] = "idle"
  /\ pc[r] # "idle" =>
       /\ Fitting(pc[r], request[r])
       /\ request[r].op \in {"refresh", "logout"} => tokens[request[r].token] # NoToken

Typed == StoresTyped /\ SlotsTyped /\ \A r \in Requests : SlotTyped(r)

LEMMA TypedIsTypeOK == Typed => TypeOK
  BY DEF Typed, TypeOK, StoresTyped, SlotsTyped, SlotTyped

LEMMA RequestFields ==
  ASSUME Typed, NEW r \in Requests, pc[r] # "idle"
  PROVE  /\ request[r] \in Request /\ request[r] # NoRequest
         /\ request[r].user \in Users
         /\ Fitting(pc[r], request[r])
  BY SessionsAssumptions DEF Typed, SlotsTyped, SlotTyped, Request

-----------------------------------------------------------------------------
(* What the steps do to the slots: one request arrives, goes on or ends,   *)
(* or none does, and what holds is observed.                               *)

Others(r) ==
  \A x \in Requests \ {r} : pc'[x] = pc[x] /\ request'[x] = request[x]

Arrived(r) ==
  /\ pc[r] = "idle"
  /\ UNCHANGED stores
  /\ \E step \in Steps \ {"idle"}, q \in Request :
       /\ pc' = [pc EXCEPT ![r] = step]
       /\ request' = [request EXCEPT ![r] = q]
       /\ Fitting(step, q) /\ step \notin {"create", "find", "fail", "issue", "owner",
                                           "update", "granted"}
       /\ q.op \in {"refresh", "logout"} => tokens[q.token] # NoToken
       /\ q.op = "refresh" => step = "verify"
       /\ q.op = "change" => Usable(q.user)

LEMMA ArrivalsAre ==
  ASSUME Typed, NEW r \in Requests, Arrival(r)
  PROVE  Arrived(r) /\ Observe
  <1> DEFINE Enters(step, q) == /\ step \in Steps \ {"idle"} /\ q \in Request
                                /\ Serve(r, step, q) /\ Fitting(step, q)
                                /\ step \notin {"create", "find", "fail", "issue", "owner",
                                                "update", "granted"}
                                /\ q.op \in {"refresh", "logout"} => tokens[q.token] # NoToken
                                /\ q.op = "refresh" => step = "verify"
                                /\ q.op = "change" => Usable(q.user)
  <1>1. ASSUME NEW step, NEW q, Enters(step, q) PROVE Arrived(r) /\ Observe
    BY <1>1 DEF Serve, At, Arrived
  <1>2. ASSUME NEW u \in Users, NEW password \in Passwords, ArriveRegister(r, u, password)
        PROVE  Enters("lookup", [Asks("register", u) EXCEPT !.password = password])
    BY <1>2 DEF ArriveRegister, Asks, Request, Fitting, Steps
  <1>3. ASSUME NEW u \in Users, NEW password \in Passwords, ArriveLogin(r, u, password)
        PROVE  Enters("attempts", [Asks("login", u) EXCEPT !.password = password])
    BY <1>3 DEF ArriveLogin, Asks, Request, Fitting, Steps
  <1>4. ASSUME NEW u \in Users, NEW password \in Passwords, NEW new \in Passwords,
               ArriveChange(r, u, password, new)
        PROVE  Enters("current", [Asks("change", u) EXCEPT !.password = password, !.new = new])
    BY <1>4 DEF ArriveChange, Asks, Request, Fitting, Steps
  <1>5. ASSUME NEW t \in Tokens, ArriveRefresh(r, t)
        PROVE  Enters("verify", [Asks("refresh", tokens[t].user) EXCEPT !.token = t])
    <2>1. tokens[t].user \in Users /\ tokens[t] # NoToken
      BY <1>5 DEF ArriveRefresh, Typed, StoresTyped, RefreshToken
    <2>2. QED
      BY <1>5, <2>1 DEF ArriveRefresh, Asks, Request, Fitting, Steps
  <1>6. ASSUME NEW u \in Users, NEW t \in Tokens, ArriveLogout(r, u, t)
        PROVE  Enters("revoke", [Asks("logout", u) EXCEPT !.token = t])
    BY <1>6 DEF ArriveLogout, Asks, Request, Fitting, Steps
  <1>7. ASSUME NEW u \in Users, ArriveRevokeAll(r, u)
        PROVE  Enters("revokeAll", Asks("revokeAll", u))
    BY <1>7 DEF ArriveRevokeAll, Asks, Request, Fitting, Steps
  <1> HIDE DEF Enters
  <1>8. QED
    BY <1>1, <1>2, <1>3, <1>4, <1>5, <1>6, <1>7 DEF Arrival

\* The facts that a request of the operation has met when it is at the step.
Earned(step, op) ==
  {fact \in Facts :
    \/ fact = "known" /\ op = "login" /\ step \in {"issue", "granted"}
    \/ fact = "live" /\ op = "refresh" /\ step \in {"owner", "revoke", "granted"}
    \/ fact = "usable" /\ op = "refresh" /\ step \in {"revoke", "granted"}
    \/ fact = "usable" /\ op = "change" /\ step \in {"current", "update", "granted"}
    \/ fact = "password" /\ op = "change" /\ step \in {"update", "granted"}}

\* A request goes on to a step that it fits, by what it had met or what holds.
GoesTo(r, step) ==
  /\ step \in Steps \ {"idle"}
  /\ Goto(r, step)
  /\ Fitting(step, request[r])
  /\ Earned(step, request[r].op) \subseteq Earned(pc[r], request[r].op) \cup Holding(r)

Moved(r) ==
  /\ pc[r] \in Steps \ {"idle"}
  /\ Finish(r) \/ \E step \in Steps : GoesTo(r, step)

\* The accounts and tokens stay what they are, or change as they may: none is
\* removed, a token is never given to another user, and none stops being revoked.
StoresGrow ==
  /\ StoresTyped'
  /\ \A u \in Users : users[u] # NoUser => users'[u] # NoUser
  /\ \A t \in Tokens : tokens[t] # NoToken =>
       /\ tokens'[t] # NoToken
       /\ tokens[t].isRevoked => tokens'[t].isRevoked

LEMMA SameStores == Typed /\ UNCHANGED stores => StoresGrow
  BY DEF Typed, StoresTyped, StoresGrow, stores

LEMMA UsersWritten ==
  ASSUME Typed, NEW u \in Users, NEW new \in User, UNCHANGED <<tokens, failed>>,
         users' = [users EXCEPT ![u] = new]
  PROVE  StoresGrow
  BY SessionsAssumptions DEF Typed, StoresTyped, StoresGrow

LEMMA FailuresWritten ==
  ASSUME Typed, NEW u \in Users, NEW n \in Nat, UNCHANGED <<users, tokens>>,
         failed' = [failed EXCEPT ![u] = n]
  PROVE  StoresGrow
  BY DEF Typed, StoresTyped, StoresGrow

LEMMA TokensWritten ==
  ASSUME Typed, NEW t \in Tokens, NEW new \in RefreshToken, UNCHANGED <<users, failed>>,
         tokens' = [tokens EXCEPT ![t] = new],
         tokens[t] # NoToken /\ tokens[t].isRevoked => new.isRevoked
  PROVE  StoresGrow
  BY SessionsAssumptions DEF Typed, StoresTyped, StoresGrow

-----------------------------------------------------------------------------
(* Every handler's step moves its request.                                 *)

LEMMA Registering ==
  ASSUME Typed, NEW r \in Requests, LookUp(r) \/ Create(r)
  PROVE  Moved(r) /\ Observe /\ StoresGrow
  <1>1. CASE LookUp(r)
    <2>1. pc[r] = "lookup" /\ Fitting("lookup", request[r])
      BY <1>1, RequestFields DEF LookUp, At
    <2>2. Fitting("create", request[r]) /\ Earned("create", request[r].op) = {}
      BY <2>1 DEF Fitting, Earned
    <2>3. QED
      BY <1>1, <2>1, <2>2, SameStores DEF LookUp, Moved, GoesTo, Steps
  <1>2. CASE Create(r)
    <2>1. pc[r] = "create" /\ Fitting("create", request[r]) /\ request[r].user \in Users
      BY <1>2, RequestFields DEF Create, At
    <2>2. request[r].op = "register" /\ request[r].password \in Passwords
      BY <2>1 DEF Fitting
    <2>3. Fitting("issue", request[r]) /\ Earned("issue", request[r].op) = {}
      BY <2>1, <2>2 DEF Fitting, Earned
    <2>4. Moved(r) /\ Observe
      BY <1>2, <2>1, <2>3 DEF Create, Moved, GoesTo, Steps
    <2>5. CASE EmailIsFree(request[r].user)
      <3> DEFINE new == [status |-> "ACTIVE", deleted |-> FALSE, password |-> request[r].password]
      <3>1. new \in User
        BY <2>2 DEF User
      <3>2. users' = [users EXCEPT ![request[r].user] = new] /\ UNCHANGED <<tokens, failed>>
        BY <1>2, <2>5 DEF Create
      <3> HIDE DEF new
      <3>3. QED
        BY <2>1, <2>4, <3>1, <3>2, UsersWritten
    <2>6. CASE ~EmailIsFree(request[r].user)
      BY <1>2, <2>4, <2>6, SameStores DEF Create, stores
    <2>7. QED
      BY <2>5, <2>6
  <1>3. QED
    BY <1>1, <1>2

LEMMA LoggingIn ==
  ASSUME Typed, NEW r \in Requests,
         \/ CheckLoginAttempts(r) \/ FindUser(r) \/ RecordFailure(r)
         \/ \E t \in Tokens : Issue(r, t)
  PROVE  Moved(r) /\ Observe /\ StoresGrow
  <1>1. CASE CheckLoginAttempts(r)
    <2>1. pc[r] = "attempts" /\ Fitting("attempts", request[r])
      BY <1>1, RequestFields DEF CheckLoginAttempts, At
    <2>2. Fitting("find", request[r]) /\ Earned("find", request[r].op) = {}
      BY <2>1 DEF Fitting, Earned
    <2>3. QED
      BY <1>1, <2>1, <2>2, SameStores DEF CheckLoginAttempts, Moved, GoesTo, Steps
  <1>2. CASE FindUser(r)
    <2>1. pc[r] = "find" /\ Fitting("find", request[r]) /\ request[r] # NoRequest
      BY <1>2, RequestFields DEF FindUser, At
    <2>2. request[r].op = "login" /\ Fitting("fail", request[r]) /\ Fitting("issue", request[r])
      BY <2>1 DEF Fitting
    <2>3. Earned("fail", "login") = {} /\ Earned("issue", "login") = {"known"}
      BY DEF Earned, Facts
    <2>4. Usable(request[r].user) /\ HasPassword(request[r].user, request[r].password)
            => "known" \in Holding(r)
      BY <2>1, <2>2 DEF Holding, Holds, Needed
    <2>5. QED
      BY <1>2, <2>1, <2>2, <2>3, <2>4, SameStores DEF FindUser, Moved, GoesTo, Steps
  <1>3. CASE RecordFailure(r)
    <2>1. pc[r] = "fail" /\ request[r].user \in Users
      BY <1>3, RequestFields DEF RecordFailure, At
    <2>2. Moved(r) /\ Observe
      BY <1>3, <2>1 DEF RecordFailure, Moved, Steps
    <2>3. failed[request[r].user] + 1 \in Nat
      BY <2>1 DEF Typed, StoresTyped
    <2>4. failed' = [failed EXCEPT ![request[r].user] = failed[request[r].user] + 1]
          /\ UNCHANGED <<users, tokens>>
      BY <1>3 DEF RecordFailure
    <2>5. QED
      BY <2>1, <2>2, <2>3, <2>4, FailuresWritten
  <1>4. ASSUME NEW t \in Tokens, Issue(r, t) PROVE Moved(r) /\ Observe /\ StoresGrow
    <2>1. pc[r] = "issue" /\ Fitting("issue", request[r]) /\ request[r].user \in Users
      BY <1>4, RequestFields DEF Issue, At
    <2>2. Fitting("granted", request[r])
          /\ Earned("granted", request[r].op) \subseteq Earned("issue", request[r].op)
      BY <2>1 DEF Fitting, Earned
    <2>3. Moved(r) /\ Observe
      BY <1>4, <2>1, <2>2 DEF Issue, Moved, GoesTo, Steps
    <2>4. NewRefreshToken(request[r].user) \in RefreshToken
      BY <2>1 DEF NewRefreshToken, RefreshToken
    <2>5. tokens' = [tokens EXCEPT ![t] = NewRefreshToken(request[r].user)]
          /\ UNCHANGED <<users, failed>> /\ tokens[t] = NoToken
      BY <1>4 DEF Issue
    <2>6. QED
      BY <2>3, <2>4, <2>5, TokensWritten
  <1>5. QED
    BY <1>1, <1>2, <1>3, <1>4

LEMMA UsingTokens ==
  ASSUME Typed, NEW r \in Requests,
         VerifyRefreshToken(r) \/ FindOwner(r) \/ Revoke(r) \/ RevokeAllUserTokens(r)
  PROVE  Moved(r) /\ Observe /\ StoresGrow
  <1>1. CASE VerifyRefreshToken(r)
    <2>1. pc[r] = "verify" /\ Fitting("verify", request[r]) /\ request[r] # NoRequest
      BY <1>1, RequestFields DEF VerifyRefreshToken, At
    <2>2. request[r].op = "refresh" /\ Fitting("owner", request[r])
      BY <2>1 DEF Fitting
    <2>3. Earned("owner", "refresh") = {"live"}
      BY DEF Earned, Facts
    <2>4. Live(request[r].token) => "live" \in Holding(r)
      BY <2>1, <2>2 DEF Holding, Holds, Needed
    <2>5. QED
      BY <1>1, <2>1, <2>2, <2>3, <2>4, SameStores DEF VerifyRefreshToken, Moved, GoesTo, Steps
  <1>2. CASE FindOwner(r)
    <2>1. pc[r] = "owner" /\ Fitting("owner", request[r]) /\ request[r] # NoRequest
      BY <1>2, RequestFields DEF FindOwner, At
    <2>2. request[r].op = "refresh" /\ Fitting("revoke", request[r])
      BY <2>1 DEF Fitting
    <2>3. Earned("revoke", "refresh") \subseteq Earned("owner", "refresh") \cup {"usable"}
      BY DEF Earned
    <2>4. MayRefresh(request[r].user) => "usable" \in Holding(r)
      BY <2>1, <2>2 DEF Holding, Holds, Needed, MayRefresh
    <2>5. QED
      BY <1>2, <2>1, <2>2, <2>3, <2>4, SameStores DEF FindOwner, Moved, GoesTo, Steps
  <1>3. CASE Revoke(r)
    <2>1. pc[r] = "revoke" /\ Fitting("revoke", request[r])
      BY <1>3, RequestFields DEF Revoke, At
    <2>2. /\ Fitting("granted", request[r]) /\ request[r].op \in {"refresh", "logout"}
          /\ Earned("granted", request[r].op) \subseteq Earned("revoke", request[r].op)
      BY <2>1 DEF Fitting, Earned
    <2>3. Moved(r) /\ Observe
      BY <1>3, <2>1, <2>2 DEF Revoke, Moved, GoesTo, Steps
    <2>4. request[r].token \in Tokens /\ tokens[request[r].token] \in RefreshToken
      BY <2>1, <2>2 DEF Fitting, Typed, SlotTyped, StoresTyped
    <2> DEFINE t == request[r].token
               new == [tokens[t] EXCEPT !.isRevoked = TRUE]
    <2>5. new \in RefreshToken /\ new.isRevoked
      BY <2>4 DEF RefreshToken
    <2>6. tokens' = [tokens EXCEPT ![t] = new] /\ UNCHANGED <<users, failed>>
      BY <1>3 DEF Revoke
    <2> HIDE DEF new
    <2>7. QED
      BY <2>3, <2>4, <2>5, <2>6, TokensWritten
  <1>4. CASE RevokeAllUserTokens(r)
    <2>1. pc[r] = "revokeAll" /\ Fitting("revokeAll", request[r])
      BY <1>4, RequestFields DEF RevokeAllUserTokens, At
    <2>2. Fitting("granted", request[r]) /\ Earned("granted", request[r].op) = {}
      BY <2>1 DEF Fitting, Earned
    <2>3. QED
      BY <1>4, <2>1, <2>2, SameStores DEF RevokeAllUserTokens, Moved, GoesTo, Steps
  <1>5. QED
    BY <1>1, <1>2, <1>3, <1>4

LEMMA ChangingPassword ==
  ASSUME Typed, NEW r \in Requests, VerifyCurrent(r) \/ UpdatePassword(r)
  PROVE  Moved(r) /\ Observe /\ StoresGrow
  <1>1. CASE VerifyCurrent(r)
    <2>1. pc[r] = "current" /\ Fitting("current", request[r]) /\ request[r] # NoRequest
      BY <1>1, RequestFields DEF VerifyCurrent, At
    <2>2. request[r].op = "change" /\ Fitting("update", request[r])
      BY <2>1 DEF Fitting
    <2>3. Earned("update", "change") \subseteq Earned("current", "change") \cup {"password"}
      BY DEF Earned
    <2>4. HasPassword(request[r].user, request[r].password) => "password" \in Holding(r)
      BY <2>1, <2>2 DEF Holding, Holds, Needed
    <2>5. QED
      BY <1>1, <2>1, <2>2, <2>3, <2>4, SameStores DEF VerifyCurrent, Moved, GoesTo, Steps
  <1>2. CASE UpdatePassword(r)
    <2>1. /\ pc[r] = "update" /\ Fitting("update", request[r])
          /\ request[r].user \in Users
      BY <1>2, RequestFields DEF UpdatePassword, At
    <2>2. /\ request[r].op = "change" /\ request[r].new \in Passwords
          /\ Fitting("granted", request[r])
      BY <2>1 DEF Fitting
    <2>3. Earned("granted", "change") \subseteq Earned("update", "change")
      BY DEF Earned
    <2>4. Moved(r) /\ Observe
      BY <1>2, <2>1, <2>2, <2>3 DEF UpdatePassword, Moved, GoesTo, Steps
    <2>5. CASE Found(request[r].user)
      <3> DEFINE u == request[r].user
                 new == [users[u] EXCEPT !.password = request[r].new]
      <3>1. users[u] \in User
        BY <2>1, <2>5 DEF Typed, StoresTyped, Found
      <3>2. new \in User
        BY <2>2, <3>1 DEF User
      <3>3. users' = [users EXCEPT ![u] = new] /\ UNCHANGED <<tokens, failed>>
        BY <1>2, <2>5 DEF UpdatePassword
      <3> HIDE DEF new
      <3>4. QED
        BY <2>1, <2>4, <3>2, <3>3, UsersWritten
    <2>6. CASE ~Found(request[r].user)
      BY <1>2, <2>4, <2>6, SameStores DEF UpdatePassword, stores
    <2>7. QED
      BY <2>5, <2>6
  <1>3. QED
    BY <1>1, <1>2

LEMMA HandlersMove ==
  ASSUME Typed, NEW r \in Requests, Handler(r)
  PROVE  Moved(r) /\ Observe /\ StoresGrow
  <1>1. CASE Answer(r) \/ Fail(r)
    <2>1. pc[r] \in Steps
      BY DEF Typed, SlotsTyped
    <2>2. QED
      BY <1>1, <2>1, SameStores DEF Answer, Fail, At, Moved, Steps
  <1>2. QED
    BY <1>1, Registering, LoggingIn, UsingTokens, ChangingPassword DEF Handler

-----------------------------------------------------------------------------
(* What happens to the accounts and the tokens between the requests.       *)

Elsewhere ==
  \/ \E u \in Users : DeactivateUser(u) \/ Forget(u)
  \/ \E u \in Users, status \in {"ACTIVE", "SUSPENDED"} : SetStatus(u, status)
  \/ \E t \in Tokens : ExpireToken(t)

LEMMA ElsewhereGrows ==
  ASSUME Typed, Elsewhere
  PROVE  UNCHANGED <<pc, request>> /\ Observe /\ StoresGrow
  <1>1. ASSUME NEW u \in Users, DeactivateUser(u) PROVE StoresGrow
    <2> DEFINE new == [users[u] EXCEPT !.deleted = TRUE]
    <2>1. new \in User
      BY <1>1 DEF DeactivateUser, Found, Typed, StoresTyped, User
    <2>2. users' = [users EXCEPT ![u] = new] /\ UNCHANGED <<tokens, failed>>
      BY <1>1 DEF DeactivateUser
    <2> HIDE DEF new
    <2>3. QED
      BY <2>1, <2>2, UsersWritten
  <1>2. ASSUME NEW u \in Users, Forget(u) PROVE StoresGrow
    <2>1. failed[u] - 1 \in Nat /\ failed' = [failed EXCEPT ![u] = failed[u] - 1]
      BY <1>2 DEF Forget, Typed, StoresTyped
    <2>2. QED
      BY <1>2, <2>1, FailuresWritten DEF Forget
  <1>3. ASSUME NEW u \in Users, NEW status \in {"ACTIVE", "SUSPENDED"}, SetStatus(u, status)
        PROVE  StoresGrow
    <2> DEFINE new == [users[u] EXCEPT !.status = status]
    <2>1. new \in User
      BY <1>3 DEF SetStatus, Typed, StoresTyped, User
    <2>2. users' = [users EXCEPT ![u] = new] /\ UNCHANGED <<tokens, failed>>
      BY <1>3 DEF SetStatus
    <2> HIDE DEF new
    <2>3. QED
      BY <2>1, <2>2, UsersWritten
  <1>4. ASSUME NEW t \in Tokens, ExpireToken(t) PROVE StoresGrow
    <2> DEFINE new == [tokens[t] EXCEPT !.expired = TRUE]
    <2>1. new \in RefreshToken /\ new.isRevoked = tokens[t].isRevoked
      BY <1>4 DEF ExpireToken, Typed, StoresTyped, RefreshToken
    <2>2. tokens' = [tokens EXCEPT ![t] = new] /\ UNCHANGED <<users, failed>>
      BY <1>4 DEF ExpireToken
    <2> HIDE DEF new
    <2>3. QED
      BY <2>1, <2>2, TokensWritten
  <1>5. StoresGrow
    BY <1>1, <1>2, <1>3, <1>4 DEF Elsewhere
  <1>6. UNCHANGED <<pc, request>> /\ Observe
    BY DEF Elsewhere, DeactivateUser, Forget, SetStatus, ExpireToken
  <1>7. QED
    BY <1>5, <1>6

LEMMA StepsAre ==
  ASSUME Typed, Next
  PROVE  /\ Observe /\ StoresGrow
         /\ \/ UNCHANGED <<pc, request>>
            \/ \E r \in Requests : Arrived(r) \/ Moved(r)
  <1>1. ASSUME NEW r \in Requests, Arrival(r)
        PROVE  Observe /\ StoresGrow /\ Arrived(r)
    BY <1>1, ArrivalsAre, SameStores DEF Arrived
  <1>2. CASE Elsewhere
    BY <1>2, ElsewhereGrows
  <1>3. QED
    BY <1>1, <1>2, HandlersMove DEF Next, Elsewhere

-----------------------------------------------------------------------------
(* Typed is inductive.                                                     *)

LEMMA SeenTyped ==
  ASSUME Typed, Observe
  PROVE  seen' \in [Requests -> SUBSET Facts]
  <1>1. \A r \in Requests : Holding(r)' \subseteq Facts
    <2>1. \A op : Needed(op) \subseteq Facts
      BY DEF Needed, Facts
    <2>2. QED
      BY <2>1 DEF Holding
  <1>2. \A r \in Requests :
          Holding(r)' \cup (IF request'[r] = request[r] THEN seen[r] ELSE {}) \in SUBSET Facts
    BY <1>1 DEF Typed, SlotsTyped
  <1>3. QED
    BY <1>2 DEF Observe

\* Every slot but one stays as it is.
LEMMA OneSlot ==
  ASSUME Typed, NEW r \in Requests, Arrived(r) \/ Moved(r)
  PROVE  /\ pc' \in [Requests -> Steps] /\ request' \in [Requests -> Request \cup {NoRequest}]
         /\ \A x \in Requests \ {r} : pc'[x] = pc[x] /\ request'[x] = request[x]
         /\ \/ pc'[r] = "idle" /\ request'[r] = NoRequest
            \/ /\ pc'[r] \in Steps \ {"idle"} /\ request'[r] \in Request
               /\ Fitting(pc'[r], request'[r])
               /\ \/ Arrived(r)
                  \/ request'[r] = request[r] /\ GoesTo(r, pc'[r])
  <1>1. pc \in [Requests -> Steps] /\ request \in [Requests -> Request \cup {NoRequest}]
    BY DEF Typed, SlotsTyped
  <1>2. CASE Arrived(r)
    BY <1>1, <1>2 DEF Arrived
  <1>3. CASE Moved(r)
    <2>1. CASE Finish(r)
      BY <1>1, <2>1 DEF Finish, Steps
    <2>2. ASSUME NEW step \in Steps, GoesTo(r, step)
          PROVE  /\ pc' = [pc EXCEPT ![r] = step] /\ request' = request
                 /\ step # "idle" /\ Fitting(step, request[r]) /\ request[r] \in Request
      BY <1>3, <2>2, RequestFields DEF GoesTo, Goto, Moved
    <2>3. QED
      BY <1>1, <1>3, <2>1, <2>2 DEF Moved
  <1>4. QED
    BY <1>2, <1>3

LEMMA TypedNext == Typed /\ [Next]_vars => Typed'
  <1> SUFFICES ASSUME Typed, [Next]_vars PROVE Typed'
    OBVIOUS
  <1>1. CASE UNCHANGED vars
    BY <1>1 DEF vars, Typed, StoresTyped, SlotsTyped, SlotTyped
  <1>2. CASE Next
    <2>1. Observe /\ StoresGrow
      BY <1>2, StepsAre
    <2>2. seen' \in [Requests -> SUBSET Facts]
      BY <2>1, SeenTyped
    <2>3. CASE UNCHANGED <<pc, request>>
      <3>1. SlotsTyped'
        BY <2>2, <2>3 DEF Typed, SlotsTyped
      <3>2. \A x \in Requests : SlotTyped(x)'
        BY <2>1, <2>3 DEF Typed, SlotTyped, StoresGrow, Fitting
      <3>3. QED
        BY <2>1, <3>1, <3>2 DEF Typed, StoresGrow
    <2>4. ASSUME NEW r \in Requests, Arrived(r) \/ Moved(r) PROVE Typed'
      <3>1. SlotsTyped'
        BY <2>2, <2>4, OneSlot DEF SlotsTyped
      <3>2. ASSUME NEW x \in Requests \ {r} PROVE SlotTyped(x)'
        <4>1. pc'[x] = pc[x] /\ request'[x] = request[x] /\ SlotTyped(x)
          BY <2>4, OneSlot DEF Typed
        <4>2. pc[x] # "idle" => Fitting(pc[x], request[x])
          BY <4>1 DEF SlotTyped
        <4>3. pc[x] # "idle" /\ request[x].op \in {"refresh", "logout"}
                => tokens'[request[x].token] # NoToken
          BY <2>1, <4>1, <4>2 DEF SlotTyped, StoresGrow, Fitting
        <4>4. QED
          BY <4>1, <4>2, <4>3 DEF SlotTyped
      <3>3. SlotTyped(r)'
        <4>1. CASE pc'[r] = "idle" /\ request'[r] = NoRequest
          BY <4>1 DEF SlotTyped
        <4>2. CASE /\ pc'[r] \in Steps \ {"idle"} /\ request'[r] \in Request
                   /\ Fitting(pc'[r], request'[r])
                   /\ Arrived(r) \/ (request'[r] = request[r] /\ GoesTo(r, pc'[r]))
          <5>1. request'[r] # NoRequest
            BY <4>2, SessionsAssumptions
          <5>2. request'[r].op \in {"refresh", "logout"} => request'[r].token \in Tokens
            BY <4>2 DEF Fitting
          <5>3. request'[r].op \in {"refresh", "logout"} => tokens[request'[r].token] # NoToken
            <6>1. CASE Arrived(r)
              BY <6>1 DEF Arrived, Typed, SlotsTyped
            <6>2. CASE ~Arrived(r)
              BY <2>4, <4>2, <6>2 DEF Moved, Typed, SlotTyped
            <6>3. QED
              BY <6>1, <6>2
          <5>4. request'[r].op \in {"refresh", "logout"} => tokens'[request'[r].token] # NoToken
            BY <2>1, <5>2, <5>3 DEF StoresGrow
          <5>5. QED
            BY <4>2, <5>1, <5>4 DEF SlotTyped
        <4>3. QED
          BY <2>4, <4>1, <4>2, OneSlot
      <3>4. QED
        BY <2>1, <3>1, <3>2, <3>3 DEF Typed, StoresGrow
    <2>5. QED
      BY <1>2, <2>3, <2>4, StepsAre
  <1>3. QED
    BY <1>1, <1>2

LEMMA TypedInit == Init => Typed
  BY DEF Init, Typed, StoresTyped, SlotsTyped, SlotTyped, Steps

LEMMA TypedAlways == Spec => []Typed
  BY TypedInit, TypedNext, PTL DEF Spec

\* Every variable keeps its type, and a slot is free when it is at no step.
THEOREM TypeCorrect == Spec => []TypeOK
  BY TypedAlways, TypedIsTypeOK, PTL

-----------------------------------------------------------------------------
(* Grants: what holds while a request is served has been seen, and with it *)
(* whatever its step rests on.                                             *)

Watching == \A r \in Requests : Holding(r) \subseteq seen[r]

Justified ==
  \A r \in Requests : pc[r] # "idle" => Earned(pc[r], request[r].op) \subseteq seen[r]

LEMMA WatchingNext ==
  ASSUME Typed, Watching, [Next]_vars
  PROVE  Watching'
  <1>1. CASE UNCHANGED vars
    BY <1>1 DEF vars, Watching, Holding, Holds, Usable, HasPassword, Found, Live
  <1>2. CASE Next
    <2>1. Observe
      BY <1>2, StepsAre
    <2>2. QED
      BY <2>1 DEF Observe, Watching
  <1>3. QED
    BY <1>1, <1>2

LEMMA JustifiedNext ==
  ASSUME Typed, Watching, Justified, [Next]_vars
  PROVE  Justified'
  <1>1. CASE UNCHANGED vars
    BY <1>1 DEF vars, Justified, Earned
  <1>2. CASE Next
    <2>1. Observe /\ Watching'
      BY <1>2, StepsAre, WatchingNext
    <2>2. ASSUME NEW x \in Requests, request'[x] = request[x] PROVE seen[x] \subseteq seen'[x]
      BY <2>1, <2>2 DEF Observe
    <2>3. CASE UNCHANGED <<pc, request>>
      BY <2>2, <2>3 DEF Justified, Earned
    <2>4. ASSUME NEW r \in Requests, Arrived(r) \/ Moved(r), NEW x \in Requests,
                 pc'[x] # "idle"
          PROVE  Earned(pc'[x], request'[x].op) \subseteq seen'[x]
      <3>1. CASE x # r
        <4>1. pc'[x] = pc[x] /\ request'[x] = request[x]
          BY <2>4, <3>1, OneSlot
        <4>2. QED
          BY <2>2, <2>4, <4>1 DEF Justified
      <3>2. CASE x = r /\ Arrived(r)
        <4>1. PICK step \in Steps \ {"idle"}, q \in Request :
                /\ pc' = [pc EXCEPT ![r] = step] /\ request' = [request EXCEPT ![r] = q]
                /\ Fitting(step, q)
                /\ step \notin {"create", "find", "fail", "issue", "owner", "update", "granted"}
                /\ q.op = "refresh" => step = "verify"
                /\ q.op = "change" => Usable(q.user)
          BY <3>2 DEF Arrived
        <4>2. pc'[r] = step /\ request'[r] = q /\ q # NoRequest
          BY <4>1, SessionsAssumptions DEF Typed, SlotsTyped
        <4>3. Earned(step, q.op) \subseteq {"usable"}
              /\ (q.op # "change" => Earned(step, q.op) = {})
          BY <4>1 DEF Earned
        <4>4. q.op = "change" => "usable" \in Holding(r)'
          <5>1. Usable(q.user)' <=> Usable(q.user)
            BY <3>2 DEF Arrived, stores, Usable, Found
          <5>2. QED
            BY <4>1, <4>2, <5>1 DEF Holding, Holds, Needed
        <4>5. QED
          BY <2>1, <3>2, <4>2, <4>3, <4>4 DEF Watching
      <3>3. CASE x = r /\ ~Arrived(r)
        <4>1. pc[r] # "idle" /\ request'[r] = request[r] /\ GoesTo(r, pc'[r])
          BY <2>4, <3>3, OneSlot DEF Moved
        <4>2. Earned(pc'[r], request[r].op) \subseteq Earned(pc[r], request[r].op) \cup Holding(r)
          BY <4>1 DEF GoesTo
        <4>3. Earned(pc[r], request[r].op) \cup Holding(r) \subseteq seen[r]
          BY <4>1 DEF Justified, Watching
        <4>4. QED
          BY <2>2, <3>3, <4>1, <4>2, <4>3
      <3>4. QED
        BY <3>1, <3>2, <3>3
    <2>5. QED
      BY <1>2, <2>3, <2>4, StepsAre DEF Justified
  <1>3. QED
    BY <1>1, <1>2

LEMMA JustifiedIsGranted == Typed /\ Justified => GrantsAreJustified
  <1> SUFFICES ASSUME Typed, Justified, NEW r \in Requests, At(r, "granted")
               PROVE  Needed(request[r].op) \subseteq seen[r]
    BY DEF GrantsAreJustified
  <1>1. request[r].op \in {"register", "login", "refresh", "logout", "revokeAll", "change"}
    BY RequestFields DEF At, Request
  <1>2. Needed(request[r].op) \subseteq Earned("granted", request[r].op)
    BY <1>1 DEF Needed, Earned, Facts
  <1>3. QED
    BY <1>2 DEF Justified, At

\* A login is granted only if the account was in use and had the password at one
\* time while it was served, a refresh only if its token could be used and its
\* owner's account was in use, a change only if the current password was right.
THEOREM GrantsRestOnFacts == Spec => []GrantsAreJustified
  <1>1. Init => Watching /\ Justified
    BY DEF Init, Watching, Justified, Holding
  <1>2. (Typed /\ Watching /\ Justified) /\ [Next]_vars => (Watching /\ Justified)'
    BY WatchingNext, JustifiedNext
  <1>3. QED
    BY <1>1, <1>2, TypedAlways, JustifiedIsGranted, PTL DEF Spec

-----------------------------------------------------------------------------
(* Registrations: the unique index lets one request past the creation.     *)

Registered(r) == pc[r] \in {"issue", "granted"} /\ request[r].op = "register"

\* A request past the creation has its account, and no other request has it.
Owned ==
  \A r \in Requests : Registered(r) =>
    /\ users[request[r].user] # NoUser
    /\ \A q \in Requests : Registered(q) /\ request[q].user = request[r].user => q = r

\* A step brings no request past the creation but Create, of a free address.
LEMMA OnlyCreate ==
  ASSUME Typed, Next, NEW r \in Requests, Registered(r)', ~Registered(r)
  PROVE  /\ request'[r] = request[r]
         /\ users[request[r].user] = NoUser /\ users'[request[r].user] # NoUser
         /\ \A q \in Requests \ {r} : pc'[q] = pc[q] /\ request'[q] = request[q]
  <1>1. Arrived(r) => ~Registered(r)'
    BY DEF Arrived, Registered, Typed, SlotsTyped
  <1>2. PICK x \in Requests : Arrival(x) \/ Handler(x)
    BY DEF Next, Registered, DeactivateUser, Forget, SetStatus, ExpireToken
  <1>3. Arrived(x) \/ Moved(x)
    BY <1>2, ArrivalsAre, HandlersMove
  <1>4. x = r
    BY <1>3, OneSlot DEF Registered
  <1>5. Handler(r) /\ Moved(r)
    BY <1>1, <1>2, <1>4, ArrivalsAre, HandlersMove
  <1>6. pc'[r] \in {"issue", "granted"} /\ request'[r] = request[r] /\ request[r].op = "register"
    BY <1>1, <1>5, OneSlot DEF Registered, Moved
  <1>7. pc[r] \in {"lookup", "create"} /\ request[r].user \in Users
    <2>1. pc[r] \in Steps /\ pc[r] # "idle" /\ Fitting(pc[r], request[r])
      BY <1>5, RequestFields DEF Moved
    <2>2. pc[r] \notin {"issue", "granted"}
      BY <1>6 DEF Registered
    <2>3. QED
      BY <1>5, <1>6, <2>1, <2>2, RequestFields DEF Fitting, Steps
  <1>8. Create(r)
    <2>1. LookUp(r) => pc'[r] \in {"create", "idle"}
      BY DEF LookUp, Goto, Finish, Typed, SlotsTyped
    <2>2. Answer(r) \/ Fail(r) => pc'[r] = "idle"
      BY DEF Answer, Fail, Finish, Typed, SlotsTyped
    <2>3. QED
      BY <1>5, <1>6, <1>7, <2>1, <2>2
         DEF Handler, CheckLoginAttempts, FindUser, RecordFailure, Issue, VerifyRefreshToken,
             FindOwner, Revoke, RevokeAllUserTokens, VerifyCurrent, UpdatePassword, At
  <1>9. EmailIsFree(request[r].user)
    BY <1>6, <1>8 DEF Create, Finish, Typed, SlotsTyped
  <1>10. users[request[r].user] = NoUser /\ users'[request[r].user] # NoUser
    <2> DEFINE new == [status |-> "ACTIVE", deleted |-> FALSE, password |-> request[r].password]
    <2>1. new # NoUser
      <3>1. request[r].password \in Passwords
        BY <1>5, <1>6, RequestFields DEF Fitting, Moved
      <3>2. new \in User
        BY <3>1 DEF User
      <3> HIDE DEF new
      <3>3. QED
        BY <3>2, SessionsAssumptions
    <2>2. users' = [users EXCEPT ![request[r].user] = new]
      BY <1>8, <1>9 DEF Create
    <2> HIDE DEF new
    <2>3. QED
      BY <1>7, <1>9, <2>1, <2>2 DEF EmailIsFree, Typed, StoresTyped
  <1>11. QED
    BY <1>5, <1>6, <1>10, OneSlot

LEMMA OwnedNext ==
  ASSUME Typed, Owned, [Next]_vars
  PROVE  Owned'
  <1>1. CASE UNCHANGED vars
    BY <1>1 DEF vars, Owned, Registered
  <1>2. CASE Next
    <2>1. StoresGrow
      BY <1>2, StepsAre
    <2>2. ASSUME NEW r \in Requests, Registered(r)', Registered(r) PROVE request'[r] = request[r]
      <3>1. \A x \in Requests : Arrived(x) => x # r
        BY <2>2 DEF Arrived, Registered
      <3>2. \A x \in Requests : Arrived(x) \/ Moved(x) => request'[r] = request[r]
        BY <2>2, <3>1, OneSlot DEF Registered
      <3>3. QED
        BY <1>2, <3>2, StepsAre
    <2>3. ASSUME NEW r \in Requests, Registered(r)'
          PROVE  /\ request'[r] = request[r] /\ request[r].user \in Users
                 /\ users'[request[r].user] # NoUser
      <3>1. CASE Registered(r)
        <4>1. request'[r] = request[r] /\ request[r].user \in Users
          BY <2>2, <2>3, <3>1, RequestFields DEF Registered
        <4>2. QED
          BY <2>1, <3>1, <4>1 DEF Owned, StoresGrow
      <3>2. CASE ~Registered(r)
        <4>1. /\ request'[r] = request[r] /\ users'[request[r].user] # NoUser
              /\ pc'[r] # "idle"
          BY <1>2, <2>3, <3>2, OnlyCreate DEF Registered
        <4>2. request[r].user \in Users
          <5>1. Typed'
            BY TypedNext
          <5>2. request'[r] \in Request
            BY <4>1, <5>1 DEF Typed, SlotsTyped, SlotTyped
          <5>3. QED
            BY <4>1, <5>2 DEF Request
        <4>3. QED
          BY <4>1, <4>2
      <3>3. QED
        BY <3>1, <3>2
    <2>4. ASSUME NEW r \in Requests, NEW q \in Requests, Registered(r)', Registered(q)',
                 request'[q].user = request'[r].user, ~Registered(r)
          PROVE  q = r
      <3>1. /\ users[request[r].user] = NoUser
            /\ \A x \in Requests \ {r} : pc'[x] = pc[x] /\ request'[x] = request[x]
        BY <1>2, <2>4, OnlyCreate
      <3>2. q # r => Registered(q)
        BY <2>4, <3>1 DEF Registered
      <3>3. request[q].user = request[r].user
        BY <2>3, <2>4
      <3>4. QED
        BY <3>1, <3>2, <3>3 DEF Owned
    <2>5. ASSUME NEW r \in Requests, NEW q \in Requests, Registered(r)', Registered(q)',
                 request'[q].user = request'[r].user
          PROVE  q = r
      <3>1. request[q].user = request[r].user
        BY <2>3, <2>5
      <3>2. QED
        BY <2>4, <2>5, <3>1 DEF Owned
    <2>6. QED
      BY <2>3, <2>5 DEF Owned
  <1>3. QED
    BY <1>1, <1>2

\* However registrations of one address overlap, one at most creates the account.
THEOREM OneAccount == Spec => []OneRegistration
  <1>1. Init => Owned
    BY DEF Init, Owned, Registered
  <1>2. Owned => OneRegistration
    BY DEF Owned, Registered, OneRegistration, At
  <1>3. QED
    BY <1>1, <1>2, OwnedNext, TypedAlways, PTL DEF Spec

-----------------------------------------------------------------------------
(* Refresh and logout: what has been revoked stays revoked.                *)

Spent ==
  \A r \in Requests :
    pc[r] = "granted" /\ request[r].op \in {"refresh", "logout"}
      => tokens[request[r].token].isRevoked

\* A step that grants a refresh or a logout revokes the token.
LEMMA GrantRevokes ==
  ASSUME Typed, Next, NEW r \in Requests, pc'[r] = "granted", pc[r] # "granted",
         request'[r].op \in {"refresh", "logout"}
  PROVE  request'[r] = request[r] /\ tokens'[request[r].token].isRevoked
  <1>1. PICK x \in Requests : Arrival(x) \/ Handler(x)
    BY DEF Next, DeactivateUser, Forget, SetStatus, ExpireToken
  <1>2. Arrived(x) \/ Moved(x)
    BY <1>1, ArrivalsAre, HandlersMove
  <1>3. x = r
    BY <1>2, OneSlot
  <1>4. ~Arrived(r)
    BY DEF Arrived, Typed, SlotsTyped
  <1>5. Handler(r) /\ Moved(r)
    BY <1>1, <1>3, <1>4, ArrivalsAre, HandlersMove
  <1>6. request'[r] = request[r] /\ request[r].op \in {"refresh", "logout"}
    BY <1>4, <1>5, OneSlot
  <1>7. pc[r] \in {"verify", "owner", "revoke"} /\ request[r].token \in Tokens
        /\ tokens[request[r].token] \in RefreshToken
    <2>1. pc[r] \in Steps \ {"idle"} /\ Fitting(pc[r], request[r])
      BY <1>5, RequestFields DEF Moved
    <2>2. tokens[request[r].token] # NoToken
      BY <1>6, <2>1 DEF Typed, SlotTyped
    <2>3. QED
      BY <1>6, <2>1, <2>2 DEF Fitting, Steps, Typed, StoresTyped
  <1>8. Revoke(r)
    <2>1. VerifyRefreshToken(r) \/ FindOwner(r) => pc'[r] \in {"owner", "revoke", "idle"}
      BY DEF VerifyRefreshToken, FindOwner, Goto, Finish, Typed, SlotsTyped
    <2>2. Answer(r) \/ Fail(r) => pc'[r] = "idle"
      BY DEF Answer, Fail, Finish, Typed, SlotsTyped
    <2>3. QED
      BY <1>5, <1>7, <2>1, <2>2
         DEF Handler, LookUp, Create, CheckLoginAttempts, FindUser, RecordFailure, Issue,
             RevokeAllUserTokens, VerifyCurrent, UpdatePassword, At
  <1>9. QED
    BY <1>6, <1>7, <1>8 DEF Revoke, RefreshToken, Typed, StoresTyped

LEMMA SpentNext ==
  ASSUME Typed, Spent, [Next]_vars
  PROVE  Spent'
  <1>1. CASE UNCHANGED vars
    BY <1>1 DEF vars, Spent
  <1>2. CASE Next
    <2> SUFFICES ASSUME NEW r \in Requests, pc'[r] = "granted",
                        request'[r].op \in {"refresh", "logout"}
                 PROVE  tokens'[request'[r].token].isRevoked
      BY DEF Spent
    <2>1. CASE pc[r] # "granted"
      BY <1>2, <2>1, GrantRevokes
    <2>2. CASE pc[r] = "granted"
      <3>1. request'[r] = request[r]
        <4>1. ~Arrived(r)
          BY <2>2 DEF Arrived
        <4>2. \A x \in Requests : Arrived(x) \/ Moved(x) => request'[r] = request[r]
          BY <4>1, OneSlot
        <4>3. QED
          BY <1>2, <4>2, StepsAre
      <3>2. request[r].token \in Tokens /\ tokens[request[r].token] # NoToken
        BY <2>2, <3>1, RequestFields DEF Fitting, Typed, SlotTyped
      <3>3. tokens[request[r].token].isRevoked
        BY <2>2, <3>1 DEF Spent
      <3>4. QED
        BY <1>2, <3>1, <3>2, <3>3, StepsAre DEF StoresGrow
    <2>3. QED
      BY <2>1, <2>2
  <1>3. QED
    BY <1>1, <1>2

\* Once a refresh or a logout is granted its token is never accepted again.
THEOREM TokensAreSpent == Spec => []GrantedTokensAreSpent
  <1>1. Init => Spent
    BY DEF Init, Spent
  <1>2. Spent => GrantedTokensAreSpent
    BY DEF Spent, GrantedTokensAreSpent, Granted, At, Live
  <1>3. QED
    BY <1>1, <1>2, SpentNext, TypedAlways, PTL DEF Spec

-----------------------------------------------------------------------------
(* Failed attempts: each login past the check may record one more.         *)

Trying(u) == {r \in Requests : pc[r] \in {"find", "fail"} /\ request[r].user = u}

Bounded == \A u \in Users : failed[u] + Cardinality(Trying(u)) <= Limit - 1 + Cardinality(Requests)

LEMMA TryingIsFinite ==
  \A u \in Users : /\ IsFiniteSet(Trying(u)) /\ Cardinality(Trying(u)) \in Nat
                   /\ Cardinality(Trying(u)) <= Cardinality(Requests)
                   /\ Cardinality(Requests) \in Nat
  <1>1. \A u \in Users : Trying(u) \subseteq Requests
    BY DEF Trying
  <1>2. QED
    BY <1>1, SessionsAssumptions, FS_Subset, FS_CardinalityType

LEMMA TryingIsFiniteNext ==
  \A u \in Users : IsFiniteSet(Trying(u)') /\ Cardinality(Trying(u)') \in Nat
  <1>1. \A u \in Users : Trying(u)' \subseteq Requests
    BY DEF Trying
  <1>2. QED
    BY <1>1, SessionsAssumptions, FS_Subset, FS_CardinalityType

\* For one address a step lets a login past the check, below the limit; or records a
\* failure of one that was past it; or adds nothing.
LEMMA Attempts ==
  ASSUME Typed, Next, NEW u \in Users
  PROVE  \/ failed[u] < Limit /\ failed'[u] = failed[u]
         \/ \E r \in Trying(u) : Trying(u)' = Trying(u) \ {r} /\ failed'[u] = failed[u] + 1
         \/ Trying(u)' \subseteq Trying(u) /\ failed'[u] \in Nat /\ failed'[u] <= failed[u]
  <1>1. failed \in [Users -> Nat]
    BY DEF Typed, StoresTyped
  <1>2. ASSUME NEW x \in Requests, Arrived(x) \/ Moved(x),
               pc'[x] \in {"find", "fail"} => x \in Trying(request'[x].user),
               failed' = failed
        PROVE  Trying(u)' \subseteq Trying(u) /\ failed'[u] = failed[u]
    BY <1>2, OneSlot DEF Trying
  <1>3. ASSUME NEW x \in Requests, Arrival(x)
        PROVE  Trying(u)' \subseteq Trying(u) /\ failed'[u] = failed[u]
    <2>1. Arrived(x)
      BY <1>3, ArrivalsAre
    <2>2. failed' = failed /\ pc'[x] \notin {"find", "fail"}
      BY <2>1 DEF Arrived, stores, Typed, SlotsTyped
    <2>3. QED
      BY <1>2, <2>1, <2>2
  <1>4. ASSUME NEW x \in Requests, CheckLoginAttempts(x)
        PROVE  \/ failed[u] < Limit /\ failed'[u] = failed[u]
               \/ Trying(u)' \subseteq Trying(u) /\ failed'[u] = failed[u]
    <2>1. Moved(x) /\ failed' = failed
      BY <1>4, LoggingIn DEF CheckLoginAttempts, stores
    <2>2. CASE MayTry(request[x].user)
      <3>1. request'[x] = request[x] /\ pc'[x] = "find"
        BY <1>4, <2>2 DEF CheckLoginAttempts, Goto, Typed, SlotsTyped
      <3>2. CASE request[x].user = u
        BY <2>1, <2>2, <3>2 DEF MayTry
      <3>3. CASE request[x].user # u
        BY <2>1, <3>1, <3>3, OneSlot DEF Trying
      <3>4. QED
        BY <3>2, <3>3
    <2>3. CASE ~MayTry(request[x].user)
      <3>1. pc'[x] = "idle"
        BY <1>4, <2>3 DEF CheckLoginAttempts, Finish, Typed, SlotsTyped
      <3>2. QED
        BY <1>2, <2>1, <3>1
    <2>4. QED
      BY <2>2, <2>3
  <1>5. ASSUME NEW x \in Requests, FindUser(x)
        PROVE  Trying(u)' \subseteq Trying(u) /\ failed'[u] = failed[u]
    <2>1. Moved(x) /\ failed' = failed
      BY <1>5, LoggingIn DEF FindUser, stores
    <2>2. pc[x] = "find" /\ (pc'[x] # "idle" => request'[x] = request[x])
      BY <1>5 DEF FindUser, Goto, Finish, At, Typed, SlotsTyped
    <2>3. QED
      BY <1>2, <2>1, <2>2 DEF Trying
  <1>6. ASSUME NEW x \in Requests, RecordFailure(x)
        PROVE  \/ \E r \in Trying(u) : Trying(u)' = Trying(u) \ {r} /\ failed'[u] = failed[u] + 1
               \/ Trying(u)' \subseteq Trying(u) /\ failed'[u] = failed[u]
    <2>1. Moved(x) /\ pc[x] = "fail" /\ pc'[x] = "idle"
      BY <1>6, LoggingIn DEF RecordFailure, Finish, At, Typed, SlotsTyped
    <2>2. failed' = [failed EXCEPT ![request[x].user] = failed[request[x].user] + 1]
      BY <1>6 DEF RecordFailure
    <2>3. \A y \in Requests \ {x} : pc'[y] = pc[y] /\ request'[y] = request[y]
      BY <2>1, OneSlot
    <2>4. CASE request[x].user = u
      <3>1. x \in Trying(u) /\ Trying(u)' = Trying(u) \ {x}
        BY <2>1, <2>3, <2>4 DEF Trying
      <3>2. QED
        BY <1>1, <2>2, <2>4, <3>1
    <2>5. CASE request[x].user # u
      <3>1. Trying(u)' \subseteq Trying(u)
        BY <2>1, <2>3 DEF Trying
      <3>2. QED
        BY <1>1, <2>2, <2>5, <3>1
    <2>6. QED
      BY <2>4, <2>5
  <1>7. ASSUME NEW x \in Requests, Handler(x),
               ~CheckLoginAttempts(x), ~FindUser(x), ~RecordFailure(x)
        PROVE  Trying(u)' \subseteq Trying(u) /\ failed'[u] = failed[u]
    <2>1. Moved(x)
      BY <1>7, HandlersMove
    <2>2. failed' = failed
      BY <1>7 DEF Handler, LookUp, Create, Issue, VerifyRefreshToken, FindOwner, Revoke,
                  RevokeAllUserTokens, VerifyCurrent, UpdatePassword, Answer, Fail, stores
    <2>3. pc'[x] \notin {"find", "fail"}
      BY <1>7 DEF Handler, LookUp, Create, Issue, VerifyRefreshToken, FindOwner, Revoke,
                  RevokeAllUserTokens, VerifyCurrent, UpdatePassword, Answer, Fail,
                  Goto, Finish, Typed, SlotsTyped
    <2>4. QED
      BY <1>2, <2>1, <2>2, <2>3
  <1>8. CASE Elsewhere
    <2>1. Trying(u)' = Trying(u)
      BY <1>8, ElsewhereGrows DEF Trying
    <2>2. failed'[u] \in Nat /\ failed'[u] <= failed[u]
      BY <1>1, <1>8 DEF Elsewhere, DeactivateUser, Forget, SetStatus, ExpireToken
    <2>3. QED
      BY <2>1, <2>2
  <1>9. failed[u] \in Nat
    BY <1>1
  <1>10. QED
    BY <1>3, <1>4, <1>5, <1>6, <1>7, <1>8, <1>9 DEF Next, Elsewhere

LEMMA BoundedNext ==
  ASSUME Typed, Bounded, [Next]_vars
  PROVE  Bounded'
  <1>1. CASE UNCHANGED vars
    BY <1>1 DEF vars, Bounded, Trying
  <1>2. CASE Next
    <2> SUFFICES ASSUME NEW u \in Users
                 PROVE  failed'[u] + Cardinality(Trying(u)') <= Limit - 1 + Cardinality(Requests)
      BY DEF Bounded
    <2> DEFINE before == Cardinality(Trying(u))
               after == Cardinality(Trying(u)')
               slots == Cardinality(Requests)
    <2>1. /\ before \in Nat /\ after \in Nat /\ slots \in Nat /\ failed[u] \in Nat /\ Limit \in Nat
          /\ failed[u] + before <= Limit - 1 + slots
      BY TryingIsFinite, TryingIsFiniteNext, SessionsAssumptions
         DEF Bounded, Typed, StoresTyped
    <2>2. after <= slots
      <3>1. Trying(u)' \subseteq Requests
        BY DEF Trying
      <3>2. QED
        BY <3>1, SessionsAssumptions, FS_Subset
    <2>3. CASE failed[u] < Limit /\ failed'[u] = failed[u]
      <3> HIDE DEF before, after, slots
      <3>1. failed'[u] + after <= Limit - 1 + slots
        BY <2>1, <2>2, <2>3
      <3>2. QED
        BY <3>1 DEF after, slots
    <2>4. ASSUME NEW r \in Trying(u), Trying(u)' = Trying(u) \ {r}, failed'[u] = failed[u] + 1
          PROVE  failed'[u] + after <= Limit - 1 + slots
      <3>1. after = before - 1
        BY <2>4, TryingIsFinite, FS_RemoveElement
      <3> HIDE DEF before, after, slots
      <3>2. QED
        BY <2>1, <2>4, <3>1
    <2>5. CASE Trying(u)' \subseteq Trying(u) /\ failed'[u] \in Nat /\ failed'[u] <= failed[u]
      <3>1. after <= before
        BY <2>5, TryingIsFinite, FS_Subset
      <3> HIDE DEF before, after, slots
      <3>2. failed'[u] + after <= Limit - 1 + slots
        BY <2>1, <2>5, <3>1
      <3>3. QED
        BY <3>2 DEF after, slots
    <2>6. QED
      BY <1>2, <2>3, <2>4, <2>5, Attempts
  <1>3. QED
    BY <1>1, <1>2

LEMMA BoundedLimits == Typed /\ Bounded => AttemptsLimited
  <1> SUFFICES ASSUME Typed, Bounded, NEW u \in Users
               PROVE  failed[u] <= Limit - 1 + Cardinality(Requests)
    BY DEF AttemptsLimited
  <1> DEFINE trying == Cardinality(Trying(u))
             slots == Cardinality(Requests)
  <1>1. /\ trying \in Nat /\ slots \in Nat /\ failed[u] \in Nat /\ Limit \in Nat
        /\ failed[u] + trying <= Limit - 1 + slots
    BY TryingIsFinite, SessionsAssumptions DEF Bounded, Typed, StoresTyped
  <1> HIDE DEF trying, slots
  <1>2. failed[u] <= Limit - 1 + slots
    BY <1>1
  <1>3. QED
    BY <1>2 DEF slots

LEMMA BoundedInit == Init => Bounded
  <1> SUFFICES ASSUME Init, NEW u \in Users
               PROVE  failed[u] + Cardinality(Trying(u)) <= Limit - 1 + Cardinality(Requests)
    BY DEF Bounded
  <1>1. Trying(u) = {} /\ failed[u] = 0
    BY DEF Init, Trying
  <1>2. Cardinality(Trying(u)) = 0
    BY <1>1, FS_EmptySet
  <1>3. Cardinality(Requests) \in Nat
    BY SessionsAssumptions, FS_CardinalityType
  <1>4. QED
    BY <1>1, <1>2, <1>3, SessionsAssumptions

\* Logins that overlap exceed the limit on failed attempts by fewer than there are
\* requests served at the same time.
THEOREM FailuresAreFew == Spec => []AttemptsLimited
  BY BoundedInit, BoundedNext, BoundedLimits, TypedAlways, PTL DEF Spec

\* How lockouts end.  LockoutEnds is a liveness property and stays with TLC; what it
\* rests on is proved here for every instance: while an address is locked out, the
\* logins that were let past the check before only get fewer, and only they still
\* record failures, each once.  So trying again never prolongs a lockout.
LockoutsRunOut ==
  [][\A u \in Users : ~MayTry(u) =>
       /\ Trying(u)' \subseteq Trying(u)
       /\ failed'[u] > failed[u] =>
            failed'[u] = failed[u] + 1 /\ Trying(u)' # Trying(u)]_vars

THEOREM LockoutsAreNotProlonged == Spec => LockoutsRunOut
  <1>1. ASSUME Typed, [Next]_vars
        PROVE  [\A u \in Users : ~MayTry(u) =>
                  /\ Trying(u)' \subseteq Trying(u)
                  /\ failed'[u] > failed[u] =>
                       failed'[u] = failed[u] + 1 /\ Trying(u)' # Trying(u)]_vars
    <2> SUFFICES ASSUME Next, NEW u \in Users, ~MayTry(u)
                 PROVE  /\ Trying(u)' \subseteq Trying(u)
                        /\ failed'[u] > failed[u] =>
                             failed'[u] = failed[u] + 1 /\ Trying(u)' # Trying(u)
      BY <1>1
    <2>1. failed[u] \in Nat /\ ~(failed[u] < Limit)
      BY <1>1 DEF Typed, StoresTyped, MayTry
    <2>2. \/ \E r \in Trying(u) : Trying(u)' = Trying(u) \ {r} /\ failed'[u] = failed[u] + 1
          \/ Trying(u)' \subseteq Trying(u) /\ failed'[u] \in Nat /\ failed'[u] <= failed[u]
      BY <1>1, <2>1, Attempts
    <2>3. QED
      BY <2>1, <2>2
  <1>2. QED
    BY <1>1, TypedAlways, PTL DEF Spec, LockoutsRunOut
=============================================================================
