---------------------------- MODULE CommonProofs ----------------------------
(***************************************************************************)
(* Theorems about the two components of common/ that stand between a       *)
(* request and what it calls: CircuitBreaker, for all thresholds and any   *)
(* set of calls, and Idempotency, for any keys, bodies and number of       *)
(* requests served at the same time.  They share nothing but this module.  *)
(***************************************************************************)
EXTENDS CircuitBreaker, Idempotency, TLAPS

-----------------------------------------------------------------------------
(* The circuit breaker.                                                    *)

\* The type invariant and OpenCanRecover are inductive together.
CircuitInv == CircuitTypeOK /\ OpenCanRecover

LEMMA OneMoreBounded ==
  ASSUME NEW bound \in Nat, NEW n \in 0..bound
  PROVE  OneMore(n, bound) \in 0..bound
  BY DEF OneMore

LEMMA CircuitInvInit == CircuitInit => CircuitInv
  BY CircuitAssumptions DEF CircuitInit, CircuitInv, CircuitTypeOK, OpenCanRecover

LEMMA CircuitInvNext ==
  ASSUME CircuitInv, [CircuitNext]_circuitVars
  PROVE  CircuitInv'
  <1> USE CircuitAssumptions, OneMoreBounded DEF CircuitInv, CircuitTypeOK, OpenCanRecover
  <1>1. ASSUME NEW c \in Calls, Execute(c) PROVE CircuitInv'
    BY <1>1 DEF Execute, ShouldAttemptReset
  <1>2. ASSUME NEW c \in Calls, Succeed(c) PROVE CircuitInv'
    BY <1>2 DEF Succeed, RecordSuccess
  <1>3. ASSUME NEW c \in Calls, Fail(c) PROVE CircuitInv'
    BY <1>3 DEF Fail, RecordFailure
  <1>4. CASE Reset
    BY <1>4 DEF Reset
  <1>5. CASE Elapse
    BY <1>5 DEF Elapse
  <1>6. CASE Turn
    BY <1>6 DEF Turn
  <1>7. CASE UNCHANGED circuitVars
    BY <1>7 DEF circuitVars
  <1>8. QED
    BY <1>1, <1>2, <1>3, <1>4, <1>5, <1>6, <1>7 DEF CircuitNext

LEMMA CircuitInvAlways == CircuitSpec => []CircuitInv
  BY CircuitInvInit, CircuitInvNext, PTL DEF CircuitSpec

\* The counters never pass their thresholds, which is why the code may compare them
\* with >=, and the state and openedAt keep to their values.
THEOREM CircuitTyped == CircuitSpec => []CircuitTypeOK
  BY CircuitInvAlways, PTL DEF CircuitInv

\* An open circuit always knows when it opened and a circuit on trial has
\* waited its timeout out, so none is stuck rejecting calls.
THEOREM OpenCircuitsCanRecover == CircuitSpec => []OpenCanRecover
  BY CircuitInvAlways, PTL DEF CircuitInv

\* From each opening a circuit stays open for a whole timeout unless it is
\* reset, whatever results arrive late.
THEOREM CircuitsStayOpen == CircuitSpec => OpenForOneTimeout
  <1>1. ASSUME CircuitInv, [CircuitNext]_circuitVars
        PROVE  [/\ state # "OPEN" /\ state' = "OPEN" => openedAt' = "recent"
                /\ state = "OPEN" =>
                     \/ state' = "OPEN" /\ (openedAt' = openedAt \/ Elapse)
                     \/ state' = "HALF_OPEN" /\ openedAt = "past" /\ running' # running
                     \/ Reset]_circuitVars
    <2>1. ASSUME NEW c \in Calls, Execute(c)
          PROVE  /\ state' = "OPEN" => state = "OPEN"
                 /\ state = "OPEN" => /\ state' = "HALF_OPEN" /\ openedAt = "past"
                                      /\ running' # running
      BY <1>1, <2>1 DEF Execute, ShouldAttemptReset
    <2>2. ASSUME NEW c \in Calls, Succeed(c)
          PROVE  /\ state' = "OPEN" <=> state = "OPEN"
                 /\ state = "OPEN" => openedAt' = openedAt
      BY <1>1, <2>2 DEF Succeed, RecordSuccess
    <2>3. ASSUME NEW c \in Calls, Fail(c)
          PROVE  /\ state # "OPEN" /\ state' = "OPEN" => openedAt' = "recent"
                 /\ state = "OPEN" => state' = "OPEN" /\ openedAt' = openedAt
      BY <1>1, <2>3 DEF Fail, RecordFailure
    <2>4. CASE Reset
      BY <2>4 DEF Reset
    <2>5. CASE Elapse \/ Turn \/ UNCHANGED circuitVars
      BY <2>5 DEF Elapse, Turn, circuitVars
    <2>6. QED
      BY <1>1, <2>1, <2>2, <2>3, <2>4, <2>5 DEF CircuitNext
  <1>2. QED
    BY <1>1, CircuitInvAlways, PTL DEF CircuitSpec, OpenForOneTimeout

-----------------------------------------------------------------------------
(* The idempotency interceptor.  The three safety properties hold          *)
(* together: a replayed response matches the retry's body because a record *)
(* that is cached holds the response of its own body (RecordsTruthful),    *)
(* which the owner wrote into the record it had inserted                   *)
(* (OwnerKeepsItsRecord); and a key that is cached stays so while a retry  *)
(* is under way, because nobody owns it (StaysCached).                     *)

\* A cached record holds the response to the body whose hash it holds.
RecordsTruthful ==
  \A k \in Keys : Cached(k) => records[k].response = records[k].requestHash

\* A request that came when its key was cached finds it so.
StaysCached ==
  \A r \in Requests :
    settled[r] => Cached(request[r].key) /\ pc[r] \in {"find", "bare"}

IdempotencyInv ==
  /\ TypeOK
  /\ OwnerKeepsItsRecord
  /\ RecordsTruthful
  /\ StaysCached
  /\ ReplaysAreFaithful

LEMMA IdempotencyInvInit == Init => IdempotencyInv
  <1> SUFFICES ASSUME Init PROVE IdempotencyInv
    OBVIOUS
  <1>1. TypeOK
    BY DEF Init, TypeOK, Steps
  <1>2. OwnerKeepsItsRecord /\ RecordsTruthful /\ StaysCached /\ ReplaysAreFaithful
    BY DEF Init, OwnerKeepsItsRecord, RecordsTruthful, StaysCached,
       ReplaysAreFaithful, Owns, Cached
  <1>3. QED
    BY <1>1, <1>2 DEF IdempotencyInv

LEMMA NewRecordIsRecord ==
  ASSUME TypeOK, NEW r \in Requests, pc[r] # "idle"
  PROVE  NewRecord(r) \in Record /\ NewRecord(r) # NoRecord
  <1>1. request[r].body \in Bodies
    BY DEF TypeOK, Request
  <1>2. NewRecord(r) \in Record
    BY <1>1 DEF NewRecord, Record
  <1>3. QED
    BY <1>2, IdempotencyAssumptions

\* What a step of request r leaves alone of the other requests.
OthersKept(r) ==
  \A q \in Requests \ {r} :
    pc'[q] = pc[q] /\ request'[q] = request[q] /\ settled'[q] = settled[q]

SlotsTyped ==
  /\ pc \in [Requests -> Steps]
  /\ request \in [Requests -> Request \cup {NoRequest}]
  /\ \A q \in Requests : pc[q] # "idle" => request[q] \in Request
  /\ settled \in [Requests -> BOOLEAN]

\* The two ways in which a request moves on keep the types of the slots.
LEMMA AfterGoto ==
  ASSUME TypeOK, NEW r \in Requests, NEW step \in Steps, pc[r] # "idle", Goto(r, step)
  PROVE  /\ SlotsTyped' /\ OthersKept(r)
         /\ pc'[r] = step /\ request' = request /\ settled' = settled
  BY DEF TypeOK, Goto, SlotsTyped, OthersKept

LEMMA AfterFinish ==
  ASSUME TypeOK, NEW r \in Requests, Finish(r)
  PROVE  SlotsTyped' /\ OthersKept(r) /\ pc'[r] = "idle" /\ ~settled'[r]
  <1>1. "idle" \in Steps
    BY DEF Steps
  <1>2. QED
    BY <1>1 DEF TypeOK, Finish, SlotsTyped, OthersKept

LEMMA FindRecordInv ==
  ASSUME IdempotencyInv, NEW r \in Requests, FindRecord(r)
  PROVE  IdempotencyInv'
  <1> DEFINE key == request[r].key
  <1> USE DEF IdempotencyInv
  <1>1. /\ key \in Keys /\ request[r].body \in Bodies /\ pc[r] = "find"
        /\ UNCHANGED records
    BY DEF FindRecord, TypeOK, Request
  <1>2. \/ Goto(r, "create") /\ UNCHANGED replayed /\ records[key] = NoRecord
        \/ Finish(r) /\ UNCHANGED replayed
        \/ /\ Cached(key) /\ records[key].requestHash = request[r].body /\ Finish(r)
           /\ replayed' = replayed \cup {<<request[r].body, records[key].response>>}
    BY DEF FindRecord, Cached
  <1>3. /\ SlotsTyped' /\ OthersKept(r) /\ ~settled'[r]
        /\ \/ pc'[r] = "create" /\ request' = request
           \/ pc'[r] = "idle"
    <2>1. CASE Goto(r, "create") /\ records[key] = NoRecord
      <3>1. ~settled[r]
        BY <2>1 DEF StaysCached, Cached
      <3>2. "create" \in Steps
        BY DEF Steps
      <3>3. QED
        BY <1>1, <2>1, <3>1, <3>2, AfterGoto
    <2>2. CASE Finish(r)
      BY <2>2, AfterFinish
    <2>3. QED
      BY <1>2, <2>1, <2>2
  <1>4. /\ replayed' \subseteq Bodies \X (Bodies \cup {NoResponse})
        /\ ReplaysAreFaithful'
    BY <1>1, <1>2 DEF TypeOK, ReplaysAreFaithful, RecordsTruthful, Cached
  <1>5. TypeOK'
    BY <1>1, <1>3, <1>4 DEF TypeOK, SlotsTyped
  <1>6. OwnerKeepsItsRecord' /\ RecordsTruthful' /\ StaysCached'
    BY <1>1, <1>3 DEF OthersKept, OwnerKeepsItsRecord, RecordsTruthful,
       StaysCached, Owns, Cached, NewRecord
  <1>7. QED
    BY <1>4, <1>5, <1>6

\* A request that moves on without touching a record.
LEMMA GotoInv ==
  ASSUME IdempotencyInv, NEW r \in Requests, NEW step \in Steps,
         pc[r] # "idle", Goto(r, step), Owns(r) \/ step = "bare",
         step \in {"cache", "remove", "bare"},
         UNCHANGED <<records, replayed>>
  PROVE  IdempotencyInv'
  <1> USE DEF IdempotencyInv
  <1>1. /\ SlotsTyped' /\ OthersKept(r)
        /\ pc'[r] = step /\ request' = request /\ settled' = settled
    BY AfterGoto
  <1>2. TypeOK' /\ ReplaysAreFaithful'
    BY <1>1 DEF TypeOK, SlotsTyped, ReplaysAreFaithful
  <1>3. settled[r] => step = "bare"
    BY DEF StaysCached, Owns
  <1>4. OwnerKeepsItsRecord' /\ RecordsTruthful' /\ StaysCached'
    BY <1>1, <1>3 DEF OthersKept, OwnerKeepsItsRecord, RecordsTruthful,
       StaysCached, Owns, Cached, NewRecord
  <1>5. QED
    BY <1>2, <1>4

\* A request that ends without touching a record.
LEMMA FinishInv ==
  ASSUME IdempotencyInv, NEW r \in Requests, Finish(r),
         UNCHANGED <<records, replayed>>
  PROVE  IdempotencyInv'
  <1> USE DEF IdempotencyInv
  <1>1. SlotsTyped' /\ OthersKept(r) /\ pc'[r] = "idle" /\ ~settled'[r]
    BY AfterFinish
  <1>2. TypeOK' /\ ReplaysAreFaithful'
    BY <1>1 DEF TypeOK, SlotsTyped, ReplaysAreFaithful
  <1>3. OwnerKeepsItsRecord' /\ RecordsTruthful' /\ StaysCached'
    BY <1>1 DEF OthersKept, OwnerKeepsItsRecord, RecordsTruthful,
       StaysCached, Owns, Cached, NewRecord
  <1>4. QED
    BY <1>2, <1>3

\* An insert that takes effect, whether its reply arrives or not.
LEMMA InsertInv ==
  ASSUME IdempotencyInv, NEW r \in Requests, NEW step \in {"handle", "bare"},
         pc[r] = "create", records[request[r].key] = NoRecord,
         records' = [records EXCEPT ![request[r].key] = NewRecord(r)],
         Goto(r, step), UNCHANGED replayed
  PROVE  IdempotencyInv'
  <1> DEFINE key == request[r].key
  <1> USE DEF IdempotencyInv
  <1>1. step \in Steps
    BY DEF Steps
  <1>2. /\ SlotsTyped' /\ OthersKept(r)
        /\ pc'[r] = step /\ request' = request /\ settled' = settled
    BY <1>1, AfterGoto
  <1>3. key \in Keys
    BY DEF TypeOK, Request
  <1>4. NewRecord(r) \in Record /\ NewRecord(r) # NoRecord
    BY NewRecordIsRecord
  <1>5. /\ records' \in [Keys -> Record \cup {NoRecord}]
        /\ records'[key] = NewRecord(r)
        /\ \A k \in Keys \ {key} : records'[k] = records[k]
    BY <1>3, <1>4 DEF TypeOK
  <1>6. TypeOK' /\ ReplaysAreFaithful'
    BY <1>2, <1>5 DEF TypeOK, SlotsTyped, ReplaysAreFaithful
  <1>7. NewRecord(r).isProcessing
    BY DEF NewRecord
  <1>8. \A q \in Requests : settled[q] => request[q].key # key
    BY DEF StaysCached, Cached
  <1>9. \A q \in Requests \ {r} :
          Owns(q) => request[q].key # key /\ request[q].key \in Keys
    <2> SUFFICES ASSUME NEW q \in Requests \ {r}, Owns(q)
                 PROVE  request[q].key # key /\ request[q].key \in Keys
      OBVIOUS
    <2>1. NewRecord(q) # NoRecord
      BY NewRecordIsRecord DEF Owns
    <2>2. request[q] \in Request
      BY DEF TypeOK, Owns
    <2>3. QED
      BY <2>1, <2>2 DEF OwnerKeepsItsRecord, Request
  <1>10. OwnerKeepsItsRecord'
    <2>1. \A q \in Requests : NewRecord(q)' = NewRecord(q)
      BY <1>2 DEF NewRecord
    <2>2. \A q \in Requests \ {r} : Owns(q)' <=> Owns(q)
      BY <1>2 DEF OthersKept, Owns
    <2>3. \A q \in Requests : Owns(q)' => records'[request[q].key] = NewRecord(q)
      BY <1>5, <1>9, <2>2 DEF OwnerKeepsItsRecord
    <2>4. \A q, p \in Requests :
            p # q /\ Owns(q)' /\ Owns(p)' => request[p].key # request[q].key
      BY <1>9, <2>2 DEF OwnerKeepsItsRecord
    <2>5. QED
      BY <1>2, <2>1, <2>3, <2>4 DEF OwnerKeepsItsRecord
  <1>11. RecordsTruthful'
    BY <1>5, <1>7 DEF RecordsTruthful, Cached
  <1>12. StaysCached'
    <2> SUFFICES ASSUME NEW q \in Requests, settled[q]
                 PROVE  Cached(request[q].key)' /\ pc'[q] \in {"find", "bare"}
      BY <1>2 DEF StaysCached
    <2>1. q # r /\ pc[q] # "idle"
      BY DEF StaysCached
    <2>2. request[q] \in Request
      BY <2>1 DEF TypeOK
    <2>3. request[q].key \in Keys
      BY <2>2 DEF Request
    <2>4. records'[request[q].key] = records[request[q].key]
      BY <1>5, <1>8, <2>3
    <2>5. QED
      BY <1>2, <2>1, <2>4 DEF StaysCached, Cached, OthersKept
  <1>13. QED
    BY <1>6, <1>10, <1>11, <1>12

\* The owner updates the record it inserted, or deletes it.
LEMMA SettleInv ==
  ASSUME IdempotencyInv, NEW r \in Requests, CacheResponse(r) \/ RemoveRecord(r)
  PROVE  IdempotencyInv'
  <1> DEFINE key == request[r].key
             answered == [requestHash |-> request[r].body, isProcessing |-> FALSE,
                          response |-> request[r].body]
  <1> USE DEF IdempotencyInv
  <1>1. Owns(r) /\ Finish(r) /\ UNCHANGED replayed
    BY DEF CacheResponse, RemoveRecord, Owns
  <1>2. SlotsTyped' /\ OthersKept(r) /\ pc'[r] = "idle" /\ ~settled'[r]
    BY <1>1, AfterFinish
  <1>3. key \in Keys /\ request[r].body \in Bodies
    BY <1>1 DEF TypeOK, Request, Owns
  <1>4. records[key] = NewRecord(r) /\ NewRecord(r) # NoRecord
    BY <1>1, NewRecordIsRecord DEF Owns, OwnerKeepsItsRecord
  <1>5. /\ records' \in [Keys -> Record \cup {NoRecord}]
        /\ records'[key] \in {answered, NoRecord}
        /\ \A k \in Keys \ {key} : records'[k] = records[k]
    <2>1. CASE CacheResponse(r)
      <3>1. records' = [records EXCEPT ![key].response = request[r].body,
                                       ![key].isProcessing = FALSE]
        BY <1>4, <2>1 DEF CacheResponse
      <3>2. answered \in Record
        BY <1>3 DEF Record
      <3>3. records'[key] = [[records[key] EXCEPT !.response = request[r].body]
                               EXCEPT !.isProcessing = FALSE]
        BY <1>3, <3>1 DEF TypeOK
      <3>4. records'[key] = answered
        <4>1. records[key] \in Record /\ records[key].requestHash = request[r].body
          <5>1. NewRecord(r) \in Record
            BY <1>1, NewRecordIsRecord DEF Owns
          <5>2. NewRecord(r).requestHash = request[r].body
            BY DEF NewRecord
          <5>3. QED
            BY <1>4, <5>1, <5>2
        <4>2. QED
          BY <1>3, <3>3, <4>1 DEF Record
      <3>5. QED
        <4>1. \A k \in Keys \ {key} : records'[k] = records[k]
          BY <1>3, <3>1 DEF TypeOK
        <4>2. /\ records' = [k \in Keys |-> records'[k]]
              /\ \A k \in Keys \ {key} : records[k] \in Record \cup {NoRecord}
          BY <1>3, <3>1 DEF TypeOK
        <4>3. QED
          BY <3>2, <3>4, <4>1, <4>2
    <2>2. CASE RemoveRecord(r)
      BY <1>3, <2>2 DEF RemoveRecord, TypeOK
    <2>3. QED
      BY <2>1, <2>2
  <1>6. TypeOK' /\ ReplaysAreFaithful'
    BY <1>1, <1>2, <1>5 DEF TypeOK, SlotsTyped, ReplaysAreFaithful
  <1>7. \A q \in Requests \ {r} :
          Owns(q) => request[q].key # key /\ request[q].key \in Keys
    BY <1>1 DEF OwnerKeepsItsRecord, TypeOK, Owns, Request
  <1>8. OwnerKeepsItsRecord'
    <2>1. ~Owns(r)'
      BY <1>2 DEF Owns
    <2>2. \A q \in Requests \ {r} :
            (Owns(q)' <=> Owns(q)) /\ NewRecord(q)' = NewRecord(q)
      BY <1>2 DEF OthersKept, Owns, NewRecord
    <2>3. \A q \in Requests \ {r} : Owns(q) => records'[request[q].key] = NewRecord(q)
      BY <1>5, <1>7 DEF OwnerKeepsItsRecord
    <2>4. \A q \in Requests \ {r} : request'[q] = request[q]
      BY <1>2 DEF OthersKept
    <2>5. QED
      BY <2>1, <2>2, <2>3, <2>4 DEF OwnerKeepsItsRecord
  <1>9. RecordsTruthful'
    BY <1>5 DEF RecordsTruthful, Cached
  <1>10. StaysCached'
    <2> SUFFICES ASSUME NEW q \in Requests \ {r}, settled[q]
                 PROVE  Cached(request[q].key)' /\ pc'[q] \in {"find", "bare"}
      BY <1>2 DEF StaysCached, OthersKept
    <2>1. pc[q] \in {"find", "bare"} /\ Cached(request[q].key)
      BY DEF StaysCached
    <2>2. request[q].key # key
      BY <1>4, <2>1 DEF Cached, NewRecord
    <2>3. request[q].key \in Keys
      BY <2>1 DEF TypeOK, Request
    <2>4. QED
      BY <1>2, <1>5, <2>1, <2>2, <2>3 DEF Cached, OthersKept
  <1>11. QED
    BY <1>6, <1>8, <1>9, <1>10

LEMMA ArrivalInv ==
  ASSUME IdempotencyInv, NEW r \in Requests, Arrival(r)
  PROVE  IdempotencyInv'
  <1> USE DEF IdempotencyInv
  <1> PICK k \in Keys, b \in Bodies : Intercept(r, k, b)
    BY DEF Arrival
  <1>1. /\ pc' = [pc EXCEPT ![r] = "find"]
        /\ request' = [request EXCEPT ![r] = [key |-> k, body |-> b]]
        /\ settled' = [settled EXCEPT ![r] = Cached(k)]
        /\ UNCHANGED <<records, replayed>>
    BY DEF Intercept
  <1>2. /\ [key |-> k, body |-> b] \in Request
        /\ Cached(k) \in BOOLEAN
        /\ "find" \in Steps
    BY DEF Request, Cached, Steps, TypeOK, Record
  <1>3. SlotsTyped' /\ OthersKept(r)
    BY <1>1, <1>2 DEF TypeOK, SlotsTyped, OthersKept
  <1>4. TypeOK' /\ ReplaysAreFaithful'
    BY <1>1, <1>3 DEF TypeOK, SlotsTyped, ReplaysAreFaithful
  <1>5. pc'[r] = "find" /\ request'[r].key = k /\ settled'[r] = Cached(k)
    BY <1>1 DEF TypeOK
  <1>6. OwnerKeepsItsRecord' /\ RecordsTruthful' /\ StaysCached'
    <2>1. ~Owns(r)'
      BY <1>5 DEF Owns
    <2>2. \A q \in Requests \ {r} :
            (Owns(q)' <=> Owns(q)) /\ NewRecord(q)' = NewRecord(q)
      BY <1>3 DEF OthersKept, Owns, NewRecord
    <2>3. OwnerKeepsItsRecord'
      BY <1>1, <1>3, <2>1, <2>2 DEF OthersKept, OwnerKeepsItsRecord
    <2>4. \A j : Cached(j)' <=> Cached(j)
      BY <1>1 DEF Cached
    <2>5. RecordsTruthful'
      BY <1>1, <2>4 DEF RecordsTruthful
    <2>6. StaysCached'
      BY <1>3, <1>5, <2>4 DEF OthersKept, StaysCached
    <2>7. QED
      BY <2>3, <2>5, <2>6
  <1>7. QED
    BY <1>4, <1>6

LEMMA ProgressInv ==
  ASSUME IdempotencyInv, NEW r \in Requests, Progress(r)
  PROVE  IdempotencyInv'
  <1>1. CASE FindRecord(r)
    BY <1>1, FindRecordInv
  <1>2. CASE CreateRecord(r)
    <2>1. "bare" \in Steps /\ pc[r] = "create" /\ UNCHANGED replayed
      BY <1>2 DEF CreateRecord, Steps
    <2>2. CASE records[request[r].key] = NoRecord
      BY <1>2, <2>1, <2>2, InsertInv DEF CreateRecord
    <2>3. CASE records[request[r].key] # NoRecord
      <3>1. Goto(r, "bare") /\ UNCHANGED records
        BY <1>2, <2>3 DEF CreateRecord
      <3>2. QED
        BY <2>1, <3>1, GotoInv
    <2>4. QED
      BY <2>2, <2>3
  <1>3. CASE Handle(r)
    <2>1. /\ pc[r] = "handle" /\ Owns(r) /\ request[r].key \in Keys
          /\ UNCHANGED <<records, replayed>>
      BY <1>3 DEF Handle, Owns, IdempotencyInv, TypeOK, Request
    <2>2. PICK step \in {"cache", "remove"} : Goto(r, step)
      BY <1>3 DEF Handle
    <2>3. step \in Steps
      BY DEF Steps
    <2>4. QED
      BY <2>1, <2>2, <2>3, GotoInv
  <1>4. CASE CacheResponse(r) \/ RemoveRecord(r)
    BY <1>4, SettleInv
  <1>5. CASE HandleBare(r)
    <2>1. pc[r] = "bare" /\ request[r].key \in Keys /\ UNCHANGED <<records, replayed>>
      BY <1>5 DEF HandleBare, IdempotencyInv, TypeOK, Request
    <2>2. QED
      BY <1>5, <2>1, FinishInv DEF HandleBare
  <1>6. QED
    BY <1>1, <1>2, <1>3, <1>4, <1>5 DEF Progress

LEMMA DatabaseErrorInv ==
  ASSUME IdempotencyInv, NEW r \in Requests, DatabaseError(r)
  PROVE  IdempotencyInv'
  <1>1. /\ UNCHANGED replayed
        /\ "bare" \in Steps
    BY DEF DatabaseError, IdempotencyInv, TypeOK, Steps
  <1>2. CASE pc[r] \in {"find", "create"} /\ Goto(r, "bare") /\ UNCHANGED records
    BY <1>1, <1>2, GotoInv
  <1>3. CASE /\ pc[r] = "create" /\ Goto(r, "bare")
             /\ records[request[r].key] = NoRecord
             /\ records' = [records EXCEPT ![request[r].key] = NewRecord(r)]
    BY <1>1, <1>3, InsertInv
  <1>4. CASE Finish(r) /\ UNCHANGED records
    BY <1>1, <1>4, FinishInv
  <1>5. QED
    BY <1>2, <1>3, <1>4 DEF DatabaseError

LEMMA CrashInv == IdempotencyInv /\ Crash => IdempotencyInv'
  <1> SUFFICES ASSUME IdempotencyInv, Crash PROVE IdempotencyInv'
    OBVIOUS
  <1>1. "idle" \in Steps
    BY DEF Steps
  <1>2. TypeOK'
    BY <1>1 DEF IdempotencyInv, TypeOK, Crash
  <1>3. /\ OwnerKeepsItsRecord' /\ RecordsTruthful' /\ StaysCached'
        /\ ReplaysAreFaithful'
    BY DEF IdempotencyInv, Crash, OwnerKeepsItsRecord, RecordsTruthful,
       StaysCached, ReplaysAreFaithful, Owns, Cached
  <1>4. QED
    BY <1>2, <1>3 DEF IdempotencyInv

LEMMA IdempotencyInvNext == IdempotencyInv /\ [Next]_vars => IdempotencyInv'
  <1> SUFFICES ASSUME IdempotencyInv, [Next]_vars PROVE IdempotencyInv'
    OBVIOUS
  <1>1. ASSUME NEW r \in Requests, Arrival(r) \/ Progress(r) \/ DatabaseError(r)
        PROVE  IdempotencyInv'
    BY <1>1, ArrivalInv, ProgressInv, DatabaseErrorInv
  <1>2. CASE Crash
    BY <1>2, CrashInv
  <1>3. CASE UNCHANGED vars
    BY <1>3 DEF vars, IdempotencyInv, TypeOK, OwnerKeepsItsRecord, RecordsTruthful,
       StaysCached, ReplaysAreFaithful, Owns, Cached, NewRecord
  <1>4. QED
    BY <1>1, <1>2, <1>3 DEF Next

LEMMA IdempotencyInvAlways == Spec => []IdempotencyInv
  BY IdempotencyInvInit, IdempotencyInvNext, PTL DEF Spec

\* Records and requests keep their types, whatever fails
\* (idempotency.interceptor.ts:23-101).
THEOREM TypeCorrect == Spec => []TypeOK
  <1>1. IdempotencyInv => TypeOK
    BY DEF IdempotencyInv
  <1>2. QED
    BY <1>1, IdempotencyInvAlways, PTL

\* Whatever fails, the record a request inserted is its own until its last step
\* (idempotency.interceptor.ts:67-92).
THEOREM OwnersKeepTheirRecords == Spec => []OwnerKeepsItsRecord
  <1>1. IdempotencyInv => OwnerKeepsItsRecord
    BY DEF IdempotencyInv
  <1>2. QED
    BY <1>1, IdempotencyInvAlways, PTL

\* A retry is never given the response to another body
\* (idempotency.interceptor.ts:42-65).
THEOREM ReplaysStayFaithful == Spec => []ReplaysAreFaithful
  <1>1. IdempotencyInv => ReplaysAreFaithful
    BY DEF IdempotencyInv
  <1>2. QED
    BY <1>1, IdempotencyInvAlways, PTL

\* A key that has been answered runs no handler again, unless the database fails
\* at the lookup (idempotency.interceptor.ts:42-65).
THEOREM AnsweredKeysAreReplayed == Spec => []RetriesAreReplayed
  <1>1. IdempotencyInv => RetriesAreReplayed
    BY DEF IdempotencyInv, StaysCached, RetriesAreReplayed
  <1>2. QED
    BY <1>1, IdempotencyInvAlways, PTL
=============================================================================
