---------------------------- MODULE Idempotency ----------------------------
(***************************************************************************)
(* IdempotencyInterceptor over the idempotency_records collection.         *)
(*                                                                         *)
(* Each slot of Requests serves one write request with an idempotency key  *)
(* and a body at a time; every await of intercept() and of the pipe on the *)
(* handler's result is a step.  A request that inserted the record of its  *)
(* key owns it until its last step; one that met a database error or the   *)
(* unique index goes on without idempotency ("bare").                      *)
(*                                                                         *)
(* The handler's response is abstracted to the body it was computed from.  *)
(*                                                                         *)
(* No record expires.  expiresAt is declared with a plain index of its own *)
(* before the TTL index; the two have the same name, the plain one is      *)
(* built first, and MongoDB refuses the other.                             *)
(***************************************************************************)
EXTENDS Naturals, FiniteSets

CONSTANTS
  Keys,         \* values of the x-idempotency-key header
  Bodies,       \* request bodies, told apart by their hash
  Requests,     \* requests served at the same time
  NoRecord,     \* no record with the key
  NoRequest,    \* the slot is free
  NoResponse    \* no response has been cached

Record == [requestHash : Bodies, isProcessing : BOOLEAN,
           response : Bodies \cup {NoResponse}]

Request == [key : Keys, body : Bodies]

ASSUME IdempotencyAssumptions ==
  /\ NoRecord \notin Record
  /\ NoRequest \notin Request
  /\ NoResponse \notin Bodies

VARIABLES
  records,   \* [Keys -> Record or NoRecord]
  pc,        \* [Requests -> step the request is at]
  request,   \* [Requests -> Request or NoRequest]
  replayed,  \* history: bodies of retries, with the cached response they got
  settled    \* history: the key was answered and cached when the request came

vars == <<records, pc, request, replayed, settled>>

Steps == {"idle", "find", "create", "handle", "bare", "cache", "remove"}

TypeOK ==
  /\ records \in [Keys -> Record \cup {NoRecord}]
  /\ pc \in [Requests -> Steps]
  /\ request \in [Requests -> Request \cup {NoRequest}]
  /\ \A r \in Requests : pc[r] # "idle" => request[r] \in Request
  /\ replayed \subseteq Bodies \X (Bodies \cup {NoResponse})
  /\ settled \in [Requests -> BOOLEAN]

Init ==
  /\ records = [k \in Keys |-> NoRecord]
  /\ pc = [r \in Requests |-> "idle"]
  /\ request = [r \in Requests |-> NoRequest]
  /\ replayed = {}
  /\ settled = [r \in Requests |-> FALSE]

-----------------------------------------------------------------------------
InFlight(r) == pc[r] # "idle"
Processing(k) == records[k] # NoRecord /\ records[k].isProcessing
Cached(k) == records[k] # NoRecord /\ ~records[k].isProcessing

\* The request inserted the record of its key and has steps left to do on it.
Owns(r) == pc[r] \in {"handle", "cache", "remove"}

\* The record that a request inserts.
NewRecord(r) ==
  [requestHash |-> request[r].body, isProcessing |-> TRUE, response |-> NoResponse]

Goto(r, step) ==
  /\ pc' = [pc EXCEPT ![r] = step]
  /\ UNCHANGED <<request, settled>>

Finish(r) ==
  /\ pc' = [pc EXCEPT ![r] = "idle"]
  /\ request' = [request EXCEPT ![r] = NoRequest]
  /\ settled' = [settled EXCEPT ![r] = FALSE]

\* A POST, PUT or PATCH with the header arrives.
Intercept(r, k, b) ==
  /\ pc[r] = "idle"
  /\ pc' = [pc EXCEPT ![r] = "find"]
  /\ request' = [request EXCEPT ![r] = [key |-> k, body |-> b]]
  /\ settled' = [settled EXCEPT ![r] = Cached(k)]
  /\ UNCHANGED <<records, replayed>>

\* Mutant of FindRecord: a record that has been answered is not looked at.
FindProcessingRecord(r) ==
  /\ pc[r] = "find"
  /\ IF Processing(request[r].key) THEN Finish(r) ELSE Goto(r, "create")
  /\ UNCHANGED <<records, replayed>>

\* Mutant of FindRecord: the hash is not compared.
FindRecordOfAnyBody(r) ==
  LET k == request[r].key IN
  /\ pc[r] = "find"
  /\ \/ /\ records[k] = NoRecord
        /\ Goto(r, "create") /\ UNCHANGED replayed
     \/ /\ Processing(k)
        /\ Finish(r) /\ UNCHANGED replayed
     \/ /\ Cached(k)
        /\ replayed' = replayed \cup {<<request[r].body, records[k].response>>}
        /\ Finish(r)
  /\ UNCHANGED records

\* findOne: without a record the request goes on to create it; for another
\* body, or while the record is processing, it ends in a conflict; else the
\* cached response is its answer.
FindRecord(r) ==
  LET k == request[r].key
      mismatch == records[k] # NoRecord /\ records[k].requestHash # request[r].body
  IN
  /\ pc[r] = "find"
  /\ \/ /\ records[k] = NoRecord
        /\ Goto(r, "create") /\ UNCHANGED replayed
     \/ /\ mismatch \/ Processing(k)
        /\ Finish(r) /\ UNCHANGED replayed
     \/ /\ Cached(k) /\ ~mismatch
        /\ replayed' = replayed \cup {<<request[r].body, records[k].response>>}
        /\ Finish(r)
  /\ UNCHANGED records

\* Mutant of CreateRecord: the hash is left out, which the schema accepts.
CreateRecordWithoutHash(r) ==
  LET k == request[r].key IN
  /\ pc[r] = "create"
  /\ records[k] = NoRecord
  /\ records' = [records EXCEPT ![k] = [isProcessing |-> TRUE, response |-> NoResponse]]
  /\ Goto(r, "handle")
  /\ UNCHANGED replayed

\* Mutant of CreateRecord: the key is not unique, the record is replaced.
CreateRecordOverwriting(r) ==
  /\ pc[r] = "create"
  /\ records' = [records EXCEPT ![request[r].key] = NewRecord(r)]
  /\ Goto(r, "handle")
  /\ UNCHANGED replayed

\* create: the unique index refuses a second record of the key, and that error
\* is taken for a failing database.
CreateRecord(r) ==
  LET k == request[r].key IN
  /\ pc[r] = "create"
  /\ IF records[k] = NoRecord
     THEN /\ records' = [records EXCEPT ![k] = NewRecord(r)]
          /\ Goto(r, "handle")
     ELSE Goto(r, "bare") /\ UNCHANGED records
  /\ UNCHANGED replayed

\* The handler of the owner resolves (the client has its answer) or rejects.
Handle(r) ==
  /\ pc[r] = "handle"
  /\ Goto(r, "cache") \/ Goto(r, "remove")
  /\ UNCHANGED <<records, replayed>>

\* The tap of the pipe: updateOne by key, which nobody waits for.
CacheResponse(r) ==
  LET k == request[r].key IN
  /\ pc[r] = "cache"
  /\ records' = IF records[k] = NoRecord THEN records
                ELSE [records EXCEPT ![k].response = request[r].body,
                                     ![k].isProcessing = FALSE]
  /\ Finish(r)
  /\ UNCHANGED replayed

\* The catchError of the pipe: deleteOne by key.
RemoveRecord(r) ==
  /\ pc[r] = "remove"
  /\ records' = [records EXCEPT ![request[r].key] = NoRecord]
  /\ Finish(r)
  /\ UNCHANGED replayed

\* The handler of a request without idempotency resolves or rejects.
HandleBare(r) ==
  /\ pc[r] = "bare"
  /\ Finish(r)
  /\ UNCHANGED <<records, replayed>>

-----------------------------------------------------------------------------
(* Failures.                                                               *)

\* A database call rejects.  Before the handler the request goes on bare; the
\* insert may have taken effect.  After it nobody catches the error, which may
\* also bring the process down (Crash).
DatabaseError(r) ==
  /\ \/ pc[r] = "find" /\ Goto(r, "bare") /\ UNCHANGED records
     \/ /\ pc[r] = "create"
        /\ \/ UNCHANGED records
           \/ /\ records[request[r].key] = NoRecord
              /\ records' = [records EXCEPT ![request[r].key] = NewRecord(r)]
        /\ Goto(r, "bare")
     \/ pc[r] \in {"cache", "remove"} /\ Finish(r) /\ UNCHANGED records
  /\ UNCHANGED replayed

\* The process dies; its records stay as they are.
Crash ==
  /\ \E r \in Requests : InFlight(r)
  /\ pc' = [r \in Requests |-> "idle"]
  /\ request' = [r \in Requests |-> NoRequest]
  /\ settled' = [r \in Requests |-> FALSE]
  /\ UNCHANGED <<records, replayed>>

-----------------------------------------------------------------------------
Arrival(r) == \E k \in Keys, b \in Bodies : Intercept(r, k, b)

Progress(r) ==
  \/ FindRecord(r) \/ CreateRecord(r) \/ Handle(r) \/ CacheResponse(r)
  \/ RemoveRecord(r) \/ HandleBare(r)

Next ==
  \/ \E r \in Requests : Arrival(r) \/ Progress(r) \/ DatabaseError(r)
  \/ Crash

Fairness == \A r \in Requests : WF_vars(Progress(r))

Spec == Init /\ [][Next]_vars /\ Fairness

-----------------------------------------------------------------------------
(* Properties.                                                             *)

\* At most one request at a time owns the record of a key, and the record it
\* inserted stays the one it will update or delete: no other request's error,
\* late update or failed insert touches it.
OwnerKeepsItsRecord ==
  \A r \in Requests : Owns(r) =>
    /\ records[request[r].key] = NewRecord(r)
    /\ \A q \in Requests :
         q # r /\ Owns(q) => request[q].key # request[r].key

\* What is replayed to a retry is the response of a handler that ran with the
\* very body the retry carries.
ReplaysAreFaithful == \A pair \in replayed : pair[1] = pair[2]

\* Once a response is cached, no later request with its key runs the handler,
\* unless the database fails at its lookup.
RetriesAreReplayed ==
  \A r \in Requests : settled[r] => pc[r] \in {"find", "bare"}

\* A key does not stay "already being processed" for ever when the owner of its
\* record died or could not update it: the comment on the schema's TTL index
\* says that records expire.
KeysAreReleased == \A k \in Keys : Processing(k) ~> ~Processing(k)
=============================================================================
