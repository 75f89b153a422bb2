-------------------------- MODULE DistributedLock --------------------------
(***************************************************************************)
(* The Redis lock of infrastructure/cache: RedisService as far as the lock *)
(* uses it, and the acquire and release halves of DistributedLockService.  *)
(*                                                                         *)
(* A lock is a Redis string: locks[k] is the lock id stored under key k,   *)
(* or NoLock.  The code stores it with SETEX, which replaces whatever is   *)
(* there, so acquiring never waits and never fails because another client  *)
(* holds the key.  A client may hold two locks at once (rescheduling nests *)
(* two executeWithLock calls); the fresh uuid of each acquisition is       *)
(* abstracted to <<client, nesting depth>>, which tells apart every two    *)
(* ids that one key can hold during the life of an acquisition.            *)
(*                                                                         *)
(* The module that drives the lock (Bookings) conjoins these actions with  *)
(* its own steps; Expire, Connect and Disconnect are the environment's.    *)
(***************************************************************************)
EXTENDS Naturals

CONSTANTS
  LockKeys,    \* the keys "booking:<banquet>:<UTC day>"
  Clients,     \* requests that may run at the same time
  NoLock       \* the reply of GET for a missing key

LockIds == Clients \X (1..2)

ASSUME NoLockAssumption == NoLock \notin LockIds

VARIABLES
  locks,       \* [LockKeys -> LockIds \cup {NoLock}]
  isConnected  \* RedisService.isConnected

LockTypeOK ==
  /\ locks \in [LockKeys -> LockIds \cup {NoLock}]
  /\ isConnected \in BOOLEAN

LockInit ==
  /\ locks = [k \in LockKeys |-> NoLock]
  /\ isConnected = FALSE

\* acquireLock with a connected client: SETEX overwrites any holder.
AcquireLock(k, id) ==
  /\ isConnected
  /\ locks' = [locks EXCEPT ![k] = id]
  /\ UNCHANGED isConnected

\* acquireLock returning null: Redis is down, or SETEX failed (set() -> false),
\* in which case it may have been executed all the same.
AcquireLockFails(k, id) ==
  /\ \/ isConnected /\ locks' = [locks EXCEPT ![k] = id]
     \/ UNCHANGED locks
  /\ UNCHANGED isConnected

\* The GET of releaseLock found this acquisition's own id.
OwnsLock(k, id) == isConnected /\ locks[k] = id

\* The DEL of releaseLock removes the key whoever holds it by now; it is
\* skipped when the connection is gone, and its error is swallowed.
DeleteLock(k) ==
  /\ \/ isConnected /\ locks' = [locks EXCEPT ![k] = NoLock]
     \/ UNCHANGED locks
  /\ UNCHANGED isConnected

\* The TTL of a key runs out, whether or not its holder has finished.
Expire(k) ==
  /\ locks[k] # NoLock
  /\ locks' = [locks EXCEPT ![k] = NoLock]
  /\ UNCHANGED isConnected

\* The 'connect' event.
Connect ==
  /\ ~isConnected
  /\ isConnected' = TRUE
  /\ UNCHANGED locks

\* The 'error' and 'close' events.
Disconnect ==
  /\ isConnected
  /\ isConnected' = FALSE
  /\ UNCHANGED locks

LockEnvironment ==
  \/ \E k \in LockKeys : Expire(k)
  \/ Connect
  \/ Disconnect
============================================================================
