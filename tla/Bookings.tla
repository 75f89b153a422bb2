------------------------------ MODULE Bookings ------------------------------
(***************************************************************************)
(* BookingService over MongoDB and the Redis lock, for one banquet (two    *)
(* banquets share neither a document nor a lock key).                      *)
(*                                                                         *)
(* Each of the Clients is a request slot that runs one of the service's    *)
(* four operations at a time, and every await of the operation is a step:  *)
(* other requests run between any two steps, a database call may fail, the *)
(* process may crash, and Redis may go away or expire a key.               *)
(*                                                                         *)
(* An event date is an instant.  isDateAvailable, isDateBooked and the     *)
(* availability records work on its day in the server's time zone, DayOf;  *)
(* the lock key is built from its UTC day, LockKeyOf.                      *)
(***************************************************************************)
EXTENDS DistributedLock

CONSTANTS
  BookingIds,   \* ObjectIds that bookings may get
  EventDates,   \* instants an event may be booked for
  FutureDates,  \* those after now; the others have passed
  Days,         \* calendar days of the server's time zone
  DayOf,        \* [EventDates -> Days]
  LockKeyOf,    \* [EventDates -> LockKeys]
  NoBooking,    \* no document with this id
  NoJob,        \* the slot serves no request
  MaxRequests   \* bound on the requests of a behaviour

Statuses == {"PENDING", "CONFIRMED", "CANCELLED", "COMPLETED", "REFUNDED"}
ActiveStatuses == {"PENDING", "CONFIRMED"}
AuditActions == {"BOOKING_CREATED", "BOOKING_CONFIRMED", "BOOKING_CANCELLED",
                 "BOOKING_RESCHEDULED"}

\* A booking document; of its audit trail, the set of actions recorded.
Booking == [status : Statuses, date : EventDates, trail : SUBSET AuditActions]

\* What a running request holds: the booking document it works on, the date
\* to be taken, and the date as read (of the booking to cancel or move).
Job == [op : {"create", "confirm", "cancel", "reschedule"},
        booking : BookingIds, date : EventDates, old : EventDates]

ASSUME BookingsAssumptions ==
  /\ FutureDates \subseteq EventDates
  /\ DayOf \in [EventDates -> Days]
  /\ LockKeyOf \in [EventDates -> LockKeys]
  /\ NoBooking \notin Booking \cup [status : Statuses, date : EventDates]
  /\ NoJob \notin Job
  /\ MaxRequests \in Nat

VARIABLES
  bookings,     \* [BookingIds -> Booking or NoBooking], the collection
  unavailable,  \* days whose availability record has isAvailable = false
  pc,           \* [Clients -> step the request is at]
  job,          \* [Clients -> Job or NoJob]
  held,         \* [Clients -> number of executeWithLock calls entered]
  requests,     \* requests accepted so far
  faulted,      \* history: some request crashed or had a database error
  raced,        \* history: days that requests have raced for
  disturbed     \* history: days whose requests met on a booking or failed half way

store == <<bookings, unavailable>>
history == <<faulted, raced, disturbed>>
lockVars == <<locks, isConnected>>
vars == <<bookings, unavailable, pc, job, held, requests, faulted, raced, disturbed,
          locks, isConnected>>

Steps == {"idle", "acquire", "banquet", "available", "booked", "insert",
          "trail", "mark", "move", "free", "confirm", "cancel",
          "unlock", "delete"}

TypeOK ==
  /\ LockTypeOK
  /\ bookings \in [BookingIds -> Booking \cup {NoBooking}]
  /\ unavailable \in SUBSET Days
  /\ pc \in [Clients -> Steps]
  /\ job \in [Clients -> Job \cup {NoJob}]
  /\ \A p \in Clients : pc[p] # "idle" => job[p] \in Job
  /\ held \in [Clients -> 0..2]
  /\ requests \in Nat
  /\ faulted \in BOOLEAN
  /\ raced \in SUBSET Days
  /\ disturbed \in SUBSET Days

Init ==
  /\ LockInit
  /\ bookings = [b \in BookingIds |-> NoBooking]
  /\ unavailable = {}
  /\ pc = [p \in Clients |-> "idle"]
  /\ job = [p \in Clients |-> NoJob]
  /\ held = [p \in Clients |-> 0]
  /\ requests = 0
  /\ faulted = FALSE
  /\ raced = {}
  /\ disturbed = {}

-----------------------------------------------------------------------------
(* Documents and lock frames.                                              *)

Active(b) == bookings[b] # NoBooking /\ bookings[b].status \in ActiveStatuses

\* Mutant of IsDateBooked: the query asks for confirmed bookings only.
IsDateConfirmed(x) ==
  \E b \in BookingIds : /\ bookings[b] # NoBooking
                        /\ bookings[b].status = "CONFIRMED"
                        /\ DayOf[bookings[b].date] = x

\* isDateBooked: some active booking on the day.
IsDateBooked(x) == \E b \in BookingIds : Active(b) /\ DayOf[bookings[b].date] = x

InFlight(p) == pc[p] # "idle"

\* The request may have reads or writes of the banquet's documents ahead of it.
Working(p) == pc[p] \notin {"idle", "unlock", "delete"}

\* Some of its writes are done and some are not.
HalfWritten(p) == pc[p] \in {"trail", "mark", "move", "cancel"}

\* It has seen its day without an active booking, and has not booked it yet.
Claims(p) ==
  \/ pc[p] = "insert"
  \/ pc[p] \in {"free", "mark", "move"} /\ job[p].op = "reschedule"

\* The days whose availability a request reads or writes.
DaysOf(j) == {DayOf[j.date], DayOf[j.old]}

\* The executeWithLock calls an operation nests, and the key of the n-th.
Frames(p) == IF job[p].op = "create" THEN 1 ELSE 2
KeyAt(p, n) ==
  IF job[p].op = "reschedule" /\ n = 1 THEN LockKeyOf[job[p].old]
                                      ELSE LockKeyOf[job[p].date]

\* booking.save() of one status: only the modified paths reach the database.
SaveStatus(b, status, action) ==
  bookings' = [bookings EXCEPT ![b].status = status, ![b].trail = @ \cup {action}]

Goto(p, step) ==
  /\ pc' = [pc EXCEPT ![p] = step]
  /\ UNCHANGED <<job, held, requests, history>>

\* The request is answered (or dead), and its slot is free.
Finish(p) ==
  /\ pc' = [pc EXCEPT ![p] = "idle"]
  /\ job' = [job EXCEPT ![p] = NoJob]
  /\ held' = [held EXCEPT ![p] = 0]
  /\ UNCHANGED requests

\* Leaves the innermost executeWithLock.
LeaveFrame(p) ==
  IF held[p] = 2
  THEN /\ pc' = [pc EXCEPT ![p] = "unlock"]
       /\ held' = [held EXCEPT ![p] = 1]
       /\ UNCHANGED <<job, requests>>
  ELSE Finish(p)

\* A request arrives: its operation starts at the given step.
Accept(p, step, j) ==
  /\ pc[p] = "idle"
  /\ requests < MaxRequests
  /\ requests' = requests + 1
  /\ pc' = [pc EXCEPT ![p] = step]
  /\ job' = [job EXCEPT ![p] = j]
  /\ disturbed' = disturbed \cup
       UNION {DaysOf(j) \cup DaysOf(job[q]) :
                q \in {q \in Clients : Working(q) /\ job[q].booking = j.booking}}
  /\ UNCHANGED <<held, faulted, raced, store, lockVars>>

-----------------------------------------------------------------------------
(* Arrival of the four requests.  A request that the code refuses before   *)
(* its first write (date in the past, no such booking, wrong status)       *)
(* changes nothing and is not a step.                                      *)

\* createBooking up to the lock.  The ObjectId is made by the client library,
\* so no other request uses b.
CreateBooking(p, b, d) ==
  /\ d \in FutureDates
  /\ bookings[b] = NoBooking
  /\ \A q \in Clients : InFlight(q) => job[q].booking # b
  /\ Accept(p, "acquire", [op |-> "create", booking |-> b, date |-> d, old |-> d])

\* confirmBooking: the read and its status check.
ConfirmBooking(p, b) ==
  /\ bookings[b] # NoBooking
  /\ bookings[b].status = "PENDING"
  /\ Accept(p, "confirm", [op |-> "confirm", booking |-> b,
                           date |-> bookings[b].date, old |-> bookings[b].date])

\* cancelBooking: the read and canBeCancelled.
CancelBooking(p, b) ==
  /\ Active(b)
  /\ Accept(p, "free", [op |-> "cancel", booking |-> b,
                        date |-> bookings[b].date, old |-> bookings[b].date])

\* Mutant of RescheduleBooking: canBeRescheduled is not asked.
RescheduleAnyBooking(p, b, d) ==
  /\ bookings[b] # NoBooking
  /\ Accept(p, "acquire", [op |-> "reschedule", booking |-> b,
                           date |-> d, old |-> bookings[b].date])

\* rescheduleBooking: the read and canBeRescheduled, before any lock.
RescheduleBooking(p, b, d) ==
  /\ Active(b)
  /\ Accept(p, "acquire", [op |-> "reschedule", booking |-> b,
                           date |-> d, old |-> bookings[b].date])

-----------------------------------------------------------------------------
(* executeWithLock.                                                        *)

Acquire(p) ==
  /\ pc[p] = "acquire"
  /\ AcquireLock(KeyAt(p, held[p] + 1), <<p, held[p] + 1>>)
  /\ held' = [held EXCEPT ![p] = @ + 1]
  /\ pc' = [pc EXCEPT ![p] = IF held[p] + 1 < Frames(p) THEN "acquire"
                             ELSE IF job[p].op = "create" THEN "banquet"
                             ELSE "available"]
  /\ UNCHANGED <<job, requests, history, store>>

\* Mutant of AcquireFails: without a lock id the request tries again.
AcquireRetries(p) ==
  /\ pc[p] = "acquire"
  /\ AcquireLockFails(KeyAt(p, held[p] + 1), <<p, held[p] + 1>>)
  /\ UNCHANGED <<pc, job, held, requests, history, store>>

\* No lock id: executeWithLock throws, through the finally of the outer one.
AcquireFails(p) ==
  /\ pc[p] = "acquire"
  /\ AcquireLockFails(KeyAt(p, held[p] + 1), <<p, held[p] + 1>>)
  /\ IF held[p] = 0 THEN Finish(p)
     ELSE pc' = [pc EXCEPT ![p] = "unlock"] /\ UNCHANGED <<job, held, requests>>
  /\ UNCHANGED <<history, store>>

\* releaseLock, the GET: on a mismatch, or without Redis, nothing is deleted.
CompareLock(p) ==
  /\ pc[p] = "unlock"
  /\ \/ OwnsLock(KeyAt(p, held[p]), <<p, held[p]>>) /\ Goto(p, "delete")
     \/ LeaveFrame(p) /\ UNCHANGED history
  /\ UNCHANGED <<store, lockVars>>

\* releaseLock, the DEL.
ReleaseLock(p) ==
  /\ pc[p] = "delete"
  /\ DeleteLock(KeyAt(p, held[p]))
  /\ LeaveFrame(p)
  /\ UNCHANGED <<history, store>>

-----------------------------------------------------------------------------
(* The critical sections of createBooking and rescheduleBooking.           *)

\* Banquet lookup and capacity check, whose data is the client's choice.
CheckBanquet(p) ==
  /\ pc[p] = "banquet"
  /\ \E next \in {"available", "unlock"} : Goto(p, next)
  /\ UNCHANGED <<store, lockVars>>

CheckAvailable(p) ==
  /\ pc[p] = "available"
  /\ Goto(p, IF DayOf[job[p].date] \in unavailable THEN "unlock" ELSE "booked")
  /\ UNCHANGED <<store, lockVars>>

\* A day that another request has found free as well is raced for.
CheckBooked(p) ==
  LET x == DayOf[job[p].date] IN
  /\ pc[p] = "booked"
  /\ \/ /\ IsDateBooked(x)
        /\ Goto(p, "unlock")
     \/ /\ ~IsDateBooked(x)
        /\ pc' = [pc EXCEPT ![p] = IF job[p].op = "create" THEN "insert" ELSE "free"]
        /\ raced' = raced \cup {y \in {x} :
             \E q \in Clients : Claims(q) /\ DayOf[job[q].date] = y}
        /\ UNCHANGED <<job, held, requests, faulted, disturbed>>
  /\ UNCHANGED <<store, lockVars>>

\* Price and reference are computed, then the PENDING document is inserted.
InsertBooking(p) ==
  /\ pc[p] = "insert"
  /\ bookings' = [bookings EXCEPT ![job[p].booking] =
                    [status |-> "PENDING", date |-> job[p].date, trail |-> {}]]
  /\ Goto(p, "trail")
  /\ UNCHANGED <<unavailable, lockVars>>

\* Mutant of SaveAuditEntry: the save replaces the array instead of pushing.
SaveWholeTrail(p) ==
  /\ pc[p] = "trail"
  /\ bookings' = [bookings EXCEPT ![job[p].booking].trail = {"BOOKING_CREATED"}]
  /\ Goto(p, "mark")
  /\ UNCHANGED <<unavailable, lockVars>>

\* The second save of createBooking, which records the audit entry.
SaveAuditEntry(p) ==
  /\ pc[p] = "trail"
  /\ bookings' = [bookings EXCEPT ![job[p].booking].trail =
                    @ \cup {"BOOKING_CREATED"}]
  /\ Goto(p, "mark")
  /\ UNCHANGED <<unavailable, lockVars>>

\* Mutant of MarkDateUnavailable: the record is keyed by the instant.
MarkInstantUnavailable(p) ==
  /\ pc[p] = "mark"
  /\ unavailable' = unavailable \cup {job[p].date}
  /\ Goto(p, IF job[p].op = "create" THEN "unlock" ELSE "move")
  /\ UNCHANGED <<bookings, lockVars>>

\* The record is keyed by the start of the day.
MarkDateUnavailable(p) ==
  /\ pc[p] = "mark"
  /\ unavailable' = unavailable \cup {DayOf[job[p].date]}
  /\ Goto(p, IF job[p].op = "create" THEN "unlock" ELSE "move")
  /\ UNCHANGED <<bookings, lockVars>>

\* Mutant of MarkDateAvailable: it frees the new day of a reschedule.
MarkNewDateAvailable(p) ==
  /\ pc[p] = "free"
  /\ unavailable' = unavailable \ {DayOf[job[p].date]}
  /\ Goto(p, IF job[p].op = "cancel" THEN "cancel" ELSE "mark")
  /\ UNCHANGED <<bookings, lockVars>>

\* Cancelling and rescheduling free the day they read, unconditionally.
MarkDateAvailable(p) ==
  /\ pc[p] = "free"
  /\ unavailable' = unavailable \ {DayOf[job[p].old]}
  /\ Goto(p, IF job[p].op = "cancel" THEN "cancel" ELSE "mark")
  /\ UNCHANGED <<bookings, lockVars>>

\* The save of rescheduleBooking leaves the status, and the date too if the new
\* one is the instant that was read.
SaveRescheduled(p) ==
  /\ pc[p] = "move"
  /\ bookings' = [bookings EXCEPT
       ![job[p].booking].date = IF job[p].date = job[p].old THEN @ ELSE job[p].date,
       ![job[p].booking].trail = @ \cup {"BOOKING_RESCHEDULED"}]
  /\ Goto(p, "unlock")
  /\ UNCHANGED <<unavailable, lockVars>>

-----------------------------------------------------------------------------
(* The last writes of confirmBooking and cancelBooking; neither locks.     *)

\* Mutant of SaveConfirmed: the whole document as read is written back.
SaveConfirmedDocument(p) ==
  /\ pc[p] = "confirm"
  /\ bookings' = [bookings EXCEPT ![job[p].booking] =
                    [status |-> "CONFIRMED", date |-> job[p].date,
                     trail |-> @.trail \cup {"BOOKING_CONFIRMED"}]]
  /\ Finish(p)
  /\ UNCHANGED <<history, unavailable, lockVars>>

\* A booking that was cancelled since it was read is active again: its day may
\* have been given to another by now.
SaveConfirmed(p) ==
  LET b == job[p].booking IN
  /\ pc[p] = "confirm"
  /\ SaveStatus(b, "CONFIRMED", "BOOKING_CONFIRMED")
  /\ raced' = raced \cup {y \in {DayOf[bookings[b].date]} : ~Active(b)}
  /\ Finish(p)
  /\ UNCHANGED <<faulted, disturbed, unavailable, lockVars>>

SaveCancelled(p) ==
  /\ pc[p] = "cancel"
  /\ SaveStatus(job[p].booking, "CANCELLED", "BOOKING_CANCELLED")
  /\ Finish(p)
  /\ UNCHANGED <<history, unavailable, lockVars>>

-----------------------------------------------------------------------------
(* Failures.                                                               *)

\* What the histories keep of a request that fails.
Faults(p) ==
  /\ faulted' = TRUE
  /\ disturbed' = disturbed \cup (IF HalfWritten(p) THEN DaysOf(job[p]) ELSE {})
  /\ UNCHANGED raced

\* A database call rejects: the exception runs the finally blocks, if any.
\* (A call that took effect and still rejects is its own step followed by this
\* one, or by the end of the request.)
DatabaseError(p) ==
  /\ pc[p] \notin {"idle", "acquire", "unlock", "delete"}
  /\ IF held[p] = 0 THEN Finish(p)
     ELSE pc' = [pc EXCEPT ![p] = "unlock"] /\ UNCHANGED <<job, held, requests>>
  /\ Faults(p)
  /\ UNCHANGED <<store, lockVars>>

\* The server dies in the middle of the request; its locks stay in Redis.
Crash(p) ==
  /\ InFlight(p)
  /\ Finish(p)
  /\ Faults(p)
  /\ UNCHANGED <<store, lockVars>>

-----------------------------------------------------------------------------
Arrival(p) ==
  \E b \in BookingIds :
    \/ \E d \in EventDates : CreateBooking(p, b, d)
    \/ ConfirmBooking(p, b)
    \/ CancelBooking(p, b)
    \/ \E d \in EventDates : RescheduleBooking(p, b, d)

\* The steps by which a running request goes on.
Progress(p) ==
  \/ Acquire(p) \/ AcquireFails(p) \/ CompareLock(p) \/ ReleaseLock(p)
  \/ CheckBanquet(p) \/ CheckAvailable(p) \/ CheckBooked(p)
  \/ InsertBooking(p) \/ SaveAuditEntry(p)
  \/ MarkDateUnavailable(p) \/ MarkDateAvailable(p)
  \/ SaveRescheduled(p) \/ SaveConfirmed(p) \/ SaveCancelled(p)

Fault(p) == DatabaseError(p) \/ Crash(p)

Environment ==
  /\ LockEnvironment
  /\ UNCHANGED <<store, pc, job, held, requests, history>>

Next ==
  \/ \E p \in Clients : Arrival(p) \/ Progress(p) \/ Fault(p)
  \/ Environment

Spec == Init /\ [][Next]_vars

\* The event loop runs every continuation that is ready.
FairSpec == Spec /\ \A p \in Clients : WF_vars(Progress(p))

-----------------------------------------------------------------------------
(* What executeWithLock is there for.                                      *)

\* The keys whose executeWithLock body p is running.
SectionKeys(p) == {KeyAt(p, n) : n \in 1..held[p]}

\* No two requests are inside executeWithLock for one key
\* (distributed-lock.service.ts:7, "locking for concurrency control").
LockExclusion ==
  \A p, q \in Clients : p # q => SectionKeys(p) \cap SectionKeys(q) = {}

-----------------------------------------------------------------------------
(* Properties.                                                             *)

\* Whatever the lock does and whatever crashes and fails, two active bookings share
\* a day only if requests raced for that day: two of them had both found it free
\* before either booked it, or a confirmation overtook a cancellation.
NoDoubleBooking ==
  \A b, c \in BookingIds :
    Active(b) /\ Active(c) /\ DayOf[bookings[b].date] = DayOf[bookings[c].date]
      => b = c \/ DayOf[bookings[b].date] \in raced

\* No running request will still write the availability of day x.
Settled(x) == \A p \in Clients : Working(p) => x \notin DaysOf(job[p])

\* The availability record of a day on which nothing is being written agrees with
\* the bookings, unless requests raced for the day, two of them worked at once on a
\* booking of that day, or one of its requests failed between two of its writes: the
\* order in which cancel and reschedule free the old day, take the new one and save
\* loses no mark, and what goes wrong on a day spoils no other.
AvailabilityAgrees ==
  \A x \in Days \ (raced \cup disturbed) :
    Settled(x) => (x \in unavailable <=> IsDateBooked(x))

\* However requests interleave, the save of one never takes back what another
\* wrote elsewhere in the document: audit entries stay, and the event date
\* changes only at the save of a reschedule.
SavesArePartial ==
  [][\A b \in BookingIds :
       bookings[b] # NoBooking =>
         /\ bookings[b].trail \subseteq bookings'[b].trail
         /\ bookings'[b].date # bookings[b].date =>
              \E p \in Clients : pc[p] = "move" /\ job[p].booking = b]_bookings

\* The audit trail accounts for the booking (README.md:148): its status was
\* recorded by the save that set it, and its creation as well unless a fault
\* fell between the two saves of createBooking.
AuditAccounts ==
  \A b \in BookingIds : bookings[b] # NoBooking =>
    LET trail == bookings[b].trail
        decided == trail \cap {"BOOKING_CONFIRMED", "BOOKING_CANCELLED"}
    IN /\ bookings[b].status = "PENDING" <=> decided = {}
       /\ bookings[b].status = "CONFIRMED" => "BOOKING_CONFIRMED" \in decided
       /\ bookings[b].status = "CANCELLED" => "BOOKING_CANCELLED" \in decided
       /\ \/ faulted \/ "BOOKING_CREATED" \in trail
          \/ \E p \in Clients : /\ InFlight(p)
                               /\ job[p].op = "create" /\ job[p].booking = b

\* Every request ends, whatever Redis, the database and the other requests do: one
\* that gets no lock is refused, through the finally of a lock it holds already.
RequestsEnd == \A p \in Clients : InFlight(p) ~> ~InFlight(p)

-----------------------------------------------------------------------------
(* Refinement.                                                             *)

calendar ==
  [b \in BookingIds |->
     IF bookings[b] = NoBooking THEN NoBooking
     ELSE [status |-> bookings[b].status, date |-> bookings[b].date]]

\* A request asks until its last write to the bookings, or until it is refused.
Asks(p) == Working(p) /\ ~(pc[p] \in {"trail", "mark"} /\ job[p].op = "create")

asked == [p \in Clients |-> IF Asks(p) THEN {job[p]} ELSE {}]
claimed == [p \in Clients |-> IF Claims(p) THEN {DayOf[job[p].date]} ELSE {}]

Calendar == INSTANCE BookingCalendar WITH
  Requests <- Job, calendar <- calendar, asked <- asked, claimed <- claimed

\* The requests, each of many steps and under no lock that excludes, look to the
\* clients like the three steps of BookingCalendar: asked, granted a day, done.
ImplementsCalendar == Calendar!Spec
=============================================================================
