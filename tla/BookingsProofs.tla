--------------------------- MODULE BookingsProofs ---------------------------
(***************************************************************************)
(* Theorems about Bookings, for every set of request slots, bookings and   *)
(* dates and every bound on the requests.                                  *)
(*                                                                         *)
(* The type invariant is not inductive by itself: a save rewrites fields   *)
(* of a document that must exist, and entering a lock frame must not nest  *)
(* deeper than the operation does.  TypeInv adds which operation can be at *)
(* which step (StepFits), that running requests hold real documents        *)
(* (DocumentsExist), and that an insert overwrites none (IdsAreFresh).     *)
(*                                                                         *)
(* On it rest, in this order: the audit trail (AuditInv); BookingCalendar  *)
(* (CalendarInv) and that the requests implement it; what follows for the  *)
(* bookings, that only days raced for are booked twice (RacesInv); the     *)
(* availability records (AvailabilityInv); and the rank that each request  *)
(* descends (Rank).                                                        *)
(***************************************************************************)
EXTENDS Bookings, TLAPS

\* The operations that pass through a step, and how many locks they hold there.
StepFits ==
  \A p \in Clients :
    LET op == job[p].op IN
    /\ pc[p] = "idle" => held[p] = 0
    /\ pc[p] = "acquire" => op \in {"create", "reschedule"} /\ held[p] < Frames(p)
    /\ pc[p] \in {"banquet", "insert", "trail"} => op = "create"
    /\ pc[p] \in {"available", "booked", "mark"} => op \in {"create", "reschedule"}
    /\ pc[p] = "free" => op \in {"cancel", "reschedule"}
    /\ pc[p] = "move" => op = "reschedule"
    /\ pc[p] \in {"confirm", "cancel"} => op = pc[p] /\ held[p] = 0
    /\ pc[p] \in {"unlock", "delete"} =>
         op \in {"create", "reschedule"} /\ held[p] \in 1..Frames(p)
    /\ pc[p] \notin {"idle", "acquire", "unlock", "delete"} =>
         held[p] = IF op \in {"create", "reschedule"} THEN Frames(p) ELSE 0

\* A request works on a document that is there, once it has read or inserted it.
DocumentsExist ==
  \A p \in Clients :
    InFlight(p) /\ (job[p].op # "create" \/ pc[p] = "trail")
      => bookings[job[p].booking] # NoBooking

\* Until it is inserted, a booking's id is known to nobody else.
IdsAreFresh ==
  \A p \in Clients :
    /\ job[p].op = "create"
    /\ pc[p] \in {"acquire", "banquet", "available", "booked", "insert"}
    => /\ bookings[job[p].booking] = NoBooking
       /\ \A q \in Clients : InFlight(q) /\ job[q].booking = job[p].booking => q = p

TypeInv == TypeOK /\ StepFits /\ DocumentsExist /\ IdsAreFresh

LEMMA TypeInvInit == Init => TypeInv
  <1> SUFFICES ASSUME Init PROVE TypeInv
    OBVIOUS
  <1> USE DEF Init, LockInit, InFlight
  <1>1. LockTypeOK
    BY DEF LockTypeOK
  <1>2. TypeOK
    <2>1. bookings \in [BookingIds -> Booking \cup {NoBooking}]
      OBVIOUS
    <2>2. job \in [Clients -> Job \cup {NoJob}]
      OBVIOUS
    <2>3. held \in [Clients -> 0..2] /\ requests \in Nat
      OBVIOUS
    <2>4. /\ pc \in [Clients -> Steps]
          /\ unavailable \in SUBSET Days
          /\ faulted \in BOOLEAN /\ raced \in SUBSET Days /\ disturbed \in SUBSET Days
      BY DEF Steps
    <2>5. QED
      BY <1>1, <2>1, <2>2, <2>3, <2>4 DEF TypeOK
  <1>3. StepFits /\ DocumentsExist /\ IdsAreFresh
    BY DEF StepFits, DocumentsExist, IdsAreFresh
  <1>4. QED
    BY <1>2, <1>3 DEF TypeInv

\* The step of a request to another step of the same operation.
LEMMA TypeInvArrival ==
  ASSUME TypeInv, NEW p \in Clients, Arrival(p)
  PROVE  TypeInv'
  <1> USE BookingsAssumptions DEF TypeInv, TypeOK, LockTypeOK, StepFits,
        DocumentsExist, IdsAreFresh, Steps, InFlight, Working, DaysOf, Accept, store,
        lockVars, Frames, Job
  <1>1. ASSUME NEW b \in BookingIds, NEW d \in EventDates, CreateBooking(p, b, d)
        PROVE  TypeInv'
    BY <1>1 DEF CreateBooking
  <1>2. ASSUME NEW b \in BookingIds, ConfirmBooking(p, b)
        PROVE  TypeInv'
    BY <1>2 DEF ConfirmBooking, Booking
  <1>3. ASSUME NEW b \in BookingIds, CancelBooking(p, b)
        PROVE  TypeInv'
    BY <1>3 DEF CancelBooking, Active, Booking
  <1>4. ASSUME NEW b \in BookingIds, NEW d \in EventDates, RescheduleBooking(p, b, d)
        PROVE  TypeInv'
    BY <1>4 DEF RescheduleBooking, Active, Booking
  <1>5. QED
    BY <1>1, <1>2, <1>3, <1>4 DEF Arrival

LEMMA TypeInvProgress ==
  ASSUME TypeInv, NEW p \in Clients, Progress(p)
  PROVE  TypeInv'
  <1> USE BookingsAssumptions DEF TypeInv, TypeOK, LockTypeOK, LockIds, StepFits,
        DocumentsExist, IdsAreFresh, Steps, InFlight, store, lockVars, history, Frames,
        Job, Goto
  <1>1. CASE Acquire(p)
    BY <1>1 DEF Acquire, AcquireLock, KeyAt
  <1>2. CASE AcquireFails(p)
    <2>1. KeyAt(p, held[p] + 1) \in LockKeys /\ <<p, held[p] + 1>> \in LockIds
      BY <1>2 DEF AcquireFails, KeyAt
    <2>2. LockTypeOK'
      BY <1>2, <2>1 DEF AcquireFails, AcquireLockFails
    <2>3. QED
      BY <1>2, <2>2 DEF AcquireFails, Finish
  <1>3. CASE CompareLock(p)
    BY <1>3 DEF CompareLock, LeaveFrame, Finish
  <1>4. CASE ReleaseLock(p)
    <2>1. pc[p] = "delete" /\ KeyAt(p, held[p]) \in LockKeys
      BY <1>4 DEF ReleaseLock, KeyAt
    <2>2. LockTypeOK'
      BY <1>4, <2>1 DEF ReleaseLock, DeleteLock
    <2>3. QED
      BY <1>4, <2>1, <2>2 DEF ReleaseLock, LeaveFrame, Finish
  <1>5. CASE CheckBanquet(p)
    BY <1>5 DEF CheckBanquet
  <1>6. CASE CheckAvailable(p)
    BY <1>6 DEF CheckAvailable
  <1>7. CASE CheckBooked(p)
    BY <1>7 DEF CheckBooked
  <1>8. CASE InsertBooking(p)
    BY <1>8 DEF InsertBooking, Booking, Statuses, AuditActions
  <1>9. CASE SaveAuditEntry(p)
    BY <1>9 DEF SaveAuditEntry, Booking, AuditActions
  <1>10. CASE MarkDateUnavailable(p)
    BY <1>10 DEF MarkDateUnavailable
  <1>11. CASE MarkDateAvailable(p)
    BY <1>11 DEF MarkDateAvailable
  <1>12. CASE SaveRescheduled(p)
    BY <1>12 DEF SaveRescheduled, Booking, AuditActions
  <1>13. CASE SaveConfirmed(p)
    BY <1>13 DEF SaveConfirmed, SaveStatus, Finish, Booking, Statuses, AuditActions
  <1>14. CASE SaveCancelled(p)
    BY <1>14 DEF SaveCancelled, SaveStatus, Finish, Booking, Statuses, AuditActions
  <1>15. QED
    BY <1>1, <1>2, <1>3, <1>4, <1>5, <1>6, <1>7, <1>8, <1>9, <1>10, <1>11,
       <1>12, <1>13, <1>14 DEF Progress

LEMMA TypeInvFault ==
  ASSUME TypeInv, NEW p \in Clients, Fault(p)
  PROVE  TypeInv'
  <1> USE BookingsAssumptions DEF TypeInv, TypeOK, LockTypeOK, StepFits,
        DocumentsExist, IdsAreFresh, Steps, InFlight, store, lockVars, Frames, Job, Finish,
        Faults, DaysOf
  <1>1. CASE DatabaseError(p)
    BY <1>1 DEF DatabaseError
  <1>2. CASE Crash(p)
    BY <1>2 DEF Crash
  <1>3. QED
    BY <1>1, <1>2 DEF Fault

LEMMA TypeInvEnvironment ==
  ASSUME TypeInv, Environment \/ UNCHANGED vars
  PROVE  TypeInv'
  <1>1. /\ LockTypeOK'
        /\ UNCHANGED <<bookings, unavailable, pc, job, held, requests, history>>
    BY DEF Environment, history, LockEnvironment, Expire, Connect, Disconnect, TypeInv,
       TypeOK, LockTypeOK, store, vars
  <1>2. TypeOK' /\ StepFits' /\ DocumentsExist' /\ IdsAreFresh'
    BY <1>1 DEF TypeInv, TypeOK, StepFits, DocumentsExist, IdsAreFresh,
       InFlight, Frames, history
  <1>3. QED
    BY <1>2 DEF TypeInv

LEMMA TypeInvNext == TypeInv /\ [Next]_vars => TypeInv'
  BY TypeInvArrival, TypeInvProgress, TypeInvFault, TypeInvEnvironment DEF Next

LEMMA TypeInvAlways == Spec => []TypeInv
  BY TypeInvInit, TypeInvNext, PTL DEF Spec

\* Every reachable state of the booking service is well typed: documents are
\* whole, lock frames nest at most two deep, a running request has its job.
THEOREM TypeCorrect == Spec => []TypeOK
  BY TypeInvAlways, PTL DEF TypeInv

-----------------------------------------------------------------------------
(* Saves of concurrent requests.                                           *)

LEMMA SavesArePartialStep ==
  ASSUME TypeInv, [Next]_vars, NEW b \in BookingIds, bookings[b] # NoBooking
  PROVE  /\ bookings[b].trail \subseteq bookings'[b].trail
         /\ bookings'[b].date # bookings[b].date =>
              \E p \in Clients : pc[p] = "move" /\ job[p].booking = b
  <1> DEFINE Partial ==
        /\ bookings[b].trail \subseteq bookings'[b].trail
        /\ bookings'[b].date # bookings[b].date =>
             \E p \in Clients : pc[p] = "move" /\ job[p].booking = b
  <1>1. ASSUME NEW p \in Clients, Arrival(p) PROVE Partial
    BY <1>1 DEF Arrival, CreateBooking, ConfirmBooking, CancelBooking,
         RescheduleBooking, Accept, store
  <1>2. ASSUME NEW p \in Clients, Fault(p) PROVE Partial
    BY <1>2 DEF Fault, DatabaseError, Crash, store
  <1>3. CASE Environment \/ UNCHANGED vars
    BY <1>3 DEF Environment, store, vars
  <1>4. ASSUME NEW p \in Clients, Progress(p) PROVE Partial
    <2> USE DEF TypeInv, TypeOK, Booking, Job, StepFits, InFlight, IdsAreFresh
    <2>1. CASE InsertBooking(p)
      BY <2>1 DEF InsertBooking
    <2>2. CASE SaveAuditEntry(p)
      BY <2>2 DEF SaveAuditEntry
    <2>3. CASE SaveRescheduled(p)
      BY <2>3 DEF SaveRescheduled
    <2>4. CASE SaveConfirmed(p) \/ SaveCancelled(p)
      BY <2>4 DEF SaveConfirmed, SaveCancelled, SaveStatus
    <2>5. CASE UNCHANGED bookings
      BY <2>5
    <2>6. QED
      BY <1>4, <2>1, <2>2, <2>3, <2>4, <2>5
      DEF Progress, Acquire, AcquireFails, CompareLock, ReleaseLock,
          CheckBanquet, CheckAvailable, CheckBooked, MarkDateUnavailable,
          MarkDateAvailable, store
  <1>5. QED
    BY <1>1, <1>2, <1>3, <1>4 DEF Next

\* No save of a request takes back what another request saved: audit entries
\* stay, and only the save of a reschedule changes an event date.
THEOREM SavesStayPartial == Spec => SavesArePartial
  <1>1. TypeInv /\ [Next]_vars =>
          [\A b \in BookingIds :
             bookings[b] # NoBooking =>
               /\ bookings[b].trail \subseteq bookings'[b].trail
               /\ bookings'[b].date # bookings[b].date =>
                    \E p \in Clients : pc[p] = "move" /\ job[p].booking = b]_bookings
    BY SavesArePartialStep
  <1>2. QED
    BY <1>1, TypeInvAlways, PTL DEF Spec, SavesArePartial


\* Nothing but the five saves writes a booking document.
LEMMA OnlySavesWrite ==
  ASSUME [Next]_vars
  PROVE  \/ UNCHANGED bookings
         \/ \E p \in Clients :
              \/ InsertBooking(p) \/ SaveAuditEntry(p) \/ SaveRescheduled(p)
              \/ SaveConfirmed(p) \/ SaveCancelled(p)
  <1>1. ASSUME NEW p \in Clients, Arrival(p) PROVE UNCHANGED bookings
    BY <1>1 DEF Arrival, CreateBooking, ConfirmBooking, CancelBooking,
         RescheduleBooking, Accept, store
  <1>2. ASSUME NEW p \in Clients, Fault(p) PROVE UNCHANGED bookings
    BY <1>2 DEF Fault, DatabaseError, Crash, store
  <1>3. CASE Environment \/ UNCHANGED vars
    BY <1>3 DEF Environment, store, vars
  <1>4. ASSUME NEW p \in Clients, Progress(p)
        PROVE  \/ UNCHANGED bookings
               \/ InsertBooking(p) \/ SaveAuditEntry(p) \/ SaveRescheduled(p)
               \/ SaveConfirmed(p) \/ SaveCancelled(p)
    BY <1>4 DEF Progress, Acquire, AcquireFails, CompareLock, ReleaseLock,
       CheckBanquet, CheckAvailable, CheckBooked, MarkDateUnavailable,
       MarkDateAvailable, store
  <1>5. QED
    BY <1>1, <1>2, <1>3, <1>4 DEF Next

\* An arrival fills one free slot, and leaves all documents and the other slots.
LEMMA ArrivalIsLocal ==
  ASSUME TypeInv, NEW p \in Clients, Arrival(p)
  PROVE  /\ pc[p] = "idle" /\ pc'[p] \in {"acquire", "confirm", "free"}
         /\ job'[p] \in Job
         /\ \A q \in Clients : q # p => pc'[q] = pc[q] /\ job'[q] = job[q]
         /\ UNCHANGED <<bookings, unavailable, faulted, raced>>
         /\ disturbed \subseteq disturbed'
  <1>1. PICK step \in {"acquire", "confirm", "free"}, j \in Job : Accept(p, step, j)
    <2>1. ASSUME NEW b \in BookingIds, NEW d \in EventDates, CreateBooking(p, b, d)
          PROVE  \E step \in {"acquire", "confirm", "free"}, j \in Job : Accept(p, step, j)
      BY <2>1 DEF CreateBooking, Job
    <2>2. ASSUME NEW b \in BookingIds, ConfirmBooking(p, b) \/ CancelBooking(p, b)
          PROVE  \E step \in {"acquire", "confirm", "free"}, j \in Job : Accept(p, step, j)
      <3>1. bookings[b].date \in EventDates
        BY <2>2 DEF ConfirmBooking, CancelBooking, Active, TypeInv, TypeOK, Booking
      <3>2. QED
        BY <2>2, <3>1 DEF ConfirmBooking, CancelBooking, Job
    <2>3. ASSUME NEW b \in BookingIds, NEW d \in EventDates, RescheduleBooking(p, b, d)
          PROVE  \E step \in {"acquire", "confirm", "free"}, j \in Job : Accept(p, step, j)
      <3>1. bookings[b].date \in EventDates
        BY <2>3 DEF RescheduleBooking, Active, TypeInv, TypeOK, Booking
      <3>2. QED
        BY <2>3, <3>1 DEF RescheduleBooking, Job
    <2>4. QED
      BY <2>1, <2>2, <2>3 DEF Arrival
  <1>2. /\ pc[p] = "idle" /\ pc' = [pc EXCEPT ![p] = step] /\ job' = [job EXCEPT ![p] = j]
        /\ UNCHANGED <<bookings, unavailable, faulted, raced>>
        /\ disturbed \subseteq disturbed'
    BY <1>1 DEF Accept, store
  <1>3. pc \in [Clients -> Steps] /\ job \in [Clients -> Job \cup {NoJob}]
    BY DEF TypeInv, TypeOK
  <1>4. QED
    BY <1>2, <1>3

\* A step of one request leaves the others', and all documents but its own.
LEMMA StepIsLocal ==
  ASSUME TypeInv, NEW p \in Clients, Progress(p)
  PROVE  /\ InFlight(p) /\ job[p] \in Job
         /\ \A q \in Clients : q # p => pc'[q] = pc[q] /\ job'[q] = job[q]
         /\ pc'[p] = "idle" \/ job'[p] = job[p]
         /\ \A c \in BookingIds : c # job[p].booking => bookings'[c] = bookings[c]
         /\ UNCHANGED <<faulted, disturbed>> /\ raced \subseteq raced'
  <1> USE DEF TypeInv, TypeOK, InFlight
  <1>1. /\ pc[p] # "idle"
        /\ UNCHANGED <<faulted, disturbed>> /\ raced \subseteq raced'
    BY DEF history, Progress, Acquire, AcquireFails, CompareLock, ReleaseLock,
       CheckBanquet, CheckAvailable, CheckBooked, InsertBooking, SaveAuditEntry,
       MarkDateUnavailable, MarkDateAvailable, SaveRescheduled, SaveConfirmed,
       SaveCancelled, Goto
  <1>2. /\ \A q \in Clients : q # p => pc'[q] = pc[q] /\ job'[q] = job[q]
        /\ pc'[p] = "idle" \/ job'[p] = job[p]
    BY DEF Progress, Acquire, AcquireFails, CompareLock, ReleaseLock,
       CheckBanquet, CheckAvailable, CheckBooked, InsertBooking, SaveAuditEntry,
       MarkDateUnavailable, MarkDateAvailable, SaveRescheduled, SaveConfirmed,
       SaveCancelled, Goto, Finish, LeaveFrame
  <1>3. \A c \in BookingIds : c # job[p].booking => bookings'[c] = bookings[c]
    BY DEF Progress, Acquire, AcquireFails, CompareLock, ReleaseLock,
       CheckBanquet, CheckAvailable, CheckBooked, InsertBooking, SaveAuditEntry,
       MarkDateUnavailable, MarkDateAvailable, SaveRescheduled, SaveConfirmed,
       SaveCancelled, SaveStatus, store
  <1>4. QED
    BY <1>1, <1>2, <1>3

\* A fault ends or unwinds one request, and leaves all documents and the others.
LEMMA FaultIsLocal ==
  ASSUME TypeInv, NEW p \in Clients, Fault(p)
  PROVE  /\ InFlight(p) /\ job[p] \in Job
         /\ \A q \in Clients : q # p => pc'[q] = pc[q] /\ job'[q] = job[q]
         /\ pc'[p] = "idle" \/ (pc'[p] = "unlock" /\ job'[p] = job[p])
         /\ UNCHANGED <<bookings, unavailable, raced>> /\ faulted'
         /\ disturbed \subseteq disturbed'
         /\ HalfWritten(p) => DaysOf(job[p]) \subseteq disturbed'
  <1>1. pc[p] # "idle" /\ Faults(p) /\ UNCHANGED <<bookings, unavailable>>
    BY DEF Fault, DatabaseError, Crash, InFlight, store
  <1>2. /\ \A q \in Clients : q # p => pc'[q] = pc[q] /\ job'[q] = job[q]
        /\ pc'[p] = "idle" \/ (pc'[p] = "unlock" /\ job'[p] = job[p])
    <2>1. \/ Finish(p)
          \/ (pc' = [pc EXCEPT ![p] = "unlock"] /\ UNCHANGED job)
      BY DEF Fault, DatabaseError, Crash
    <2>2. pc \in [Clients -> Steps] /\ job \in [Clients -> Job \cup {NoJob}]
      BY DEF TypeInv, TypeOK
    <2>3. QED
      BY <2>1, <2>2 DEF Finish
  <1>3. job[p] \in Job
    BY <1>1 DEF TypeInv, TypeOK
  <1>4. QED
    BY <1>1, <1>2, <1>3 DEF Faults, InFlight

-----------------------------------------------------------------------------
-----------------------------------------------------------------------------
(* The audit trail.  AuditAccounts lets a missing creation entry be owed   *)
(* by any create in flight; inductive is that it is owed by the request    *)
(* that stands between the two saves of createBooking.                     *)

\* The save that set the status of a booking recorded it in the trail.
StatusRecorded(b) ==
  LET decided == bookings[b].trail \cap {"BOOKING_CONFIRMED", "BOOKING_CANCELLED"}
  IN /\ bookings[b].status = "PENDING" <=> decided = {}
     /\ bookings[b].status = "CONFIRMED" => "BOOKING_CONFIRMED" \in decided
     /\ bookings[b].status = "CANCELLED" => "BOOKING_CANCELLED" \in decided

\* The creation is recorded, or about to be, or a fault has intervened.
CreationRecorded(b) ==
  \/ faulted
  \/ "BOOKING_CREATED" \in bookings[b].trail
  \/ \E p \in Clients :
       pc[p] = "trail" /\ job[p].op = "create" /\ job[p].booking = b

AuditInv ==
  \A b \in BookingIds :
    bookings[b] # NoBooking => StatusRecorded(b) /\ CreationRecorded(b)

\* A fault is never forgotten.
LEMMA FaultsLast == TypeInv /\ [Next]_vars => (faulted => faulted')
  BY ArrivalIsLocal, StepIsLocal, FaultIsLocal DEF Next, Environment, history, vars

LEMMA StatusRecordedNext ==
  ASSUME TypeInv, AuditInv, [Next]_vars,
         NEW b \in BookingIds, bookings'[b] # NoBooking
  PROVE  StatusRecorded(b)'
  <1> USE DEF TypeInv, TypeOK, AuditInv, StatusRecorded
  <1>1. CASE bookings'[b] = bookings[b]
    BY <1>1
  <1>2. ASSUME NEW p \in Clients, bookings'[b] # bookings[b],
               \/ InsertBooking(p) \/ SaveAuditEntry(p) \/ SaveRescheduled(p)
               \/ SaveConfirmed(p) \/ SaveCancelled(p)
        PROVE  StatusRecorded(b)'
    <2>1. job[p].booking = b /\ job[p] \in Job /\ InFlight(p)
      BY <1>2 DEF InsertBooking, SaveAuditEntry, SaveRescheduled, SaveConfirmed,
         SaveCancelled, SaveStatus, InFlight
    <2>2. CASE InsertBooking(p)
      BY <2>1, <2>2 DEF InsertBooking
    <2>3. ASSUME ~InsertBooking(p) PROVE bookings[b] \in Booking
      BY <1>2, <2>1, <2>3 DEF SaveAuditEntry, SaveRescheduled, SaveConfirmed,
         SaveCancelled, StepFits, DocumentsExist
    <2>4. CASE SaveAuditEntry(p) \/ SaveRescheduled(p)
      <3>1. /\ bookings[b] \in Booking /\ bookings[b] # NoBooking
            /\ bookings'[b].status = bookings[b].status
        BY <2>1, <2>3, <2>4, BookingsAssumptions
        DEF SaveAuditEntry, SaveRescheduled, InsertBooking, Booking
      <3>2. \E action \in {"BOOKING_CREATED", "BOOKING_RESCHEDULED"} :
              bookings'[b].trail = bookings[b].trail \cup {action}
        BY <2>1, <2>4, <3>1 DEF SaveAuditEntry, SaveRescheduled, Booking
      <3>3. bookings'[b].trail \cap {"BOOKING_CONFIRMED", "BOOKING_CANCELLED"}
              = bookings[b].trail \cap {"BOOKING_CONFIRMED", "BOOKING_CANCELLED"}
        BY <3>2
      <3>4. QED
        BY <3>1, <3>3
    <2>5. CASE SaveConfirmed(p)
      BY <2>1, <2>3, <2>5, BookingsAssumptions
      DEF SaveConfirmed, SaveStatus, InsertBooking, Booking
    <2>6. CASE SaveCancelled(p)
      BY <2>1, <2>3, <2>6, BookingsAssumptions
      DEF SaveCancelled, SaveStatus, InsertBooking, Booking
    <2>7. QED
      BY <1>2, <2>2, <2>4, <2>5, <2>6
  <1>3. QED
    BY <1>1, <1>2, OnlySavesWrite

LEMMA CreationRecordedNext ==
  ASSUME TypeInv, AuditInv, [Next]_vars,
         NEW b \in BookingIds, bookings'[b] # NoBooking
  PROVE  CreationRecorded(b)'
  <1> USE DEF TypeInv, TypeOK, AuditInv, CreationRecorded
  <1>1. CASE bookings[b] = NoBooking
    <2>1. PICK p \in Clients : InsertBooking(p) /\ job[p].booking = b
      <3>1. PICK p \in Clients :
              \/ InsertBooking(p) \/ SaveAuditEntry(p) \/ SaveRescheduled(p)
              \/ SaveConfirmed(p) \/ SaveCancelled(p)
        BY <1>1, OnlySavesWrite
      <3>2. job[p].booking = b
        BY <1>1, <3>1 DEF InsertBooking, SaveAuditEntry, SaveRescheduled,
           SaveConfirmed, SaveCancelled, SaveStatus
      <3>3. InsertBooking(p) \/ bookings[b] # NoBooking
        BY <3>1, <3>2 DEF SaveAuditEntry, SaveRescheduled, SaveConfirmed,
           SaveCancelled, StepFits, DocumentsExist, InFlight
      <3>4. QED
        BY <1>1, <3>2, <3>3
    <2>2. pc'[p] = "trail" /\ job'[p] = job[p] /\ job[p].op = "create"
      BY <2>1 DEF InsertBooking, Goto, StepFits
    <2>3. QED
      BY <2>1, <2>2
  <1>2. CASE bookings[b] # NoBooking
    <2>1. bookings[b].trail \subseteq bookings'[b].trail
      BY <1>2, SavesArePartialStep
    <2>2. faulted => faulted'
      BY FaultsLast
    <2>3. ASSUME NEW p \in Clients, pc[p] = "trail", job[p].booking = b
          PROVE  \/ faulted'
                 \/ "BOOKING_CREATED" \in bookings'[b].trail
                 \/ pc'[p] = "trail" /\ job'[p] = job[p]
      <3>1. CASE SaveAuditEntry(p)
        BY <1>2, <2>3, <3>1 DEF SaveAuditEntry, Booking
      <3>2. ASSUME NEW q \in Clients, Fault(q) PROVE faulted'
        BY <3>2 DEF Fault, DatabaseError, Crash, Faults
      <3>3. ASSUME NEW q \in Clients, Arrival(q)
            PROVE  pc'[p] = "trail" /\ job'[p] = job[p]
        BY <2>3, <3>3, ArrivalIsLocal
      <3>4. ASSUME NEW q \in Clients, Progress(q), ~SaveAuditEntry(p)
            PROVE  pc'[p] = "trail" /\ job'[p] = job[p]
        <4>1. q # p
          BY <2>3, <3>4 DEF Progress, Acquire, AcquireFails, CompareLock,
             ReleaseLock, CheckBanquet, CheckAvailable, CheckBooked,
             InsertBooking, MarkDateUnavailable, MarkDateAvailable,
             SaveRescheduled, SaveConfirmed, SaveCancelled
        <4>2. QED
          BY <2>3, <3>4, <4>1 DEF Progress, Acquire, AcquireFails, CompareLock,
             ReleaseLock, CheckBanquet, CheckAvailable, CheckBooked,
             InsertBooking, SaveAuditEntry, MarkDateUnavailable,
             MarkDateAvailable, SaveRescheduled, SaveConfirmed, SaveCancelled,
             Goto, Finish, LeaveFrame
      <3>5. CASE Environment \/ UNCHANGED vars
        BY <2>3, <3>5 DEF Environment, vars
      <3>6. QED
        BY <3>1, <3>2, <3>3, <3>4, <3>5 DEF Next
    <2>4. QED
      BY <1>2, <2>1, <2>2, <2>3
  <1>3. QED
    BY <1>1, <1>2

\* However requests interleave, fail and crash, the trail of a booking accounts
\* for its status, and for its creation unless a fault fell between two saves.
THEOREM TrailsAccount == Spec => []AuditAccounts
  <1>1. Init => AuditInv
    BY DEF Init, AuditInv
  <1>2. TypeInv /\ AuditInv /\ [Next]_vars => AuditInv'
    BY StatusRecordedNext, CreationRecordedNext DEF AuditInv
  <1>3. AuditInv => AuditAccounts
    BY DEF AuditInv, StatusRecorded, CreationRecorded, AuditAccounts, InFlight
  <1>4. QED
    BY TypeInvAlways, <1>1, <1>2, <1>3, PTL DEF Spec

(* What BookingCalendar promises of itself: whatever the requests ask, two *)
(* bookings meet on a day only if it was raced for, because a granted day  *)
(* stays free, and granted to no other request, until it is raced for.     *)

CalendarInv ==
  /\ calendar \in [BookingIds -> Calendar!Entry \cup {NoBooking}]
  /\ asked \in [Clients -> SUBSET Job]
  /\ claimed \in [Clients -> SUBSET Days]
  /\ \A p \in Clients : \A r \in asked[p] :
       r.op # "create" => calendar[r.booking] # NoBooking
  /\ Calendar!OnePerDay
  /\ Calendar!GrantsHold

LEMMA EntriesAreBookings == NoBooking \notin Calendar!Entry
  BY BookingsAssumptions DEF Calendar!Entry, Statuses

\* A decision that writes entry e for b: an active one is on the day the booking
\* was on, on the day granted to the request, or on a day raced for.
LEMMA CalendarWrite ==
  ASSUME CalendarInv, NEW p \in Clients, NEW b \in BookingIds, NEW e \in Calendar!Entry,
         calendar' = [calendar EXCEPT ![b] = e],
         Calendar!Decide(p), raced \subseteq raced',
         e.status \in ActiveStatuses =>
           \/ Calendar!Taken(b) /\ DayOf[e.date] = DayOf[calendar[b].date]
           \/ DayOf[e.date] \in claimed[p]
           \/ DayOf[e.date] \in raced'
  PROVE  CalendarInv'
  <1> USE DEF CalendarInv
  <1>1. /\ calendar'[b] = e /\ e # NoBooking
        /\ \A c \in BookingIds : c # b => calendar'[c] = calendar[c]
    BY EntriesAreBookings
  <1>2. /\ claimed'[p] = {} /\ asked'[p] = {}
        /\ \A q \in Clients : q # p => claimed'[q] = claimed[q] /\ asked'[q] = asked[q]
        /\ asked' \in [Clients -> SUBSET Job] /\ claimed' \in [Clients -> SUBSET Days]
    BY DEF Calendar!Decide
  <1>3. /\ \A c \in BookingIds : c # b => (Calendar!Taken(c)' <=> Calendar!Taken(c))
        /\ Calendar!Taken(b)' => e.status \in ActiveStatuses
    BY <1>1 DEF Calendar!Taken, ActiveStatuses
  <1>4. Calendar!OnePerDay'
    <2> SUFFICES ASSUME NEW c \in BookingIds, NEW d \in BookingIds, c # d, d # b,
                        Calendar!Taken(c)', Calendar!Taken(d)',
                        DayOf[calendar'[c].date] = DayOf[calendar'[d].date]
                 PROVE  DayOf[calendar'[c].date] \in raced'
      BY DEF Calendar!OnePerDay
    <2>1. Calendar!Taken(d) /\ calendar'[d] = calendar[d]
      BY <1>1, <1>3
    <2>2. CASE c # b
      BY <1>1, <1>3, <2>1, <2>2 DEF Calendar!OnePerDay
    <2>3. CASE c = b
      <3>1. DayOf[e.date] = DayOf[calendar[d].date] /\ e.status \in ActiveStatuses
        BY <1>1, <1>3, <2>1, <2>3
      <3>2. CASE Calendar!Taken(b) /\ DayOf[e.date] = DayOf[calendar[b].date]
        BY <1>1, <2>1, <2>3, <3>1, <3>2 DEF Calendar!OnePerDay
      <3>3. CASE DayOf[e.date] \in claimed[p]
        BY <1>1, <2>1, <2>3, <3>1, <3>3 DEF Calendar!GrantsHold, Calendar!Free
      <3>4. QED
        BY <1>1, <2>3, <3>1, <3>2, <3>3
    <2>4. QED
      BY <2>2, <2>3
  <1>5. Calendar!GrantsHold'
    <2> SUFFICES ASSUME NEW q \in Clients, NEW x \in claimed'[q] \ raced'
                 PROVE  /\ Calendar!Free(x)'
                        /\ \A s \in Clients : s # q => x \notin claimed'[s]
      BY DEF Calendar!GrantsHold
    <2>1. q # p /\ x \in claimed[q] \ raced
      BY <1>2
    <2>2. Calendar!Free(x) /\ \A s \in Clients : s # q => x \notin claimed[s]
      BY <2>1 DEF Calendar!GrantsHold
    <2>3. ASSUME NEW c \in BookingIds, Calendar!Taken(c)'
          PROVE  DayOf[calendar'[c].date] # x
      BY <1>1, <1>3, <2>1, <2>2, <2>3 DEF Calendar!Free
    <2>4. QED
      BY <1>2, <2>2, <2>3 DEF Calendar!Free
  <1>6. ASSUME NEW q \in Clients, NEW r \in asked'[q], r.op # "create"
        PROVE  calendar'[r.booking] # NoBooking
    <2>1. r \in asked[q] /\ r \in Job
      BY <1>2, <1>6
    <2>2. QED
      BY <1>1, <1>6, <2>1 DEF Job
  <1>7. QED
    BY <1>2, <1>4, <1>5, <1>6

LEMMA CalendarGrant ==
  ASSUME CalendarInv, NEW p \in Clients, NEW r \in asked[p], Calendar!Grant(p, r)
  PROVE  CalendarInv'
  <1> DEFINE x == DayOf[r.date]
  <1> USE DEF CalendarInv
  <1>1. /\ x \in Days /\ Calendar!Free(x) /\ claimed' = [claimed EXCEPT ![p] = {x}]
        /\ raced' = raced \cup {y \in {x} : \E q \in Clients : y \in claimed[q]}
        /\ UNCHANGED <<calendar, asked>>
    BY BookingsAssumptions DEF Calendar!Grant, Job
  <1>2. Calendar!OnePerDay' /\ \A y : Calendar!Free(y)' <=> Calendar!Free(y)
    BY <1>1 DEF Calendar!OnePerDay, Calendar!Free, Calendar!Taken
  <1>3. Calendar!GrantsHold'
    <2> SUFFICES ASSUME NEW q \in Clients, NEW y \in claimed'[q] \ raced'
                 PROVE  /\ Calendar!Free(y)'
                        /\ \A s \in Clients : s # q => y \notin claimed'[s]
      BY DEF Calendar!GrantsHold
    <2>1. y = x => \A s \in Clients : y \notin claimed[s]
      BY <1>1
    <2>2. QED
      BY <1>1, <1>2, <2>1 DEF Calendar!GrantsHold
  <1>4. QED
    BY <1>1, <1>2, <1>3

LEMMA CalendarInvNext ==
  ASSUME CalendarInv, [Calendar!Next]_Calendar!calendarVars
  PROVE  CalendarInv'
  <1>1. CASE UNCHANGED Calendar!calendarVars
    BY <1>1 DEF CalendarInv, Calendar!calendarVars, Calendar!OnePerDay,
       Calendar!GrantsHold, Calendar!Free, Calendar!Taken
  <1>2. ASSUME NEW p \in Clients, NEW r \in Job, Calendar!Ask(p, r) PROVE CalendarInv'
    <2>1. /\ UNCHANGED <<calendar, claimed, raced>>
          /\ asked' = [asked EXCEPT ![p] = {r}]
          /\ r.op # "create" => calendar[r.booking] # NoBooking
      BY <1>2 DEF Calendar!Ask, Calendar!Allowed, Calendar!Taken
    <2>2. Calendar!OnePerDay' /\ Calendar!GrantsHold'
      BY <2>1 DEF CalendarInv, Calendar!OnePerDay, Calendar!GrantsHold, Calendar!Free,
         Calendar!Taken
    <2>3. QED
      BY <2>1, <2>2 DEF CalendarInv
  <1>3. ASSUME NEW p \in Clients, Calendar!Drop(p) PROVE CalendarInv'
    <2>1. /\ UNCHANGED <<calendar, raced>>
          /\ asked' = [asked EXCEPT ![p] = {}] /\ claimed' = [claimed EXCEPT ![p] = {}]
      BY <1>3 DEF Calendar!Drop, Calendar!Decide
    <2>2. Calendar!OnePerDay' /\ Calendar!GrantsHold'
      BY <2>1 DEF CalendarInv, Calendar!OnePerDay, Calendar!GrantsHold, Calendar!Free,
         Calendar!Taken
    <2>3. QED
      BY <2>1, <2>2 DEF CalendarInv
  <1>4. ASSUME NEW p \in Clients, NEW r \in asked[p],
               \/ Calendar!Book(p, r) \/ Calendar!Reschedule(p, r)
               \/ Calendar!Confirm(p, r) \/ Calendar!Cancel(p, r)
        PROVE  CalendarInv'
    <2>1. r \in Job /\ r.booking \in BookingIds /\ r.date \in EventDates
      BY DEF CalendarInv, Job
    <2>2. CASE Calendar!Book(p, r)
      <3>1. [status |-> "PENDING", date |-> r.date] \in Calendar!Entry
        BY <2>1 DEF Calendar!Entry
      <3>2. QED
        BY <2>1, <2>2, <3>1, CalendarWrite DEF Calendar!Book
    <2>3. ASSUME ~Calendar!Book(p, r)
          PROVE  calendar[r.booking] \in Calendar!Entry
      BY <1>4, <2>1, <2>3 DEF CalendarInv, Calendar!Reschedule, Calendar!Confirm,
         Calendar!Cancel
    <2>4. CASE Calendar!Reschedule(p, r) /\ ~Calendar!Book(p, r)
      <3> DEFINE e == [calendar[r.booking] EXCEPT !.date = IF r.date = r.old THEN @ ELSE r.date]
      <3>1. e \in Calendar!Entry /\ e.status = calendar[r.booking].status
        BY <2>1, <2>3, <2>4 DEF Calendar!Entry
      <3>2. e.date = calendar[r.booking].date \/ e.date = r.date
        BY <2>3, <2>4 DEF Calendar!Entry
      <3>3. e.status \in ActiveStatuses => Calendar!Taken(r.booking)
        BY <2>3, <2>4, <3>1, EntriesAreBookings DEF Calendar!Taken, ActiveStatuses
      <3>4. calendar' = [calendar EXCEPT ![r.booking] = e]
        BY <2>4 DEF Calendar!Reschedule
      <3>5. Calendar!Decide(p) /\ UNCHANGED raced /\ DayOf[r.date] \in claimed[p]
        BY <2>4 DEF Calendar!Reschedule
      <3> HIDE DEF e
      <3>6. QED
        BY <2>1, <3>1, <3>2, <3>3, <3>4, <3>5, CalendarWrite
    <2>5. CASE Calendar!Confirm(p, r) /\ ~Calendar!Book(p, r)
      <3> DEFINE e == [calendar[r.booking] EXCEPT !.status = "CONFIRMED"]
      <3>1. e \in Calendar!Entry /\ e.date = calendar[r.booking].date
        BY <2>3, <2>5 DEF Calendar!Entry
      <3>2. /\ calendar' = [calendar EXCEPT ![r.booking] = e] /\ Calendar!Decide(p)
            /\ raced \subseteq raced'
            /\ Calendar!Taken(r.booking) \/ DayOf[e.date] \in raced'
        BY <2>5, <3>1 DEF Calendar!Confirm
      <3> HIDE DEF e
      <3>3. QED
        BY <2>1, <3>1, <3>2, CalendarWrite
    <2>6. CASE Calendar!Cancel(p, r) /\ ~Calendar!Book(p, r)
      <3> DEFINE e == [calendar[r.booking] EXCEPT !.status = "CANCELLED"]
      <3>1. e \in Calendar!Entry /\ e.status \notin ActiveStatuses
        BY <2>3, <2>6 DEF Calendar!Entry, ActiveStatuses
      <3>2. /\ calendar' = [calendar EXCEPT ![r.booking] = e] /\ Calendar!Decide(p)
            /\ UNCHANGED raced
        BY <2>6 DEF Calendar!Cancel
      <3> HIDE DEF e
      <3>3. QED
        BY <2>1, <3>1, <3>2, CalendarWrite
    <2>7. QED
      BY <1>4, <2>2, <2>4, <2>5, <2>6
  <1>5. QED
    BY <1>1, <1>2, <1>3, <1>4, CalendarGrant DEF Calendar!Next

LEMMA CalendarInvAlways == Calendar!Spec => []CalendarInv
  <1>1. Calendar!Init => CalendarInv
    <2> SUFFICES ASSUME Calendar!Init PROVE CalendarInv
      OBVIOUS
    <2>1. /\ asked = [p \in Clients |-> {}] /\ claimed = [p \in Clients |-> {}]
          /\ calendar \in [BookingIds -> Calendar!Entry \cup {NoBooking}]
          /\ Calendar!OnePerDay
      BY DEF Calendar!Init
    <2>2. QED
      BY <2>1 DEF CalendarInv, Calendar!GrantsHold
  <1>2. QED
    BY <1>1, CalendarInvNext, PTL DEF Calendar!Spec

\* What the abstract specification is worth, of any calendar that it describes: two
\* active bookings are on one day only if that day was raced for, and a day granted
\* to a request is free and granted to no other, unless it was raced for.
THEOREM CalendarKeepsDaysApart ==
  Calendar!Spec => [](Calendar!OnePerDay /\ Calendar!GrantsHold)
  BY CalendarInvAlways, PTL DEF CalendarInv

-----------------------------------------------------------------------------
(* Refinement of BookingCalendar.  A request arrives asking, is granted    *)
(* its day when it has found no booking on it, and is decided by its       *)
(* insert or its last save; every refusal and every fault drops it.        *)

\* A document and its calendar entry.
LEMMA CalendarEntry ==
  ASSUME NEW b \in BookingIds
  PROVE  /\ calendar[b] = IF bookings[b] = NoBooking THEN NoBooking
                          ELSE [status |-> bookings[b].status,
                                date |-> bookings[b].date]
         /\ calendar'[b] = IF bookings'[b] = NoBooking THEN NoBooking
                           ELSE [status |-> bookings'[b].status,
                                 date |-> bookings'[b].date]
  BY DEF calendar

\* The calendar and the documents agree on which bookings are active and on
\* which days are free.
LEMMA CalendarTaken ==
  ASSUME TypeInv
  PROVE  /\ \A b \in BookingIds : /\ calendar[b] = NoBooking <=> bookings[b] = NoBooking
                                  /\ Calendar!Taken(b) <=> Active(b)
                                  /\ Active(b) =>
                                       /\ calendar[b].date = bookings[b].date
                                       /\ calendar[b].status = bookings[b].status
         /\ \A x : Calendar!Free(x) <=> ~IsDateBooked(x)
  <1>1. ASSUME NEW b \in BookingIds
        PROVE  /\ calendar[b] = NoBooking <=> bookings[b] = NoBooking
               /\ Calendar!Taken(b) <=> Active(b)
    <2>1. ASSUME NEW s \in Statuses, NEW d \in EventDates
          PROVE  [status |-> s, date |-> d] # NoBooking
      BY BookingsAssumptions
    <2>2. CASE bookings[b] = NoBooking
      <3>1. calendar[b] = NoBooking
        BY <2>2, CalendarEntry
      <3>2. QED
        BY <2>2, <3>1 DEF Calendar!Taken, Active
    <2>3. CASE bookings[b] # NoBooking
      <3>1. bookings[b].status \in Statuses /\ bookings[b].date \in EventDates
        BY <2>3 DEF TypeInv, TypeOK, Booking
      <3>2. calendar[b] = [status |-> bookings[b].status, date |-> bookings[b].date]
        BY <2>3, CalendarEntry
      <3>3. calendar[b] # NoBooking /\ calendar[b].status = bookings[b].status
        BY <2>1, <3>1, <3>2
      <3>4. QED
        BY <2>3, <3>3 DEF Calendar!Taken, Active, ActiveStatuses
    <2>4. QED
      BY <2>2, <2>3
  <1>2. ASSUME NEW b \in BookingIds, Active(b)
        PROVE  /\ calendar[b].date = bookings[b].date
               /\ calendar[b].status = bookings[b].status
    <2>1. bookings[b] # NoBooking
      BY <1>2 DEF Active
    <2>2. calendar[b] = [status |-> bookings[b].status, date |-> bookings[b].date]
      BY <2>1, CalendarEntry
    <2>3. QED
      BY <2>2
  <1>3. ASSUME NEW x PROVE Calendar!Free(x) <=> ~IsDateBooked(x)
    <2>1. Calendar!Free(x) <=>
            \A b \in BookingIds : Active(b) => DayOf[calendar[b].date] # x
      BY <1>1 DEF Calendar!Free
    <2>2. ~IsDateBooked(x) <=>
            \A b \in BookingIds : Active(b) => DayOf[bookings[b].date] # x
      BY DEF IsDateBooked
    <2>3. QED
      BY <1>2, <2>1, <2>2
  <1>4. QED
    BY <1>1, <1>2, <1>3

\* What a step of p alone makes of the requests as the calendar sees them.
LEMMA RequestsView ==
  ASSUME NEW p \in Clients,
         \A q \in Clients : q # p => pc'[q] = pc[q] /\ job'[q] = job[q]
  PROVE  /\ asked' = [asked EXCEPT ![p] = IF Asks(p)' THEN {job'[p]} ELSE {}]
         /\ claimed' = [claimed EXCEPT ![p] = IF Claims(p)' THEN {DayOf[job'[p].date]} ELSE {}]
         /\ asked[p] = IF Asks(p) THEN {job[p]} ELSE {}
         /\ claimed[p] = IF Claims(p) THEN {DayOf[job[p].date]} ELSE {}
  <1>1. \A q \in Clients : q # p =>
          (Asks(q)' <=> Asks(q)) /\ (Claims(q)' <=> Claims(q)) /\ job'[q] = job[q]
    BY DEF Asks, Working, Claims
  <1>2. QED
    BY <1>1 DEF asked, claimed

\* A step at which p neither starts nor ceases to ask or to claim.
LEMMA QuietStep ==
  ASSUME TypeInv, NEW p \in Clients, Progress(p) \/ Fault(p),
         Asks(p)' <=> Asks(p), Claims(p)' <=> Claims(p),
         UNCHANGED <<calendar, raced>>
  PROVE  UNCHANGED Calendar!calendarVars
  <1>1. /\ \A q \in Clients : q # p => pc'[q] = pc[q] /\ job'[q] = job[q]
        /\ pc'[p] = "idle" \/ job'[p] = job[p]
    BY StepIsLocal, FaultIsLocal
  <1>2. pc'[p] = "idle" => ~Asks(p)' /\ ~Claims(p)'
    BY DEF Asks, Working, Claims
  <1>3. UNCHANGED <<asked[p], claimed[p]>>
    BY <1>1, <1>2 DEF asked, claimed
  <1>4. \A q \in Clients : UNCHANGED <<asked[q], claimed[q]>>
    <2> TAKE q \in Clients
    <2>1. CASE q = p
      BY <1>3, <2>1
    <2>2. CASE q # p
      BY <1>1, <2>2 DEF asked, claimed, Asks, Working, Claims
    <2>3. QED
      BY <2>1, <2>2
  <1>5. UNCHANGED <<asked, claimed>>
    BY <1>4 DEF asked, claimed
  <1>6. QED
    BY <1>5 DEF Calendar!calendarVars

\* The end of a request that was still asking.
LEMMA Decided ==
  ASSUME TypeInv, NEW p \in Clients, Progress(p) \/ Fault(p), Asks(p), ~Asks(p)', ~Claims(p)'
  PROVE  Calendar!Decide(p) /\ asked[p] = {job[p]}
  <1>1. \A q \in Clients : q # p => pc'[q] = pc[q] /\ job'[q] = job[q]
    BY StepIsLocal, FaultIsLocal
  <1>2. QED
    BY <1>1, RequestsView DEF Calendar!Decide

LEMMA ArrivalAsks ==
  ASSUME TypeInv, NEW p \in Clients, Arrival(p)
  PROVE  Calendar!Next
  <1> DEFINE j == job'[p]
  <1>1. /\ pc[p] = "idle" /\ pc'[p] \in {"acquire", "confirm", "free"} /\ j \in Job
        /\ \A q \in Clients : q # p => pc'[q] = pc[q] /\ job'[q] = job[q]
        /\ UNCHANGED <<bookings, raced>>
    BY ArrivalIsLocal
  <1>2. Calendar!Allowed(j) /\ ~Claims(p)'
    <2> USE DEF TypeInv, TypeOK, Claims
    <2>1. ASSUME NEW b \in BookingIds, NEW d \in EventDates, CreateBooking(p, b, d)
          PROVE  Calendar!Allowed(j) /\ ~Claims(p)'
      <3>1. j = [op |-> "create", booking |-> b, date |-> d, old |-> d] /\ pc'[p] = "acquire"
        BY <2>1 DEF CreateBooking, Accept
      <3>2. calendar[b] = NoBooking /\ d \in FutureDates
        BY <2>1, CalendarTaken DEF CreateBooking
      <3>3. QED
        BY <3>1, <3>2 DEF Calendar!Allowed
    <2>2. ASSUME NEW b \in BookingIds, ConfirmBooking(p, b)
          PROVE  Calendar!Allowed(j) /\ ~Claims(p)'
      <3>1. /\ j = [op |-> "confirm", booking |-> b, date |-> bookings[b].date,
                    old |-> bookings[b].date]
            /\ pc'[p] = "confirm"
        BY <2>2 DEF ConfirmBooking, Accept
      <3>2. Active(b) /\ bookings[b].status = "PENDING"
        BY <2>2 DEF ConfirmBooking, Active, ActiveStatuses
      <3>3. /\ Calendar!Taken(b)
            /\ calendar[b].status = "PENDING" /\ calendar[b].date = bookings[b].date
        BY <3>2, CalendarTaken
      <3>4. QED
        BY <3>1, <3>3 DEF Calendar!Allowed
    <2>3. ASSUME NEW b \in BookingIds, CancelBooking(p, b)
          PROVE  Calendar!Allowed(j) /\ ~Claims(p)'
      <3>1. /\ j = [op |-> "cancel", booking |-> b, date |-> bookings[b].date,
                    old |-> bookings[b].date]
            /\ pc'[p] = "free"
        BY <2>3 DEF CancelBooking, Accept
      <3>2. Calendar!Taken(b) /\ calendar[b].date = bookings[b].date
        BY <2>3, CalendarTaken DEF CancelBooking
      <3>3. QED
        BY <3>1, <3>2 DEF Calendar!Allowed
    <2>4. ASSUME NEW b \in BookingIds, NEW d \in EventDates, RescheduleBooking(p, b, d)
          PROVE  Calendar!Allowed(j) /\ ~Claims(p)'
      <3>1. /\ j = [op |-> "reschedule", booking |-> b, date |-> d, old |-> bookings[b].date]
            /\ pc'[p] = "acquire"
        BY <2>4 DEF RescheduleBooking, Accept
      <3>2. Calendar!Taken(b) /\ calendar[b].date = bookings[b].date
        BY <2>4, CalendarTaken DEF RescheduleBooking
      <3>3. QED
        BY <3>1, <3>2 DEF Calendar!Allowed
    <2>5. QED
      BY <2>1, <2>2, <2>3, <2>4 DEF Arrival
  <1>3. ~Asks(p) /\ ~Claims(p) /\ Asks(p)'
    BY <1>1 DEF Asks, Working, Claims
  <1>4. /\ asked[p] = {} /\ asked' = [asked EXCEPT ![p] = {j}]
        /\ claimed' = [claimed EXCEPT ![p] = {}] /\ claimed[p] = {}
    BY <1>1, <1>2, <1>3, RequestsView
  <1>5. UNCHANGED <<calendar, claimed, raced>> /\ asked'[p] # {}
    <2>1. claimed' = claimed
      BY <1>4 DEF claimed
    <2>2. asked'[p] = {j}
      BY <1>4 DEF asked
    <2>3. QED
      BY <1>1, <2>1, <2>2 DEF calendar
  <1>6. Calendar!Ask(p, j)
    BY <1>2, <1>4, <1>5 DEF Calendar!Ask
  <1>7. QED
    BY <1>1, <1>4, <1>5, <1>6 DEF Calendar!Next

\* A refusal or a fault is a drop, unless the request was decided already.
LEMMA DropsOrQuiet ==
  ASSUME TypeInv, NEW p \in Clients, Progress(p) \/ Fault(p),
         ~Asks(p)', ~Claims(p)', UNCHANGED <<calendar, raced>>
  PROVE  [Calendar!Next]_Calendar!calendarVars
  <1>1. CASE Asks(p)
    BY <1>1, Decided DEF Calendar!Next, Calendar!Drop
  <1>2. CASE ~Asks(p)
    <2>1. ~Claims(p)
      BY <1>2 DEF Asks, Working, Claims, TypeInv, StepFits
    <2>2. QED
      BY <1>2, <2>1, QuietStep
  <1>3. QED
    BY <1>1, <1>2

LEMMA FaultDrops ==
  ASSUME TypeInv, NEW p \in Clients, Fault(p)
  PROVE  [Calendar!Next]_Calendar!calendarVars
  <1>1. ~Asks(p)' /\ ~Claims(p)' /\ UNCHANGED <<calendar, raced>>
    BY FaultIsLocal DEF Asks, Working, Claims, calendar
  <1>2. QED
    BY <1>1, DropsOrQuiet

LEMMA CheckGrants ==
  ASSUME TypeInv, NEW p \in Clients, CheckBooked(p), pc'[p] # "unlock"
  PROVE  Calendar!Next
  <1> DEFINE x == DayOf[job[p].date]
  <1>1. /\ pc[p] = "booked" /\ ~IsDateBooked(x)
        /\ raced' = raced \cup {y \in {x} : \E q \in Clients : Claims(q) /\ DayOf[job[q].date] = y}
        /\ UNCHANGED <<bookings, job>>
    BY DEF CheckBooked, Goto, TypeInv, TypeOK, store
  <1>2. /\ job[p].op \in {"create", "reschedule"}
        /\ pc'[p] = IF job[p].op = "create" THEN "insert" ELSE "free"
    BY <1>1 DEF CheckBooked, TypeInv, TypeOK, StepFits, Goto
  <1>3. \A q \in Clients : q # p => pc'[q] = pc[q] /\ job'[q] = job[q]
    BY StepIsLocal DEF Progress
  <1>4. Asks(p) /\ Asks(p)' /\ ~Claims(p) /\ Claims(p)'
    BY <1>1, <1>2 DEF Asks, Working, Claims
  <1>5. /\ asked[p] = {job[p]} /\ asked' = [asked EXCEPT ![p] = {job[p]}]
        /\ claimed[p] = {} /\ claimed' = [claimed EXCEPT ![p] = {x}]
    BY <1>1, <1>3, <1>4, RequestsView
  <1>6. Calendar!Free(x) /\ UNCHANGED <<calendar, asked>>
    <2>1. asked' = asked
      BY <1>5 DEF asked
    <2>2. QED
      BY <1>1, <2>1, CalendarTaken DEF calendar
  <1>7. ASSUME NEW q \in Clients, NEW y
        PROVE  y \in claimed[q] <=> Claims(q) /\ DayOf[job[q].date] = y
    BY DEF claimed
  <1>8. raced' = raced \cup {y \in {x} : \E q \in Clients : y \in claimed[q]}
    BY <1>1, <1>7
  <1>9. Calendar!Grant(p, job[p])
    BY <1>2, <1>5, <1>6, <1>8 DEF Calendar!Grant
  <1>10. QED
    BY <1>5, <1>9 DEF Calendar!Next

\* Each of the five saves is one decision of the calendar, or none.
LEMMA SaveDecides ==
  ASSUME TypeInv, NEW p \in Clients,
         \/ InsertBooking(p) \/ SaveAuditEntry(p) \/ SaveRescheduled(p)
         \/ SaveConfirmed(p) \/ SaveCancelled(p)
  PROVE  [Calendar!Next]_Calendar!calendarVars
  <1> PICK b \in BookingIds : b = job[p].booking
    BY StepIsLocal DEF Progress, Job
  <1>1. /\ job[p] \in Job /\ InFlight(p) /\ job[p].date \in EventDates
        /\ bookings \in [BookingIds -> Booking \cup {NoBooking}]
        /\ Progress(p)
    BY StepIsLocal DEF Progress, TypeInv, TypeOK, Job
  <1>2. /\ NoBooking \notin Booking
        /\ \A e \in [status : Statuses, date : EventDates] : e # NoBooking
    BY BookingsAssumptions
  <1>3. \A c \in BookingIds : c # b => bookings'[c] = bookings[c]
    BY <1>1, StepIsLocal
  <1>4. ASSUME bookings'[b] # NoBooking
        PROVE  calendar' = [calendar EXCEPT ![b] = [status |-> bookings'[b].status,
                                                    date |-> bookings'[b].date]]
    BY <1>3, <1>4 DEF calendar
  <1>5. CASE InsertBooking(p)
    <2>1. /\ job[p].op = "create" /\ calendar[b] = NoBooking
          /\ pc[p] = "insert" /\ pc'[p] = "trail" /\ UNCHANGED <<job, raced>>
      BY <1>1, <1>5, CalendarTaken DEF InsertBooking, TypeInv, TypeOK, StepFits, IdsAreFresh,
         Goto, history
    <2>2. /\ bookings'[b] \in Booking /\ bookings'[b].status = "PENDING"
          /\ bookings'[b].date = job[p].date
      BY <1>1, <1>5 DEF InsertBooking, Booking, Statuses
    <2>3. calendar' = [calendar EXCEPT ![b] = [status |-> "PENDING", date |-> job[p].date]]
      BY <1>2, <1>4, <2>2
    <2>4. Asks(p) /\ Claims(p) /\ ~Asks(p)' /\ ~Claims(p)'
      BY <2>1 DEF Asks, Working, Claims
    <2>5. DayOf[job[p].date] \in claimed[p]
      BY <2>4 DEF claimed
    <2>6. asked[p] = {job[p]} /\ Calendar!Book(p, job[p])
      BY <1>1, <2>1, <2>3, <2>4, <2>5, Decided DEF Calendar!Book
    <2>7. QED
      BY <2>6 DEF Calendar!Next
  <1>6. ASSUME ~InsertBooking(p)
        PROVE  /\ bookings[b] \in Booking
               /\ calendar[b] = [status |-> bookings[b].status, date |-> bookings[b].date]
               /\ calendar' = [calendar EXCEPT ![b] = [status |-> bookings'[b].status,
                                                       date |-> bookings'[b].date]]
    <2>1. bookings[b] \in Booking /\ bookings[b] # NoBooking
      BY <1>1, <1>6 DEF SaveAuditEntry, SaveRescheduled, SaveConfirmed, SaveCancelled,
         TypeInv, StepFits, DocumentsExist
    <2>2. bookings'[b] \in Booking
      BY <1>1, <1>6, <2>1 DEF SaveAuditEntry, SaveRescheduled, SaveConfirmed,
         SaveCancelled, SaveStatus, Booking, Statuses, AuditActions
    <2>3. QED
      BY <1>2, <1>4, <2>1, <2>2, CalendarEntry
  <1>7. CASE SaveAuditEntry(p) /\ ~InsertBooking(p)
    <2>1. bookings'[b].status = bookings[b].status /\ bookings'[b].date = bookings[b].date
      BY <1>1, <1>6, <1>7 DEF SaveAuditEntry, Booking
    <2>2. calendar' = calendar
      <3>1. calendar' = [calendar EXCEPT ![b] = calendar[b]]
        BY <1>6, <1>7, <2>1
      <3>2. QED
        BY <3>1 DEF calendar
    <2>3. /\ pc[p] = "trail" /\ pc'[p] = "mark" /\ UNCHANGED <<job, raced>>
          /\ job[p].op = "create"
      BY <1>1, <1>7 DEF SaveAuditEntry, TypeInv, TypeOK, StepFits, Goto, history
    <2>4. ~Asks(p) /\ ~Asks(p)' /\ ~Claims(p) /\ ~Claims(p)'
      BY <2>3 DEF Asks, Working, Claims
    <2>5. QED
      BY <1>1, <2>2, <2>3, <2>4, QuietStep
  <1>8. CASE SaveRescheduled(p) /\ ~InsertBooking(p)
    <2>1. /\ job[p].op = "reschedule" /\ pc[p] = "move" /\ pc'[p] = "unlock"
          /\ UNCHANGED <<job, raced>>
      BY <1>1, <1>8 DEF SaveRescheduled, TypeInv, TypeOK, StepFits, Goto, history
    <2>2. /\ bookings'[b].status = bookings[b].status
          /\ bookings'[b].date = IF job[p].date = job[p].old THEN bookings[b].date
                                                             ELSE job[p].date
      BY <1>1, <1>6, <1>8 DEF SaveRescheduled, Booking
    <2>3. calendar' = [calendar EXCEPT ![b] =
            [calendar[b] EXCEPT !.date = IF job[p].date = job[p].old THEN @ ELSE job[p].date]]
      BY <1>6, <1>8, <2>2
    <2>4. Asks(p) /\ Claims(p) /\ ~Asks(p)' /\ ~Claims(p)'
      BY <2>1 DEF Asks, Working, Claims
    <2>5. DayOf[job[p].date] \in claimed[p]
      BY <2>4 DEF claimed
    <2>6. asked[p] = {job[p]} /\ Calendar!Reschedule(p, job[p])
      BY <1>1, <2>1, <2>3, <2>4, <2>5, Decided DEF Calendar!Reschedule
    <2>7. QED
      BY <2>6 DEF Calendar!Next
  <1>9. CASE SaveConfirmed(p) /\ ~InsertBooking(p)
    <2>1. /\ job[p].op = "confirm" /\ pc[p] = "confirm" /\ pc'[p] = "idle"
          /\ raced' = raced \cup {y \in {DayOf[bookings[b].date]} : ~Active(b)}
      BY <1>1, <1>9 DEF SaveConfirmed, TypeInv, TypeOK, StepFits, Finish
    <2>2. bookings'[b].status = "CONFIRMED" /\ bookings'[b].date = bookings[b].date
      BY <1>1, <1>6, <1>9 DEF SaveConfirmed, SaveStatus, Booking
    <2>3. calendar' = [calendar EXCEPT ![b] = [calendar[b] EXCEPT !.status = "CONFIRMED"]]
      BY <1>6, <1>9, <2>2
    <2>4. raced' = raced \cup {y \in {DayOf[calendar[b].date]} : ~Calendar!Taken(b)}
      BY <1>6, <1>9, <2>1, CalendarTaken
    <2>5. Asks(p) /\ ~Asks(p)' /\ ~Claims(p)'
      BY <2>1 DEF Asks, Working, Claims
    <2>6. asked[p] = {job[p]} /\ Calendar!Confirm(p, job[p])
      BY <1>1, <2>1, <2>3, <2>4, <2>5, Decided DEF Calendar!Confirm
    <2>7. QED
      BY <2>6 DEF Calendar!Next
  <1>10. CASE SaveCancelled(p) /\ ~InsertBooking(p)
    <2>1. /\ job[p].op = "cancel" /\ pc[p] = "cancel" /\ pc'[p] = "idle" /\ UNCHANGED raced
      BY <1>1, <1>10 DEF SaveCancelled, TypeInv, TypeOK, StepFits, Finish, history
    <2>2. bookings'[b].status = "CANCELLED" /\ bookings'[b].date = bookings[b].date
      BY <1>1, <1>6, <1>10 DEF SaveCancelled, SaveStatus, Booking
    <2>3. calendar' = [calendar EXCEPT ![b] = [calendar[b] EXCEPT !.status = "CANCELLED"]]
      BY <1>6, <1>10, <2>2
    <2>4. Asks(p) /\ ~Asks(p)' /\ ~Claims(p)'
      BY <2>1 DEF Asks, Working, Claims
    <2>5. asked[p] = {job[p]} /\ Calendar!Cancel(p, job[p])
      BY <1>1, <2>1, <2>3, <2>4, Decided DEF Calendar!Cancel
    <2>6. QED
      BY <2>5 DEF Calendar!Next
  <1>11. QED
    BY <1>5, <1>7, <1>8, <1>9, <1>10

LEMMA ProgressIsCalendarStep ==
  ASSUME TypeInv, NEW p \in Clients, Progress(p)
  PROVE  [Calendar!Next]_Calendar!calendarVars
  <1> USE DEF TypeInv, TypeOK, StepFits, Goto, history
  <1>1. CASE \/ InsertBooking(p) \/ SaveAuditEntry(p) \/ SaveRescheduled(p)
             \/ SaveConfirmed(p) \/ SaveCancelled(p)
    BY <1>1, SaveDecides
  <1>2. ASSUME UNCHANGED <<bookings, raced>>, ~Asks(p)', ~Claims(p)'
        PROVE  [Calendar!Next]_Calendar!calendarVars
    BY <1>2, DropsOrQuiet DEF calendar
  <1>3. ASSUME UNCHANGED <<bookings, raced>>, Asks(p)' <=> Asks(p), Claims(p)' <=> Claims(p)
        PROVE  [Calendar!Next]_Calendar!calendarVars
    BY <1>3, QuietStep DEF calendar
  <1>4. CASE Acquire(p)
    <2>1. /\ pc[p] = "acquire" /\ pc'[p] \in {"acquire", "banquet", "available"}
          /\ UNCHANGED <<bookings, raced>>
      BY <1>4 DEF Acquire, store
    <2>2. QED
      BY <1>3, <2>1 DEF Asks, Working, Claims
  <1>5. CASE AcquireFails(p)
    <2>1. pc'[p] \in {"idle", "unlock"} /\ UNCHANGED <<bookings, raced>>
      BY <1>5 DEF AcquireFails, Finish, store
    <2>2. QED
      BY <1>2, <2>1 DEF Asks, Working, Claims
  <1>6. CASE CompareLock(p) \/ ReleaseLock(p)
    <2>1. pc'[p] \in {"idle", "unlock", "delete"} /\ UNCHANGED <<bookings, raced>>
      BY <1>6 DEF CompareLock, ReleaseLock, LeaveFrame, Finish, store
    <2>2. QED
      BY <1>2, <2>1 DEF Asks, Working, Claims
  <1>7. CASE CheckBanquet(p) \/ CheckAvailable(p)
    <2>1. /\ pc[p] \in {"banquet", "available"}
          /\ pc'[p] \in {"available", "booked", "unlock"} /\ UNCHANGED <<bookings, raced>>
      BY <1>7 DEF CheckBanquet, CheckAvailable, store
    <2>2. CASE pc'[p] = "unlock"
      BY <1>2, <2>1, <2>2 DEF Asks, Working, Claims
    <2>3. CASE pc'[p] # "unlock"
      BY <1>3, <2>1, <2>3 DEF Asks, Working, Claims
    <2>4. QED
      BY <2>2, <2>3
  <1>8. CASE CheckBooked(p)
    <2>1. CASE pc'[p] = "unlock"
      <3>1. UNCHANGED <<bookings, raced>>
        BY <1>8, <2>1 DEF CheckBooked, store
      <3>2. QED
        BY <1>2, <2>1, <3>1 DEF Asks, Working, Claims
    <2>2. QED
      BY <1>8, <2>1, CheckGrants
  <1>9. CASE MarkDateUnavailable(p)
    <2>1. /\ pc[p] = "mark" /\ UNCHANGED <<bookings, raced, job>>
          /\ job[p].op \in {"create", "reschedule"}
          /\ pc'[p] = IF job[p].op = "create" THEN "unlock" ELSE "move"
      BY <1>9 DEF MarkDateUnavailable
    <2>2. QED
      BY <1>3, <2>1 DEF Asks, Working, Claims
  <1>10. CASE MarkDateAvailable(p)
    <2>1. /\ pc[p] = "free" /\ UNCHANGED <<bookings, raced, job>>
          /\ job[p].op \in {"cancel", "reschedule"}
          /\ pc'[p] = IF job[p].op = "cancel" THEN "cancel" ELSE "mark"
      BY <1>10 DEF MarkDateAvailable
    <2>2. QED
      BY <1>3, <2>1 DEF Asks, Working, Claims
  <1>11. QED
    BY <1>1, <1>4, <1>5, <1>6, <1>7, <1>8, <1>9, <1>10 DEF Progress

\* Requests of many steps, under a lock that does not exclude, with servers that
\* crash and databases that fail, look to the clients like the calendar: a request
\* asks for a change that is allowed, is granted a day that is free, and takes
\* effect at once, at its insert or last save, or never.
THEOREM RequestsImplementCalendar == Spec => ImplementsCalendar
  <1>1. Init => Calendar!Init
    <2> SUFFICES ASSUME Init PROVE Calendar!Init
      OBVIOUS
    <2>1. calendar = [b \in BookingIds |-> NoBooking]
      BY DEF Init, calendar
    <2>2. asked = [p \in Clients |-> {}] /\ claimed = [p \in Clients |-> {}]
      BY DEF Init, asked, claimed, Asks, Working, Claims
    <2>3. QED
      BY <2>1, <2>2 DEF Init, Calendar!Init, Calendar!OnePerDay, Calendar!Taken
  <1>2. ASSUME TypeInv, [Next]_vars
        PROVE  [Calendar!Next]_Calendar!calendarVars
    <2>1. CASE Environment \/ UNCHANGED vars
      BY <2>1 DEF Environment, history, store, vars, Calendar!calendarVars, calendar, asked,
         claimed, Asks, Working, Claims
    <2>2. QED
      BY <1>2, <2>1, ArrivalAsks, ProgressIsCalendarStep, FaultDrops DEF Next
  <1>3. QED
    BY <1>1, <1>2, TypeInvAlways, PTL DEF Spec, ImplementsCalendar, Calendar!Spec

\* Whatever the lock does and whatever crashes, two active bookings share a day only
\* if requests raced for it: what the calendar promises holds of the documents.
THEOREM OnlyRacesDoubleBook == Spec => []NoDoubleBooking
  <1>1. TypeInv /\ Calendar!OnePerDay => NoDoubleBooking
    BY CalendarTaken DEF Calendar!OnePerDay, NoDoubleBooking
  <1>2. QED
    BY <1>1, TypeInvAlways, RequestsImplementCalendar, CalendarKeepsDaysApart, PTL
    DEF ImplementsCalendar

-----------------------------------------------------------------------------
(* The availability records.  A request between its save and its mark, or  *)
(* between freeing a day and the save that gives it up, leaves its booking *)
(* unmarked; a reschedule marks the day that it is about to take.          *)
(* MarksAgree says that every day that was neither raced for nor disturbed *)
(* is accounted for in this way.  What makes it inductive is that a        *)
(* request may trust what it read of its booking (ReadHolds) unless        *)
(* another has met it there, and then all their days are disturbed.        *)

BeforeInsert(p) ==
  job[p].op = "create" /\ pc[p] \in {"acquire", "banquet", "available", "booked", "insert"}

\* Only a reschedule works with two dates.
OwnDates ==
  \A p \in Clients : InFlight(p) /\ job[p].op # "reschedule" => job[p].date = job[p].old

MeetingsDisturb ==
  \A p, q \in Clients :
    Working(p) /\ Working(q) /\ p # q /\ job[p].booking = job[q].booking
      => DaysOf(job[p]) \subseteq disturbed

ReadHolds(p) ==
  Active(job[p].booking) /\ bookings[job[p].booking].date = job[p].old

Stale(p) ==
  LET b == job[p].booking IN
  /\ bookings[b] # NoBooking
  /\ DaysOf(job[p]) \cup {DayOf[bookings[b].date]} \subseteq disturbed

ReadsHold ==
  \A p \in Clients : Working(p) => BeforeInsert(p) \/ ReadHolds(p) \/ Stale(p)

Marked(b) ==
  Active(b) /\ \A p \in Clients : HalfWritten(p) => job[p].booking # b

MarkedAhead(p, x) == pc[p] = "move" /\ DayOf[job[p].date] = x

Accounted(x) ==
  \/ \E b \in BookingIds : Marked(b) /\ DayOf[bookings[b].date] = x
  \/ \E p \in Clients : MarkedAhead(p, x)

Clean(x) == x \in Days \ (raced \cup disturbed)

MarksAgree == \A x \in Days : Clean(x) => (x \in unavailable <=> Accounted(x))

\* A claimed day that was not raced for has no active booking.
ClaimsHold ==
  \A p \in Clients :
    Claims(p) => DayOf[job[p].date] \in raced \/ ~IsDateBooked(DayOf[job[p].date])

RacesInv == TypeInv /\ NoDoubleBooking /\ ClaimsHold

AvailabilityInv == OwnDates /\ MeetingsDisturb /\ ReadsHold /\ MarksAgree

LEMMA RacesInvAlways == Spec => []RacesInv
  <1>1. TypeInv /\ Calendar!GrantsHold => ClaimsHold
    <2> SUFFICES ASSUME TypeInv, Calendar!GrantsHold, NEW p \in Clients, Claims(p),
                        DayOf[job[p].date] \notin raced
                 PROVE  ~IsDateBooked(DayOf[job[p].date])
      BY DEF ClaimsHold
    <2>1. DayOf[job[p].date] \in claimed[p]
      BY DEF claimed
    <2>2. Calendar!Free(DayOf[job[p].date])
      BY <2>1 DEF Calendar!GrantsHold
    <2>3. QED
      BY <2>2, CalendarTaken
  <1>2. QED
    BY <1>1, TypeInvAlways, OnlyRacesDoubleBook, RequestsImplementCalendar,
       CalendarKeepsDaysApart, PTL DEF RacesInv, ImplementsCalendar

LEMMA MeetingsDisturbNext ==
  ASSUME TypeInv, OwnDates, MeetingsDisturb, [Next]_vars
  PROVE  OwnDates' /\ MeetingsDisturb'
  <1>1. CASE Environment \/ UNCHANGED vars
    BY <1>1 DEF Environment, history, vars, OwnDates, MeetingsDisturb, InFlight, Working
  <1>2. ASSUME NEW p \in Clients, Progress(p) \/ Fault(p)
        PROVE  OwnDates' /\ MeetingsDisturb'
    <2>1. /\ \A q \in Clients : q # p => pc'[q] = pc[q] /\ job'[q] = job[q]
          /\ InFlight(p) /\ (pc'[p] = "idle" \/ job'[p] = job[p])
          /\ disturbed \subseteq disturbed'
      BY <1>2, StepIsLocal, FaultIsLocal
    <2>2. ~Working(p) => ~Working(p)'
      BY <1>2 DEF TypeInv, TypeOK, InFlight, Working, Goto, Finish, LeaveFrame, Progress,
         Acquire, AcquireFails, CompareLock, ReleaseLock, CheckBanquet, CheckAvailable,
         CheckBooked, InsertBooking, SaveAuditEntry, MarkDateUnavailable,
         MarkDateAvailable, SaveRescheduled, SaveConfirmed, SaveCancelled, Fault,
         DatabaseError, Crash
    <2>3. OwnDates'
      BY <2>1 DEF OwnDates, InFlight
    <2>4. \A q \in Clients : Working(q)' => Working(q) /\ job'[q] = job[q]
      BY <2>1, <2>2 DEF Working
    <2>5. QED
      BY <2>1, <2>3, <2>4 DEF MeetingsDisturb, DaysOf
  <1>3. ASSUME NEW p \in Clients, Arrival(p) PROVE OwnDates' /\ MeetingsDisturb'
    <2>1. /\ \A q \in Clients : q # p => pc'[q] = pc[q] /\ job'[q] = job[q]
          /\ pc[p] = "idle" /\ job'[p] \in Job /\ disturbed \subseteq disturbed'
      BY <1>3, ArrivalIsLocal
    <2>2. job'[p].op # "reschedule" => job'[p].date = job'[p].old
      <3> USE DEF Accept, TypeInv, TypeOK
      <3>1. ASSUME NEW b \in BookingIds, NEW d \in EventDates, CreateBooking(p, b, d)
            PROVE  job'[p].date = job'[p].old
        BY <3>1 DEF CreateBooking
      <3>2. ASSUME NEW b \in BookingIds, ConfirmBooking(p, b)
            PROVE  job'[p].date = job'[p].old
        BY <3>2 DEF ConfirmBooking
      <3>3. ASSUME NEW b \in BookingIds, CancelBooking(p, b)
            PROVE  job'[p].date = job'[p].old
        BY <3>3 DEF CancelBooking
      <3>4. ASSUME NEW b \in BookingIds, NEW d \in EventDates, RescheduleBooking(p, b, d)
            PROVE  job'[p].op = "reschedule"
        BY <3>4 DEF RescheduleBooking
      <3>5. QED
        BY <1>3, <3>1, <3>2, <3>3, <3>4 DEF Arrival
    <2>3. OwnDates'
      BY <2>1, <2>2 DEF OwnDates, InFlight
    <2>4. disturbed' = disturbed \cup
            UNION {DaysOf(job'[p]) \cup DaysOf(job[q]) :
                     q \in {q \in Clients : Working(q) /\ job[q].booking = job'[p].booking}}
      <3>1. PICK step, j : Accept(p, step, j)
        BY <1>3 DEF Arrival, CreateBooking, ConfirmBooking, CancelBooking,
           RescheduleBooking
      <3>2. job'[p] = j
        BY <3>1 DEF Accept, TypeInv, TypeOK
      <3>3. QED
        BY <3>1, <3>2 DEF Accept
    <2>5. ASSUME NEW q \in Clients, q # p, Working(q)', job'[q].booking = job'[p].booking
          PROVE  DaysOf(job'[p]) \cup DaysOf(job'[q]) \subseteq disturbed'
      <3>1. Working(q) /\ job[q] = job'[q]
        BY <2>1, <2>5 DEF Working
      <3>2. QED
        BY <2>4, <2>5, <3>1
    <2>6. ASSUME NEW q \in Clients, NEW s \in Clients, q # s, q # p, s # p,
                 Working(q)', Working(s)', job'[q].booking = job'[s].booking
          PROVE  DaysOf(job'[q]) \subseteq disturbed'
      BY <2>1, <2>6 DEF Working, MeetingsDisturb
    <2>7. MeetingsDisturb'
      <3> SUFFICES ASSUME NEW q \in Clients, NEW s \in Clients, q # s,
                          Working(q)', Working(s)', job'[q].booking = job'[s].booking
                   PROVE  DaysOf(job'[q]) \subseteq disturbed'
        BY DEF MeetingsDisturb, DaysOf
      <3>1. QED
        BY <2>5, <2>6
    <2>8. QED
      BY <2>3, <2>7
  <1>4. QED
    BY <1>1, <1>2, <1>3 DEF Next

-----------------------------------------------------------------------------
\* What a step of p makes of the date of the booking it works on.
LEMMA DateAfterStep ==
  ASSUME TypeInv, NEW p \in Clients, Progress(p), NEW b \in BookingIds, b = job[p].booking
  PROVE  /\ bookings'[b] # bookings[b] => Working(p)
         /\ bookings[b] # NoBooking =>
              /\ bookings'[b] # NoBooking
              /\ bookings'[b].date \in {bookings[b].date, job[p].date}
  <1> USE DEF TypeInv, TypeOK
  <1>0. job[p] \in Job /\ pc[p] # "idle" /\ NoBooking \notin Booking
    BY StepIsLocal, BookingsAssumptions DEF InFlight
  <1>1. CASE UNCHANGED bookings
    BY <1>1
  <1>2. CASE \/ InsertBooking(p) \/ SaveAuditEntry(p) \/ SaveRescheduled(p)
             \/ SaveConfirmed(p) \/ SaveCancelled(p)
    <2>1. Working(p)
      BY <1>2 DEF Working, InsertBooking, SaveAuditEntry, SaveRescheduled, SaveConfirmed,
         SaveCancelled
    <2>2. ASSUME bookings[b] # NoBooking
          PROVE  bookings'[b] \in Booking /\ bookings'[b].date \in {bookings[b].date, job[p].date}
      <3>1. bookings[b] \in Booking
        BY <2>2
      <3>2. CASE InsertBooking(p)
        BY <1>0, <3>1, <3>2 DEF InsertBooking, Booking, Statuses, Job
      <3>3. CASE SaveAuditEntry(p)
        BY <1>0, <3>1, <3>3 DEF SaveAuditEntry, Booking, AuditActions
      <3>4. CASE SaveRescheduled(p)
        BY <1>0, <3>1, <3>4 DEF SaveRescheduled, Booking, AuditActions, Job
      <3>5. CASE SaveConfirmed(p) \/ SaveCancelled(p)
        BY <1>0, <3>1, <3>5 DEF SaveConfirmed, SaveCancelled, SaveStatus, Booking, Statuses,
           AuditActions
      <3>6. QED
        BY <1>2, <3>2, <3>3, <3>4, <3>5
    <2>3. QED
      BY <1>0, <2>1, <2>2
  <1>3. QED
    BY <1>1, <1>2 DEF Progress, Acquire, AcquireFails, CompareLock, ReleaseLock,
       CheckBanquet, CheckAvailable, CheckBooked, MarkDateUnavailable,
       MarkDateAvailable, store

\* What p itself may rely on after a step of its own.
LEMMA OwnReadHolds ==
  ASSUME TypeInv, OwnDates, ReadsHold, NEW p \in Clients, Progress(p), Working(p)'
  PROVE  (BeforeInsert(p) \/ ReadHolds(p) \/ Stale(p))'
  <1> USE DEF TypeInv, TypeOK, StepFits, Goto
  <1>1. /\ job'[p] = job[p] /\ job[p] \in Job /\ UNCHANGED disturbed /\ InFlight(p)
        /\ job[p].booking \in BookingIds /\ NoBooking \notin Booking
    BY StepIsLocal, BookingsAssumptions DEF Working, Job
  <1>2. CASE InsertBooking(p)
    <2> PICK b \in BookingIds : b = job[p].booking
      BY <1>1
    <2>1. bookings'[b] = [status |-> "PENDING", date |-> job[p].date, trail |-> {}]
      BY <1>1, <1>2 DEF InsertBooking
    <2>2. bookings'[b] # NoBooking
      <3>1. bookings'[b] \in Booking
        BY <1>1, <2>1 DEF Booking, Statuses, Job
      <3>2. QED
        BY <1>1, <3>1
    <2>3. bookings'[b].status = "PENDING" /\ bookings'[b].date = job[p].old
      BY <1>1, <1>2, <2>1 DEF InsertBooking, OwnDates
    <2>4. ReadHolds(p)'
      BY <1>1, <2>2, <2>3 DEF ReadHolds, Active, ActiveStatuses
    <2>5. QED
      BY <2>4
  <1>3. CASE SaveAuditEntry(p)
    <2>1. ~BeforeInsert(p) /\ Working(p)
      BY <1>3 DEF SaveAuditEntry, BeforeInsert, Working
    <2>2. bookings[job[p].booking] \in Booking
      BY <1>1, <2>1 DEF ReadsHold, ReadHolds, Stale, Active
    <2>3. /\ bookings'[job[p].booking] \in Booking
          /\ bookings'[job[p].booking].status = bookings[job[p].booking].status
          /\ bookings'[job[p].booking].date = bookings[job[p].booking].date
      BY <1>1, <1>3, <2>2 DEF SaveAuditEntry, Booking, AuditActions
    <2>4. (ReadHolds(p) => ReadHolds(p)') /\ (Stale(p) => Stale(p)')
      BY <1>1, <2>2, <2>3 DEF ReadHolds, Stale, Active, DaysOf
    <2>5. QED
      BY <2>1, <2>4 DEF ReadsHold
  <1>4. CASE /\ UNCHANGED bookings /\ Working(p)
             /\ BeforeInsert(p) => BeforeInsert(p)' \/ InsertBooking(p)
    <2>1. (ReadHolds(p) => ReadHolds(p)') /\ (Stale(p) => Stale(p)')
      BY <1>1, <1>4 DEF ReadHolds, Stale, Active, DaysOf
    <2>2. QED
      BY <1>2, <1>4, <2>1 DEF ReadsHold
  <1>5. CASE Acquire(p)
    BY <1>1, <1>4, <1>5 DEF Acquire, Working, BeforeInsert, store
  <1>6. CASE AcquireFails(p) \/ CompareLock(p) \/ ReleaseLock(p)
    BY <1>6 DEF AcquireFails, CompareLock, ReleaseLock, LeaveFrame, Finish, Working
  <1>7. CASE CheckBanquet(p) \/ CheckAvailable(p) \/ CheckBooked(p)
    <2>1. UNCHANGED bookings /\ Working(p)
      BY <1>7 DEF CheckBanquet, CheckAvailable, CheckBooked, Working, store
    <2>2. /\ pc[p] \in {"banquet", "available", "booked"}
          /\ job[p].op = "create" => pc'[p] \in {"available", "booked", "insert", "unlock"}
      BY <1>7 DEF CheckBanquet, CheckAvailable, CheckBooked
    <2>3. QED
      BY <1>1, <1>4, <2>1, <2>2 DEF BeforeInsert, Working
  <1>8. CASE MarkDateUnavailable(p) \/ MarkDateAvailable(p)
    BY <1>4, <1>8 DEF MarkDateUnavailable, MarkDateAvailable, Working, BeforeInsert
  <1>9. CASE SaveRescheduled(p) \/ SaveConfirmed(p) \/ SaveCancelled(p)
    BY <1>9 DEF SaveRescheduled, SaveConfirmed, SaveCancelled, Finish, Working
  <1>10. QED
    BY <1>2, <1>3, <1>5, <1>6, <1>7, <1>8, <1>9 DEF Progress

LEMMA ReadsHoldNext ==
  ASSUME TypeInv, OwnDates, MeetingsDisturb, ReadsHold, [Next]_vars
  PROVE  ReadsHold'
  <1>1. CASE Environment \/ UNCHANGED vars
    BY <1>1 DEF Environment, history, store, vars, ReadsHold, ReadHolds, Stale, BeforeInsert,
       Working, Active
  <1>2. ASSUME NEW p \in Clients, NEW q \in Clients, Working(q)',
               pc'[q] = pc[q], job'[q] = job[q], disturbed \subseteq disturbed',
               bookings'[job[q].booking] = bookings[job[q].booking]
        PROVE  (BeforeInsert(q) \/ ReadHolds(q) \/ Stale(q))'
    BY <1>2 DEF ReadsHold, ReadHolds, Stale, BeforeInsert, Working, Active
  <1>3. ASSUME NEW p \in Clients, Arrival(p) PROVE ReadsHold'
    <2>1. /\ pc[p] = "idle" /\ job'[p] \in Job
          /\ \A q \in Clients : q # p => pc'[q] = pc[q] /\ job'[q] = job[q]
          /\ UNCHANGED bookings /\ disturbed \subseteq disturbed'
      BY <1>3, ArrivalIsLocal
    <2>2. BeforeInsert(p)' \/ ReadHolds(p)'
      <3> USE DEF Accept, TypeInv, TypeOK
      <3>1. ASSUME NEW b \in BookingIds, NEW d \in EventDates, CreateBooking(p, b, d)
            PROVE  BeforeInsert(p)'
        BY <3>1 DEF CreateBooking, BeforeInsert
      <3>2. ASSUME NEW b \in BookingIds, ConfirmBooking(p, b) PROVE ReadHolds(p)'
        BY <2>1, <3>2 DEF ConfirmBooking, ReadHolds, Active, ActiveStatuses
      <3>3. ASSUME NEW b \in BookingIds, CancelBooking(p, b) PROVE ReadHolds(p)'
        BY <2>1, <3>3 DEF CancelBooking, ReadHolds, Active
      <3>4. ASSUME NEW b \in BookingIds, NEW d \in EventDates, RescheduleBooking(p, b, d)
            PROVE  ReadHolds(p)'
        BY <2>1, <3>4 DEF RescheduleBooking, ReadHolds, Active
      <3>5. QED
        BY <1>3, <3>1, <3>2, <3>3, <3>4 DEF Arrival
    <2>3. QED
      BY <1>2, <2>1, <2>2 DEF ReadsHold
  <1>4. ASSUME NEW p \in Clients, Fault(p) PROVE ReadsHold'
    <2>1. ~Working(p)'
      BY <1>4, FaultIsLocal DEF Working
    <2>2. QED
      BY <1>2, <1>4, <2>1, FaultIsLocal DEF ReadsHold
  <1>5. ASSUME NEW p \in Clients, Progress(p) PROVE ReadsHold'
    <2> SUFFICES ASSUME NEW q \in Clients, q # p, Working(q)'
                 PROVE  (BeforeInsert(q) \/ ReadHolds(q) \/ Stale(q))'
      BY <1>5, OwnReadHolds DEF ReadsHold
    <2>1. /\ pc'[q] = pc[q] /\ job'[q] = job[q] /\ disturbed' = disturbed
          /\ Working(q) /\ job[p] \in Job
          /\ \A c \in BookingIds : c # job[p].booking => bookings'[c] = bookings[c]
      BY <1>5, StepIsLocal DEF Working
    <2>2. job[q] \in Job /\ job[q].booking \in BookingIds
      BY <2>1 DEF TypeInv, TypeOK, Working, Job
    <2>3. CASE bookings'[job[q].booking] = bookings[job[q].booking]
      BY <1>2, <2>1, <2>3
    <2>4. CASE bookings'[job[q].booking] # bookings[job[q].booking] /\ ~BeforeInsert(q)
      <3> PICK b \in BookingIds : b = job[p].booking /\ b = job[q].booking
        BY <2>1, <2>2, <2>4
      <3>1. Working(p)
        BY <1>5, <2>4, DateAfterStep
      <3>2. DaysOf(job[p]) \subseteq disturbed /\ DaysOf(job[q]) \subseteq disturbed
        BY <2>1, <3>1 DEF MeetingsDisturb
      <3>3. bookings[b] # NoBooking /\ DayOf[bookings[b].date] \in disturbed
        BY <2>1, <2>4, <3>2 DEF ReadsHold, ReadHolds, Stale, Active, DaysOf
      <3>4. bookings'[b] # NoBooking /\ bookings'[b].date \in {bookings[b].date, job[p].date}
        BY <1>5, <3>3, DateAfterStep
      <3>5. DayOf[bookings'[b].date] \in disturbed
        BY <3>2, <3>3, <3>4 DEF DaysOf
      <3>6. QED
        BY <2>1, <3>2, <3>4, <3>5 DEF Stale
    <2>5. CASE BeforeInsert(q)
      BY <2>1, <2>5 DEF BeforeInsert
    <2>6. QED
      BY <2>3, <2>4, <2>5
  <1>6. QED
    BY <1>1, <1>3, <1>4, <1>5 DEF Next

-----------------------------------------------------------------------------
\* What is accounted for by request p and its booking b, and by the others.
AccountedBy(p, b, x) ==
  \/ Marked(b) /\ DayOf[bookings[b].date] = x
  \/ MarkedAhead(p, x)

AccountedBeside(p, b, x) ==
  \/ \E c \in BookingIds \ {b} : Marked(c) /\ DayOf[bookings[c].date] = x
  \/ \E q \in Clients \ {p} : MarkedAhead(q, x)

LEMMA AccountedSplits ==
  ASSUME NEW p \in Clients, NEW b \in BookingIds, NEW x
  PROVE  /\ Accounted(x) <=> AccountedBy(p, b, x) \/ AccountedBeside(p, b, x)
         /\ Accounted(x)' <=> AccountedBy(p, b, x)' \/ AccountedBeside(p, b, x)'
  BY DEF Accounted, AccountedBy, AccountedBeside

\* A step of p on b leaves what the others account for.
LEMMA BesideIsLeft ==
  ASSUME NEW p \in Clients, NEW b \in BookingIds, NEW x,
         InFlight(p), job[p].booking = b,
         pc'[p] = "idle" \/ job'[p] = job[p],
         \A q \in Clients : q # p => pc'[q] = pc[q] /\ job'[q] = job[q],
         \A c \in BookingIds : c # b => bookings'[c] = bookings[c]
  PROVE  AccountedBeside(p, b, x)' <=> AccountedBeside(p, b, x)
  <1>1. HalfWritten(p)' => job'[p].booking = b
    BY DEF HalfWritten
  <1>2. ASSUME NEW c \in BookingIds \ {b}
        PROVE  (Marked(c)' <=> Marked(c)) /\ bookings'[c] = bookings[c]
    <2>1. Active(c)' <=> Active(c)
      BY DEF Active
    <2>2. \A q \in Clients : (HalfWritten(q)' => job'[q].booking # c)
                              <=> (HalfWritten(q) => job[q].booking # c)
      BY <1>1 DEF HalfWritten
    <2>3. QED
      BY <2>1, <2>2 DEF Marked
  <1>3. ASSUME NEW q \in Clients \ {p} PROVE MarkedAhead(q, x)' <=> MarkedAhead(q, x)
    BY DEF MarkedAhead
  <1>4. QED
    BY <1>2, <1>3 DEF AccountedBeside

\* What holds, on a clean day, of a request that works on a booking it has read.
LEMMA CleanReads ==
  ASSUME RacesInv, MeetingsDisturb, ReadsHold, NEW p \in Clients,
         NEW b \in BookingIds, b = job[p].booking,
         Working(p), ~BeforeInsert(p), NEW x \in Days, x \notin disturbed
  PROVE  /\ bookings[b] \in Booking
         /\ DayOf[bookings[b].date] = x => Active(b) /\ bookings[b].date = job[p].old
         /\ x \in DaysOf(job[p]) =>
              /\ Active(b) /\ bookings[b].date = job[p].old
              /\ \A q \in Clients : q # p /\ HalfWritten(q) => job[q].booking # b
         /\ x \notin raced /\ Active(b) /\ DayOf[bookings[b].date] = x =>
              ~AccountedBeside(p, b, x)
  <1>1. ReadHolds(p) \/ Stale(p)
    BY DEF ReadsHold
  <1>2. /\ bookings[b] \in Booking
        /\ DayOf[bookings[b].date] = x => Active(b) /\ bookings[b].date = job[p].old
        /\ x \in DaysOf(job[p]) => Active(b) /\ bookings[b].date = job[p].old
    BY <1>1 DEF ReadHolds, Stale, Active, RacesInv, TypeInv, TypeOK
  <1>3. ASSUME x \in DaysOf(job[p]), NEW q \in Clients, q # p, HalfWritten(q)
        PROVE  job[q].booking # b
    BY <1>3 DEF MeetingsDisturb, HalfWritten, Working
  <1>4. ASSUME x \notin raced, Active(b), DayOf[bookings[b].date] = x
        PROVE  ~AccountedBeside(p, b, x)
    <2>1. ASSUME NEW c \in BookingIds \ {b}, Active(c)
          PROVE  DayOf[bookings[c].date] # x
      BY <1>4, <2>1 DEF RacesInv, NoDoubleBooking
    <2>2. ASSUME NEW q \in Clients \ {p} PROVE ~MarkedAhead(q, x)
      <3>1. MarkedAhead(q, x) => Claims(q) /\ DayOf[job[q].date] = x
        BY DEF MarkedAhead, Claims, RacesInv, TypeInv, StepFits
      <3>2. QED
        BY <1>4, <3>1 DEF RacesInv, ClaimsHold, IsDateBooked
    <2>3. QED
      BY <2>1, <2>2 DEF AccountedBeside, Marked
  <1>5. QED
    BY <1>2, <1>3, <1>4

\* What a step of p makes of the days that p accounts for.
LEMMA AccountedByStep ==
  ASSUME RacesInv, OwnDates, MeetingsDisturb, ReadsHold, NEW p \in Clients, Progress(p),
         NEW b \in BookingIds, b = job[p].booking, NEW x \in Days, Clean(x)',
         x \in unavailable <=> AccountedBy(p, b, x) \/ AccountedBeside(p, b, x)
  PROVE  x \in unavailable' <=> AccountedBy(p, b, x)' \/ AccountedBeside(p, b, x)'
  <1>1. /\ InFlight(p) /\ job[p] \in Job
        /\ pc'[p] = "idle" \/ job'[p] = job[p]
        /\ \A q \in Clients : q # p => pc'[q] = pc[q] /\ job'[q] = job[q]
        /\ x \notin disturbed /\ x \notin raced /\ x \notin raced'
        /\ DayOf \in [EventDates -> Days]
    BY StepIsLocal, BookingsAssumptions DEF Clean, RacesInv
  <1>2. AccountedBeside(p, b, x)' <=> AccountedBeside(p, b, x)
    BY <1>1, StepIsLocal, BesideIsLeft DEF RacesInv
  <1>3. /\ bookings \in [BookingIds -> Booking \cup {NoBooking}]
        /\ pc \in [Clients -> Steps] /\ job \in [Clients -> Job \cup {NoJob}]
        /\ NoBooking \notin Booking
    BY BookingsAssumptions DEF RacesInv, TypeInv, TypeOK
  <1>4. /\ HalfWritten(p) => ~Marked(b)
        /\ HalfWritten(p)' /\ pc'[p] # "idle" => ~Marked(b)'
    BY <1>1 DEF Marked
  <1>5. /\ pc[p] # "move" => ~MarkedAhead(p, x)
        /\ pc'[p] # "move" => ~MarkedAhead(p, x)'
    BY DEF MarkedAhead
  <1>6. CASE InsertBooking(p)
    <2>1. /\ pc[p] = "insert" /\ pc'[p] = "trail" /\ unavailable' = unavailable
          /\ bookings[b] = NoBooking
      BY <1>1, <1>3, <1>6 DEF InsertBooking, Goto, RacesInv, TypeInv, StepFits, IdsAreFresh
    <2>2. ~AccountedBy(p, b, x) /\ ~AccountedBy(p, b, x)'
      BY <1>4, <1>5, <2>1 DEF AccountedBy, HalfWritten, Marked, Active
    <2>3. QED
      BY <1>2, <2>1, <2>2
  <1>7. CASE SaveAuditEntry(p)
    <2>1. pc[p] = "trail" /\ pc'[p] = "mark" /\ unavailable' = unavailable
      BY <1>3, <1>7 DEF SaveAuditEntry, Goto
    <2>2. ~AccountedBy(p, b, x) /\ ~AccountedBy(p, b, x)'
      BY <1>4, <1>5, <2>1 DEF AccountedBy, HalfWritten
    <2>3. QED
      BY <1>2, <2>1, <2>2
  <1>8. CASE MarkDateUnavailable(p)
    <2> DEFINE y == DayOf[job[p].date]
    <2>1. /\ pc[p] = "mark" /\ unavailable' = unavailable \cup {y}
          /\ bookings' = bookings /\ job' = job /\ job[p].op \in {"create", "reschedule"}
          /\ pc'[p] = IF job[p].op = "create" THEN "unlock" ELSE "move"
      BY <1>3, <1>8 DEF MarkDateUnavailable, Goto, RacesInv, TypeInv, StepFits
    <2>2. ~AccountedBy(p, b, x)
      BY <1>4, <1>5, <2>1 DEF AccountedBy, HalfWritten
    <2>3. CASE job[p].op = "create"
      <3>1. pc'[p] = "unlock" /\ job[p].date = job[p].old /\ DaysOf(job[p]) = {y}
        BY <1>1, <2>1, <2>3 DEF OwnDates, DaysOf
      <3>2. ~BeforeInsert(p) /\ Working(p)
        BY <2>1 DEF BeforeInsert, Working
      <3>3. (Active(b) <=> Active(b)') /\ bookings'[b] = bookings[b]
        BY <2>1 DEF Active
      <3>4. CASE x = y
        <4>1. /\ Active(b) /\ bookings[b].date = job[p].old
              /\ \A q \in Clients : q # p /\ HalfWritten(q) => job[q].booking # b
          BY <1>1, <3>1, <3>2, <3>4, CleanReads
        <4>2. Marked(b)'
          BY <1>1, <2>1, <3>1, <3>3, <4>1 DEF Marked, HalfWritten
        <4>3. QED
          BY <2>1, <3>1, <3>3, <3>4, <4>1, <4>2 DEF AccountedBy
      <3>5. CASE x # y
        <4>1. DayOf[bookings[b].date] # x
          BY <1>1, <3>1, <3>2, <3>5, CleanReads
        <4>2. ~AccountedBy(p, b, x)'
          BY <1>5, <3>1, <3>3, <4>1 DEF AccountedBy
        <4>3. QED
          BY <1>2, <2>1, <2>2, <3>5, <4>2
      <3>6. QED
        BY <3>4, <3>5
    <2>4. CASE job[p].op = "reschedule"
      <3>1. pc'[p] = "move" /\ ~Marked(b)'
        BY <1>4, <2>1, <2>4 DEF HalfWritten
      <3>2. AccountedBy(p, b, x)' <=> x = y
        BY <2>1, <3>1 DEF AccountedBy, MarkedAhead
      <3>3. QED
        BY <1>2, <2>1, <2>2, <3>2
    <2>5. QED
      BY <2>1, <2>3, <2>4
  <1>9. CASE MarkDateAvailable(p)
    <2> DEFINE y == DayOf[job[p].old]
    <2>1. /\ pc[p] = "free" /\ unavailable' = unavailable \ {y} /\ pc'[p] \in {"cancel", "mark"}
          /\ job[p].op \in {"cancel", "reschedule"}
      BY <1>3, <1>9 DEF MarkDateAvailable, Goto, RacesInv, TypeInv, StepFits
    <2>2. ~BeforeInsert(p) /\ Working(p)
      BY <2>1 DEF BeforeInsert, Working
    <2>3. ~AccountedBy(p, b, x)'
      BY <1>4, <1>5, <2>1 DEF AccountedBy, HalfWritten
    <2>4. CASE x = y
      <3>1. Active(b) /\ bookings[b].date = job[p].old
        BY <1>1, <2>2, <2>4, CleanReads DEF DaysOf
      <3>2. ~AccountedBeside(p, b, x)
        BY <1>1, <2>2, <2>4, <3>1, CleanReads
      <3>3. QED
        BY <1>2, <2>1, <2>3, <2>4, <3>2
    <2>5. CASE x # y
      <3>1. DayOf[bookings[b].date] # x
        BY <1>1, <2>2, <2>5, CleanReads
      <3>2. ~AccountedBy(p, b, x)
        BY <1>5, <2>1, <3>1 DEF AccountedBy
      <3>3. QED
        BY <1>2, <2>1, <2>3, <2>5, <3>2
    <2>6. QED
      BY <2>4, <2>5
  <1>10. CASE SaveRescheduled(p)
    <2> DEFINE y == DayOf[job[p].date]
    <2>1. /\ pc[p] = "move" /\ pc'[p] = "unlock" /\ unavailable' = unavailable /\ job' = job
      BY <1>3, <1>10 DEF SaveRescheduled, Goto
    <2>2. ~BeforeInsert(p) /\ Working(p)
      BY <2>1 DEF BeforeInsert, Working
    <2>3. bookings[b] \in Booking
      BY <1>1, <2>2, CleanReads
    <2>4. /\ bookings'[b] \in Booking /\ bookings'[b].status = bookings[b].status
          /\ bookings'[b].date = IF job[p].date = job[p].old THEN bookings[b].date
                                                             ELSE job[p].date
      BY <1>1, <1>3, <1>10, <2>3 DEF SaveRescheduled, Booking, AuditActions, Job
    <2>5. AccountedBy(p, b, x) <=> x = y
      BY <1>4, <2>1 DEF AccountedBy, MarkedAhead, HalfWritten
    <2>6. AccountedBy(p, b, x)' <=> Marked(b)' /\ DayOf[bookings'[b].date] = x
      BY <1>5, <2>1 DEF AccountedBy
    <2>7. CASE x = y
      <3>1. /\ Active(b) /\ bookings[b].date = job[p].old
            /\ \A q \in Clients : q # p /\ HalfWritten(q) => job[q].booking # b
        BY <1>1, <2>2, <2>7, CleanReads DEF DaysOf
      <3>2. Active(b)' /\ bookings'[b].date = job[p].date
        BY <1>3, <2>4, <3>1 DEF Active
      <3>3. Marked(b)'
        BY <1>1, <2>1, <3>1, <3>2 DEF Marked, HalfWritten
      <3>4. QED
        BY <1>2, <2>1, <2>5, <2>6, <2>7, <3>2, <3>3
    <2>8. CASE x # y
      <3>1. DayOf[bookings'[b].date] # x
        <4>1. DayOf[bookings[b].date] = x => bookings[b].date = job[p].old
          BY <1>1, <2>2, CleanReads
        <4>2. QED
          BY <2>4, <2>8, <4>1
      <3>2. QED
        BY <1>2, <2>1, <2>5, <2>6, <2>8, <3>1
    <2>9. QED
      BY <2>7, <2>8
  <1>11. CASE SaveConfirmed(p)
    <2>1. /\ pc[p] = "confirm" /\ pc'[p] = "idle" /\ unavailable' = unavailable
          /\ raced' = raced \cup {z \in {DayOf[bookings[b].date]} : ~Active(b)}
      BY <1>3, <1>11 DEF SaveConfirmed, Finish
    <2>2. bookings[b] \in Booking
      BY <1>1, <1>3, <2>1 DEF RacesInv, TypeInv, DocumentsExist, StepFits
    <2>3. /\ bookings'[b] \in Booking /\ bookings'[b].status = "CONFIRMED"
          /\ bookings'[b].date = bookings[b].date
      BY <1>11, <2>2, <1>3 DEF SaveConfirmed, SaveStatus, Booking, Statuses, AuditActions
    <2>4. DayOf[bookings[b].date] = x => Active(b) /\ Active(b)'
      BY <1>1, <1>3, <2>1, <2>3 DEF Active, ActiveStatuses
    <2>5. \A q \in Clients : (HalfWritten(q)' => job'[q].booking # b)
                              <=> (HalfWritten(q) => job[q].booking # b)
      BY <1>1, <2>1 DEF HalfWritten
    <2>6. DayOf[bookings[b].date] = x => (Marked(b)' <=> Marked(b))
      BY <2>4, <2>5 DEF Marked
    <2>7. AccountedBy(p, b, x)' <=> AccountedBy(p, b, x)
      BY <1>5, <2>1, <2>3, <2>6 DEF AccountedBy
    <2>8. QED
      BY <1>2, <2>1, <2>7
  <1>12. CASE SaveCancelled(p)
    <2>1. pc[p] = "cancel" /\ pc'[p] = "idle" /\ unavailable' = unavailable
      BY <1>3, <1>12 DEF SaveCancelled, Finish
    <2>2. bookings[b] \in Booking
      BY <1>1, <1>3, <2>1 DEF RacesInv, TypeInv, DocumentsExist, StepFits
    <2>3. bookings'[b].status = "CANCELLED"
      BY <1>12, <2>2, <1>3 DEF SaveCancelled, SaveStatus, Booking
    <2>4. ~Marked(b) /\ ~Marked(b)'
      BY <1>4, <2>1, <2>3 DEF Marked, HalfWritten, Active, ActiveStatuses
    <2>5. QED
      BY <1>2, <1>5, <2>1, <2>4 DEF AccountedBy
  <1>13. CASE \/ Acquire(p) \/ AcquireFails(p) \/ CompareLock(p) \/ ReleaseLock(p)
              \/ CheckBanquet(p) \/ CheckAvailable(p) \/ CheckBooked(p)
    <2>1. /\ UNCHANGED <<bookings, unavailable>> /\ ~HalfWritten(p) /\ ~HalfWritten(p)'
      BY <1>3, <1>13 DEF Acquire, AcquireFails, CompareLock, ReleaseLock, CheckBanquet,
         CheckAvailable, CheckBooked, Goto, Finish, LeaveFrame, store, HalfWritten
    <2>2. \A q \in Clients : (HalfWritten(q)' => job'[q].booking # b)
                              <=> (HalfWritten(q) => job[q].booking # b)
      BY <1>1, <2>1 DEF HalfWritten
    <2>3. Marked(b)' <=> Marked(b)
      BY <2>1, <2>2 DEF Marked, Active
    <2>4. ~MarkedAhead(p, x) /\ ~MarkedAhead(p, x)'
      BY <1>5, <2>1 DEF HalfWritten
    <2>5. QED
      BY <1>2, <2>1, <2>3, <2>4 DEF AccountedBy
  <1>14. QED
    BY <1>6, <1>7, <1>8, <1>9, <1>10, <1>11, <1>12, <1>13 DEF Progress

LEMMA MarksAgreeNext ==
  ASSUME RacesInv, OwnDates, MeetingsDisturb, ReadsHold, MarksAgree, [Next]_vars
  PROVE  MarksAgree'
  <1> USE DEF MarksAgree
  <1>1. CASE Environment \/ UNCHANGED vars
    BY <1>1 DEF Environment, Accounted, Marked, MarkedAhead, HalfWritten, Active, Clean,
       history, store, vars
  <1>2. ASSUME NEW p \in Clients, Arrival(p) PROVE MarksAgree'
    <2>1. /\ UNCHANGED <<bookings, unavailable, raced>> /\ disturbed \subseteq disturbed'
          /\ pc[p] = "idle" /\ pc'[p] \in {"acquire", "confirm", "free"}
          /\ \A q \in Clients : q # p => pc'[q] = pc[q] /\ job'[q] = job[q]
      BY <1>2, ArrivalIsLocal DEF RacesInv
    <2>2. \A x : Accounted(x)' <=> Accounted(x)
      <3>1. \A b \in BookingIds : Marked(b)' <=> Marked(b)
        BY <2>1 DEF Marked, HalfWritten, Active
      <3>2. \A q \in Clients : \A x : MarkedAhead(q, x)' <=> MarkedAhead(q, x)
        BY <2>1 DEF MarkedAhead
      <3>3. QED
        BY <2>1, <3>1, <3>2 DEF Accounted
    <2>3. QED
      BY <2>1, <2>2 DEF Clean
  <1>3. ASSUME NEW p \in Clients, Fault(p), NEW x \in Days, Clean(x)'
        PROVE  x \in unavailable' <=> Accounted(x)'
    <2>1. /\ InFlight(p) /\ job[p] \in Job
          /\ \A q \in Clients : q # p => pc'[q] = pc[q] /\ job'[q] = job[q]
          /\ pc'[p] = "idle" \/ (pc'[p] = "unlock" /\ job'[p] = job[p])
          /\ UNCHANGED <<bookings, unavailable, raced>>
          /\ disturbed \subseteq disturbed'
          /\ HalfWritten(p) => DaysOf(job[p]) \subseteq disturbed'
      BY <1>3, FaultIsLocal DEF RacesInv
    <2>2. x \notin disturbed /\ Clean(x) /\ (HalfWritten(p) => x \notin DaysOf(job[p]))
      BY <1>3, <2>1 DEF Clean
    <2> PICK b \in BookingIds : b = job[p].booking
      BY <2>1 DEF Job
    <2>3. AccountedBeside(p, b, x)' <=> AccountedBeside(p, b, x)
      BY <2>1, BesideIsLeft
    <2>4. AccountedBy(p, b, x)' <=> AccountedBy(p, b, x)
      <3>1. ~MarkedAhead(p, x) /\ ~MarkedAhead(p, x)'
        BY <2>1, <2>2 DEF MarkedAhead, HalfWritten, DaysOf
      <3>2. CASE HalfWritten(p)
        <4>1. ~Marked(b)
          BY <3>2 DEF Marked
        <4>2. ~BeforeInsert(p) /\ Working(p)
          BY <3>2 DEF BeforeInsert, Working, HalfWritten
        <4>3. DayOf[bookings[b].date] = x => bookings[b].date = job[p].old
          BY <2>2, <4>2, CleanReads
        <4>4. DayOf[bookings[b].date] # x
          BY <2>2, <3>2, <4>3 DEF DaysOf
        <4>5. QED
          BY <2>1, <3>1, <4>1, <4>4 DEF AccountedBy
      <3>3. CASE ~HalfWritten(p)
        <4>1. Marked(b)' <=> Marked(b)
          BY <2>1, <3>3 DEF Marked, HalfWritten, Active
        <4>2. QED
          BY <2>1, <3>1, <4>1 DEF AccountedBy
      <3>4. QED
        BY <3>2, <3>3
    <2>5. QED
      BY <2>1, <2>2, <2>3, <2>4, AccountedSplits
  <1>4. ASSUME NEW p \in Clients, Progress(p), NEW x \in Days, Clean(x)'
        PROVE  x \in unavailable' <=> Accounted(x)'
    <2> PICK b \in BookingIds : b = job[p].booking
      BY <1>4, StepIsLocal DEF RacesInv, Job
    <2>1. Clean(x)
      BY <1>4, StepIsLocal DEF RacesInv, Clean
    <2>2. QED
      BY <1>4, <2>1, AccountedSplits, AccountedByStep
  <1>5. QED
    BY <1>1, <1>2, <1>3, <1>4 DEF Next

\* The availability record of a settled day agrees with the bookings, whatever
\* happens elsewhere, unless requests raced for the day, met on a booking of it, or
\* one of them failed between two of its writes.
THEOREM AvailabilityKept == Spec => []AvailabilityAgrees
  <1>1. Init => AvailabilityInv
    BY DEF Init, AvailabilityInv, OwnDates, MeetingsDisturb, ReadsHold, MarksAgree, InFlight,
       Working, Accounted, Marked, MarkedAhead, Active
  <1>2. ASSUME RacesInv, AvailabilityInv, [Next]_vars PROVE AvailabilityInv'
    BY <1>2, MeetingsDisturbNext, ReadsHoldNext, MarksAgreeNext DEF AvailabilityInv, RacesInv
  <1>3. RacesInv /\ AvailabilityInv => AvailabilityAgrees
    <2> SUFFICES ASSUME RacesInv, AvailabilityInv, NEW x \in Days,
                        x \notin raced \cup disturbed, Settled(x)
                 PROVE  x \in unavailable <=> IsDateBooked(x)
      BY DEF AvailabilityAgrees
    <2>1. ASSUME NEW p \in Clients PROVE ~MarkedAhead(p, x)
      BY DEF Settled, MarkedAhead, Working, DaysOf
    <2>2. ASSUME NEW b \in BookingIds, Active(b), DayOf[bookings[b].date] = x,
                 NEW p \in Clients, HalfWritten(p)
          PROVE  job[p].booking # b
      <3>1. Working(p) /\ ~BeforeInsert(p) /\ x \notin DaysOf(job[p])
        BY <2>2 DEF HalfWritten, Working, BeforeInsert, Settled
      <3>2. job[p].booking = b => bookings[b].date = job[p].old
        BY <2>2, <3>1, CleanReads DEF AvailabilityInv
      <3>3. QED
        BY <2>2, <3>1, <3>2 DEF DaysOf
    <2>3. Accounted(x) <=> IsDateBooked(x)
      BY <2>1, <2>2 DEF Accounted, Marked, IsDateBooked
    <2>4. QED
      BY <2>3 DEF AvailabilityInv, MarksAgree, Clean
  <1>4. QED
    BY <1>1, <1>2, <1>3, RacesInvAlways, PTL DEF Spec

-----------------------------------------------------------------------------
-----------------------------------------------------------------------------
(* How requests end.  RequestsEnd is a liveness property and stays with    *)
(* TLC; what it rests on is proved here for every instance: a request has  *)
(* at most Rank steps left, and nothing that other requests, Redis or the  *)
(* database do gives it more.                                              *)

Rank(p) ==
  CASE pc[p] = "acquire" -> 13 - held[p]
    [] pc[p] = "banquet" -> 11
    [] pc[p] = "available" -> 10
    [] pc[p] = "booked" -> 9
    [] pc[p] = "insert" -> 8
    [] pc[p] \in {"trail", "free"} -> 7
    [] pc[p] = "mark" -> 6
    [] pc[p] = "move" -> 5
    [] pc[p] = "unlock" -> 2 * held[p]
    [] pc[p] = "delete" -> 2 * held[p] - 1
    [] pc[p] \in {"confirm", "cancel"} -> 1
    [] pc[p] = "idle" -> 0

RankBounds == \A p \in Clients : Rank(p) \in 0..13 /\ (Rank(p) = 0 <=> ~InFlight(p))

LEMMA RankIsBounded == TypeInv => RankBounds
  <1> SUFFICES ASSUME TypeInv, NEW p \in Clients
               PROVE  Rank(p) \in 0..13 /\ (Rank(p) = 0 <=> ~InFlight(p))
    BY DEF RankBounds
  <1>1. pc[p] \in Steps /\ held[p] \in 0..2
    BY DEF TypeInv, TypeOK
  <1>2. pc[p] \in {"unlock", "delete"} => held[p] \in 1..2
    BY DEF TypeInv, StepFits, Frames
  <1>3. QED
    BY <1>1, <1>2 DEF Steps, Rank, InFlight

\* Each step of a request, a fault of its own included, lowers its rank.
LEMMA StepsDescend ==
  ASSUME TypeInv, NEW p \in Clients, Progress(p) \/ Fault(p)
  PROVE  Rank(p)' < Rank(p)
  <1>1. pc[p] \in Steps /\ held[p] \in 0..2 /\ Frames(p) \in 1..2
    BY DEF TypeInv, TypeOK, Frames
  <1>2. /\ pc[p] = "acquire" => held[p] < Frames(p)
        /\ pc[p] \in {"unlock", "delete"} => held[p] \in 1..2
        /\ pc[p] \in {"trail", "insert", "banquet"} => job[p].op = "create"
        /\ pc[p] = "free" => job[p].op \in {"cancel", "reschedule"}
        /\ pc[p] = "mark" => job[p].op \in {"create", "reschedule"}
    BY DEF TypeInv, StepFits, Frames
  <1>3. pc \in [Clients -> Steps] /\ held \in [Clients -> 0..2]
    BY DEF TypeInv, TypeOK
  <1>4. ASSUME Finish(p), InFlight(p) PROVE Rank(p)' < Rank(p)
    <2>1. Rank(p)' = 0
      BY <1>3, <1>4 DEF Finish, Rank
    <2>2. Rank(p) # 0 /\ Rank(p) \in 0..13
      BY <1>4, RankIsBounded DEF RankBounds
    <2>3. QED
      BY <2>1, <2>2
  <1>5. ASSUME LeaveFrame(p), pc[p] \in {"unlock", "delete"} PROVE Rank(p)' < Rank(p)
    <2>1. CASE held[p] = 2
      BY <1>3, <1>5, <2>1 DEF LeaveFrame, Rank
    <2>2. CASE held[p] # 2
      BY <1>4, <1>5, <2>2 DEF LeaveFrame, InFlight
    <2>3. QED
      BY <2>1, <2>2
  <1>6. CASE Acquire(p)
    BY <1>1, <1>2, <1>3, <1>6 DEF Acquire, Rank
  <1>7. CASE AcquireFails(p)
    <2>1. CASE held[p] = 0
      BY <1>4, <1>7, <2>1 DEF AcquireFails, InFlight
    <2>2. CASE held[p] # 0
      BY <1>1, <1>3, <1>7, <2>2 DEF AcquireFails, Rank
    <2>3. QED
      BY <2>1, <2>2
  <1>8. CASE CompareLock(p)
    <2>1. CASE Goto(p, "delete")
      BY <1>1, <1>2, <1>3, <1>8, <2>1 DEF CompareLock, Goto, Rank
    <2>2. CASE LeaveFrame(p)
      BY <1>5, <1>8, <2>2 DEF CompareLock
    <2>3. QED
      BY <1>8, <2>1, <2>2 DEF CompareLock
  <1>9. CASE ReleaseLock(p)
    BY <1>5, <1>9 DEF ReleaseLock
  <1>10. CASE CheckBanquet(p) \/ CheckAvailable(p) \/ CheckBooked(p)
    BY <1>1, <1>3, <1>10 DEF CheckBanquet, CheckAvailable, CheckBooked, Goto, Rank
  <1>11. CASE InsertBooking(p) \/ SaveAuditEntry(p) \/ SaveRescheduled(p)
    BY <1>1, <1>3, <1>11 DEF InsertBooking, SaveAuditEntry, SaveRescheduled, Goto, Rank
  <1>12. CASE MarkDateUnavailable(p) \/ MarkDateAvailable(p)
    BY <1>1, <1>3, <1>12 DEF MarkDateUnavailable, MarkDateAvailable, Goto, Rank
  <1>13. CASE SaveConfirmed(p) \/ SaveCancelled(p) \/ Crash(p)
    BY <1>4, <1>13 DEF SaveConfirmed, SaveCancelled, Crash, InFlight
  <1>14. CASE DatabaseError(p)
    <2>1. CASE held[p] = 0
      BY <1>4, <1>14, <2>1 DEF DatabaseError, InFlight
    <2>2. CASE held[p] # 0
      <3>1. pc[p] \notin {"idle", "acquire", "unlock", "delete", "confirm", "cancel"}
        BY <1>14, <2>2 DEF DatabaseError, TypeInv, StepFits
      <3>2. Rank(p) \in 5..11
        BY <1>1, <3>1 DEF Rank, Steps
      <3>3. Rank(p)' \in {2, 4}
        BY <1>1, <1>3, <1>14, <2>2 DEF DatabaseError, Rank
      <3>4. QED
        BY <3>2, <3>3
    <2>3. QED
      BY <2>1, <2>2
  <1>15. QED
    BY <1>6, <1>7, <1>8, <1>9, <1>10, <1>11, <1>12, <1>13, <1>14 DEF Progress, Fault

\* A running request only ever gets nearer to its end: a step lowers its rank if it
\* is one of its own, and leaves it where it stands otherwise.  So none takes more
\* than thirteen steps, and none is ever sent back to wait for a lock again.
RequestsWindDown ==
  [][\A p \in Clients : InFlight(p) =>
       \/ Rank(p)' < Rank(p)
       \/ UNCHANGED <<pc[p], job[p], held[p]>> /\ ~Progress(p)]_vars

THEOREM RequestsDescend == Spec => []RankBounds /\ RequestsWindDown
  <1>1. ASSUME TypeInv, [Next]_vars
        PROVE  [\A p \in Clients : InFlight(p) =>
                  \/ Rank(p)' < Rank(p)
                  \/ UNCHANGED <<pc[p], job[p], held[p]>> /\ ~Progress(p)]_vars
    <2> SUFFICES ASSUME NEW p \in Clients, InFlight(p), Next,
                        ~(Progress(p) \/ Fault(p))
                 PROVE  UNCHANGED <<pc[p], job[p], held[p]>>
      BY <1>1, StepsDescend
    <2>1. CASE Environment
      BY <2>1 DEF Environment
    <2>2. ASSUME NEW q \in Clients, q # p, Arrival(q)
          PROVE  UNCHANGED <<pc[p], job[p], held[p]>>
      BY <1>1, <2>2 DEF Arrival, CreateBooking, ConfirmBooking, CancelBooking,
         RescheduleBooking, Accept, TypeInv, TypeOK
    <2>3. ~Arrival(p)
      BY DEF Arrival, CreateBooking, ConfirmBooking, CancelBooking, RescheduleBooking,
         Accept, InFlight
    <2>4. ASSUME NEW q \in Clients, q # p, Progress(q) \/ Fault(q)
          PROVE  UNCHANGED <<pc[p], job[p], held[p]>>
      BY <1>1, <2>4 DEF Progress, Fault, Acquire, AcquireFails, CompareLock, ReleaseLock,
         CheckBanquet, CheckAvailable, CheckBooked, InsertBooking, SaveAuditEntry,
         MarkDateUnavailable, MarkDateAvailable, SaveRescheduled, SaveConfirmed,
         SaveCancelled, DatabaseError, Crash, Goto, Finish, LeaveFrame, TypeInv, TypeOK
    <2>5. QED
      BY <2>1, <2>2, <2>3, <2>4 DEF Next
  <1>2. QED
    BY <1>1, RankIsBounded, TypeInvAlways, PTL DEF Spec, RequestsWindDown
=============================================================================
