---------------------------- MODULE MCBookings ----------------------------
(* Small instances of Bookings, on a server whose time zone lies east of     *)
(* UTC: the early hours of its Monday are still Sunday in UTC, so that two   *)
(* of its days share a lock key.                                             *)
EXTENDS Bookings, TLC

CONSTANTS sunNoon, monEarly,  \* instants
          sun, mon,           \* local days
          sunUTC              \* lock key

LocalDay == (sunNoon :> sun) @@ (monEarly :> mon)
KeyOfUTCDay == [d \in EventDates |-> sunUTC]

\* A calendar already in use: each of Booked, at most one instant of a day,
\* carries a pending booking.
CONSTANT Booked
PlaceOf == CHOOSE at \in [Booked -> BookingIds] :
             \A d, e \in Booked : at[d] = at[e] => d = e
SeededBooking(b) ==
  LET dates == {d \in Booked : PlaceOf[d] = b}
  IN IF dates = {} THEN NoBooking
     ELSE [status |-> "PENDING", date |-> CHOOSE d \in dates : TRUE,
           trail |-> {"BOOKING_CREATED"}]
SeededInit ==
  /\ LockInit
  /\ bookings = [b \in BookingIds |-> SeededBooking(b)]
  /\ unavailable = {DayOf[d] : d \in Booked}
  /\ pc = [p \in Clients |-> "idle"]
  /\ job = [p \in Clients |-> NoJob]
  /\ held = [p \in Clients |-> 0]
  /\ requests = 0
  /\ faulted = FALSE
  /\ raced = {}
  /\ disturbed = {}

SeededSpec ==
  SeededInit /\ [][Next]_vars /\ \A p \in Clients : WF_vars(Progress(p))
===========================================================================
