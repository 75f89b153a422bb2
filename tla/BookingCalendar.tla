-------------------------- MODULE BookingCalendar --------------------------
(***************************************************************************)
(* What the booking service promises its clients.  A request asks for a    *)
(* change that the calendar allows when it asks; a create or reschedule is *)
(* then granted its day, if no active booking has it; and the change is    *)
(* made at once, or never.  Nothing keeps two requests from being granted  *)
(* one day: such a day is raced for, and only there may bookings collide.  *)
(***************************************************************************)
CONSTANTS
  Clients,      \* request slots
  BookingIds,   \* identities of bookings
  EventDates,   \* instants an event may be booked for
  FutureDates,  \* those that are not in the past
  Days,         \* calendar days of the server's time zone
  DayOf,        \* [EventDates -> Days]
  Requests,     \* [op, booking, date, old]: a change, and the date it starts from
  NoBooking

VARIABLES
  calendar,  \* [BookingIds -> [status, date] or NoBooking]
  asked,     \* [Clients -> SUBSET Requests], the request that is not decided
  claimed,   \* [Clients -> SUBSET Days], the day it has been granted
  raced      \* days that were granted to two requests at once, or taken back

Entry == [status : {"PENDING", "CONFIRMED", "CANCELLED", "COMPLETED", "REFUNDED"},
          date : EventDates]

calendarVars == <<calendar, asked, claimed, raced>>

Taken(b) ==
  calendar[b] # NoBooking /\ calendar[b].status \in {"PENDING", "CONFIRMED"}

Free(x) == \A b \in BookingIds : Taken(b) => DayOf[calendar[b].date] # x

\* Two active bookings are on the same day only if the day was raced for.
OnePerDay ==
  \A b, c \in BookingIds :
    Taken(b) /\ Taken(c) /\ DayOf[calendar[b].date] = DayOf[calendar[c].date]
      => b = c \/ DayOf[calendar[b].date] \in raced

\* The calendar may be in use already.
Init ==
  /\ calendar \in [BookingIds -> Entry \cup {NoBooking}]
  /\ OnePerDay
  /\ asked = [p \in Clients |-> {}]
  /\ claimed = [p \in Clients |-> {}]
  /\ raced = {}

Allowed(r) ==
  \/ r.op = "create" /\ calendar[r.booking] = NoBooking /\ r.date \in FutureDates
  \/ /\ r.op \in {"confirm", "cancel", "reschedule"} /\ Taken(r.booking)
     /\ r.op = "confirm" => calendar[r.booking].status = "PENDING"
     /\ calendar[r.booking].date = r.old

Ask(p, r) ==
  /\ Allowed(r)
  /\ asked' = [asked EXCEPT ![p] = {r}]
  /\ UNCHANGED <<calendar, claimed, raced>>

Grant(p, r) ==
  LET x == DayOf[r.date] IN
  /\ r.op \in {"create", "reschedule"}
  /\ claimed[p] = {}
  /\ Free(x)
  /\ claimed' = [claimed EXCEPT ![p] = {x}]
  /\ raced' = raced \cup {y \in {x} : \E q \in Clients : y \in claimed[q]}
  /\ UNCHANGED <<calendar, asked>>

\* The request is decided.
Decide(p) ==
  /\ asked' = [asked EXCEPT ![p] = {}]
  /\ claimed' = [claimed EXCEPT ![p] = {}]

Book(p, r) ==
  /\ r.op = "create"
  /\ DayOf[r.date] \in claimed[p]
  /\ calendar[r.booking] = NoBooking
  /\ calendar' = [calendar EXCEPT ![r.booking] = [status |-> "PENDING", date |-> r.date]]
  /\ Decide(p)
  /\ UNCHANGED raced

Reschedule(p, r) ==
  /\ r.op = "reschedule"
  /\ DayOf[r.date] \in claimed[p]
  /\ calendar' = [calendar EXCEPT ![r.booking].date = IF r.date = r.old THEN @ ELSE r.date]
  /\ Decide(p)
  /\ UNCHANGED raced

\* A confirmation that a cancellation came before takes the day back.
Confirm(p, r) ==
  /\ r.op = "confirm"
  /\ calendar' = [calendar EXCEPT ![r.booking].status = "CONFIRMED"]
  /\ raced' = raced \cup {y \in {DayOf[calendar[r.booking].date]} : ~Taken(r.booking)}
  /\ Decide(p)

Cancel(p, r) ==
  /\ r.op = "cancel"
  /\ calendar' = [calendar EXCEPT ![r.booking].status = "CANCELLED"]
  /\ Decide(p)
  /\ UNCHANGED raced

\* Refused, or lost by a failure.
Drop(p) ==
  /\ asked[p] # {}
  /\ Decide(p)
  /\ UNCHANGED <<calendar, raced>>

\* (The second conjunct follows from Ask; it spares TLC most of Requests.)
Next ==
  \E p \in Clients :
    \/ asked[p] = {} /\ asked'[p] # {} /\ \E r \in Requests : Ask(p, r)
    \/ \E r \in asked[p] :
         Grant(p, r) \/ Book(p, r) \/ Reschedule(p, r) \/ Confirm(p, r) \/ Cancel(p, r)
    \/ Drop(p)

Spec == Init /\ [][Next]_calendarVars

\* A day that was granted and not raced for is still free.
GrantsHold ==
  \A p \in Clients : \A x \in claimed[p] \ raced :
    /\ Free(x)
    /\ \A q \in Clients : q # p => x \notin claimed[q]
============================================================================
