SPECIFICATION SeededSpec
CONSTANTS
  Clients = {p, q}
  BookingIds = {b1, b2, b3}
  sunNoon = sunNoon
  monEarly = monEarly
  sun = sun
  mon = mon
  sunUTC = sunUTC
  EventDates = {sunNoon, monEarly}
  FutureDates = {monEarly}
  Days = {sun, mon}
  LockKeys = {sunUTC}
  DayOf <- LocalDay
  LockKeyOf <- KeyOfUTCDay
  Booked = {monEarly}
  NoLock = NoLock
  NoBooking = NoBooking
  NoJob = NoJob
  MaxRequests = 3
INVARIANT TypeOK
INVARIANT NoDoubleBooking
INVARIANT AvailabilityAgrees
INVARIANT AuditAccounts
PROPERTY SavesArePartial
PROPERTY ImplementsCalendar
PROPERTY RequestsEnd
