SPECIFICATION Spec
CONSTANTS
  Clients = {p, q}
  BookingIds = {b1, b2, b3}
  sunNoon = sunNoon
  monEarly = monEarly
  sun = sun
  mon = mon
  sunUTC = sunUTC
  EventDates = {sunNoon, monEarly}
  FutureDates = {monEarly}
  Days = {sun, mon}
  LockKeys = {sunUTC}
  DayOf <- LocalDay
  LockKeyOf <- KeyOfUTCDay
  Booked = {}
  NoLock = NoLock
  NoBooking = NoBooking
  NoJob = NoJob
  MaxRequests = 3
INVARIANT LockExclusion
