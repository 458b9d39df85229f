SPECIFICATION Spec
CONSTANTS
  Reservations = {r1, r2}
  Units = {u1, u2}
  HasLock = {}
  LastDay = 3
  FirstDays = {0, 1, 2}
  MaxCodes = 0
  Workers = {w1}
  Schedulers = {}
  LockResults = {"ok"}
  PageKeys = {}
  Links = {}
  Payable = {}
CHECK_DEADLOCK FALSE
INVARIANT NoDoubleBooking
PROPERTY ImplementsUnitCalendar
