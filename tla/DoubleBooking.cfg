SPECIFICATION Spec
CONSTANTS
  Reservations = {r1, r2}
  Units = {u1}
  HasLock = {}
  LastDay = 2
  FirstDays = {0, 1}
  MaxCodes = 0
  Workers = {w1, w2}
  Schedulers = {}
  LockResults = {"ok"}
  PageKeys = {}
  Links = {}
  Payable = {}
CHECK_DEADLOCK FALSE
INVARIANT NoDoubleBooking
