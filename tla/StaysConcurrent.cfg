SPECIFICATION Spec
CONSTANTS
  Reservations = {r1, r2}
  Units = {u1}
  HasLock = {u1}
  LastDay = 1
  FirstDays = {0}
  MaxCodes = 1
  Workers = {w1, w2}
  Schedulers = {}
  LockResults = {"ok"}
  PageKeys = {k1}
  Links = {r1, r2}
  Payable = {r1, r2}
SYMMETRY Symmetry
CHECK_DEADLOCK FALSE
PROPERTIES CheckInRestsOnACode OnlyStaleCancelUnpays
