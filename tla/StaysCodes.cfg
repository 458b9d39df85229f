SPECIFICATION FairSpec
CONSTANTS
  Reservations = {r1}
  Units = {u1}
  HasLock = {u1}
  LastDay = 2
  FirstDays = {0}
  MaxCodes = 2
  Workers = {w1}
  Schedulers = {s1}
  LockResults = {"ok", "nameless", "error", "lost"}
  PageKeys = {}
  Links = {r1}
  Payable = {}
CHECK_DEADLOCK FALSE
INVARIANTS TypeOK NamedRevokedAreDead
PROPERTY ExpiredCodesAreRevoked
