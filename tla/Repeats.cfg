SPECIFICATION RepeatsSpec
CONSTANTS
  Requests = {r1, r2, r3}
  Bodies = {b1, b2}
  Ids = {1, 2}
  Deliveries = {d1, d2}
  Contents = {c1, c2}
  GiveUp = 3
  Workers = {w1, w2}
  MaxAttempts = 2
  Window = 2
  MaxRecords = 6
  Guests = {g}
  Admins = {s}
  Clerks = {w1}
  Life <- OneTick
  Codes = 2
  MaxLinks = 1
  MaxSets = 2
  MaxLost = 1
CHECK_DEADLOCK FALSE
INVARIANTS RepeatsTypeOK KeysAreSound ProcessedWasHandled LoginsAreSound
PROPERTIES AcceptedEventEnds
