SPECIFICATION QueuesSpec
CONSTANTS
  Subs = {1, 2}
  Events = {e1, e2}
  MaxFailures = 2
  SyncMax = 1
  Publishers = {w1}
  Executors = {x1}
  Jobs = {j1}
  Mails = {m1, m2}
  MaxAttempts = 2
  Senders = {s1}
  Admins = {a1}
CHECK_DEADLOCK FALSE
INVARIANTS TypeOK OnlyDisabledAreDropped LimitDisables
PROPERTIES AcceptedIsNotReposted DisabledComesToRest SentIsNotResent EveryMailEnds
