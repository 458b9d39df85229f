SPECIFICATION ContractsSpec
CONSTANTS
  Leases = {l1, l2}
  Cycles = {"monthly", "one_time"}
  CycleLength <- TwoDays
  LastDay = 2
  MaxManual = 1
  Workers = {w1}
  Billers = {b1}
  Templates = {a, b, c}
  Months = 2
  MonthLength = 2
  Prices = {3, 5}
  Parts = 2
  Owned = {1, 2}
  Fees = {0, 1}
  CalendarDays = 1
  Syncs = {job, page}
  MaxEntries = 2
  Properties = {"p1", "p2"}
  Units = {"u1", "u2"}
  PropertyOf <- OneUnitEach
  Users = {"a"}
  Forms = {"f1"}
  Guests = {"g1"}
  WizardDays = 1
  Windows = {t1, t2}
  MaxBookings = 2
CHECK_DEADLOCK FALSE
INVARIANTS
  OneInvoicePerPeriod AtMostOneDefault PayoutsAddUp CalendarIsCopied UnitsFit
  ContractsTypeOK
