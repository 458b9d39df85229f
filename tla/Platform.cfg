SPECIFICATION PlatformSpec
CONSTANTS
  Workers = {w1, w2}
  Pool = {c1, c2}
  Backups = 2
  Units = {u1, u2}
  Blocked = {u2}
  CalendarDays = 3
  MaxStays = 2
  Invoices = {i1, i2}
  Bills <- SomeBills
  Places = {"p1"}
  Kinds = {"rent", "deposit"}
  Amounts = {1}
  MonthStarts = {0, 3, 5}
  Width = 1
  Week = 2
  MaxExpenses = 1
  MaxRows = 3
  ListedRows <- SomeRows
  Users = {"me"}
  PageSize = 1
  Cap = 2
  Limit = 2
  Properties = {p1}
  Flats = {f1}
  Pictures = {n1, n2}
  Uploaders = {w1, w2}
  Persons = {ann}
  Orgs = {o1, o2}
  MaxUsers = 2
  MaxGuests = 1
  MaxWritten = 1
  Keys = {"ui.theme"}
  Theme = "ui.theme"
  Seeds = {"ui.theme"}
  Tabs = {t1, t2}
  Types = {"string", "int", "bool", "json", "decimal"}
  Typed = {"", "7", "true", "'7'"}
CHECK_DEADLOCK FALSE
INVARIANTS
  PlatformTypeOK BackupsAreSound CalendarIsTold
  BooksBalance PagesMissNothing RecordsAreKept
PROPERTIES SafeCopyFirst
