----------------------------- MODULE MCPlatform -----------------------------
(* What the application keeps and shows beside its contracts, for TLC:     *)
(* backups, the views of the calendar, the reports, the lists, the         *)
(* galleries, the people and the settings.  They share no state; "part"    *)
(* says which of them moves, as in MCQueues.                               *)
EXTENDS Backups

CONSTANTS
  Units, Blocked, CalendarDays, MaxStays,                 \* CalendarViews
  Invoices, Bills, Places, Kinds, Amounts, MonthStarts,   \* Reports
  Width, Week, MaxExpenses,
  MaxRows, ListedRows, Users, PageSize, Cap, Limit,       \* Lists
  Properties, Flats, Pictures, Uploaders,                 \* Gallery
  Persons, Orgs, MaxUsers, MaxGuests, MaxWritten,         \* People
  Keys, Theme, Seeds, Tabs, Types, Typed                  \* Settings

VARIABLES
  part,
  stays, work, viewDay,
  inv, spent, reportDay,
  row, reader, export, saved,
  property, unit, picture, files, used, dropping, galReq,
  users, guests, nextUser, nextGuest, links, comments, notices, authored, erasing,
  setting, page, sent

viewVars  == <<stays, work, viewDay>>
moneyVars == <<inv, spent, reportDay>>
listVars  == <<row, reader, export, saved>>
galVars   == <<property, unit, picture, files, used, dropping, galReq>>
manVars   == <<users, guests, nextUser, nextGuest, links, comments, notices,
               authored, erasing>>
setVars   == <<setting, page, sent>>

Views == INSTANCE CalendarViews WITH today <- viewDay, LastDay <- CalendarDays
Money == INSTANCE Reports WITH today <- reportDay
Pages == INSTANCE Lists WITH Rows <- ListedRows
Gal   == INSTANCE Gallery WITH Units <- Flats, Workers <- Uploaders, req <- galReq
Man   == INSTANCE People WITH MaxRows <- MaxWritten, made <- authored
Set   == INSTANCE Settings

ASSUME Assumptions ==
  /\ BackupsAssumption /\ Views!ViewsAssumption
  /\ Money!ReportsAssumption /\ Pages!ListsAssumption /\ Gal!GalleryAssumption
  /\ Man!PeopleAssumption /\ Set!SettingsAssumption

(* Rows as a list may hold them, of two days.                              *)
ARow(d, st, kind, found, tags) ==
  [day |-> d, status |-> st, kind |-> kind, found |-> found, tags |-> tags]
SomeRows ==
  {ARow(1, "open", "guest", TRUE, 1), ARow(0, "open", "guest", FALSE, 1),
   ARow(1, "done", "reservation", FALSE, 1), ARow(0, "open", "invoice", TRUE, 0)}

(* Invoices that belong to a property by a lease, by a stay and not at     *)
(* all, and that fall due on the days of two months.                       *)
Unpaid == CHOOSE d \in MonthStarts : \A e \in MonthStarts : e <= d
ABill(due, kind, lease, stay) ==
  [status |-> "open", due |-> due, paid |-> Unpaid, total |-> 1, kind |-> kind, method |-> "manual", lease |-> lease, stay |-> stay]
SomeBills ==
  {ABill(0, "rent", "p1", "Tuntematon"), ABill(2, "deposit", "Tuntematon", "p1"),
   ABill(4, "rent", "Tuntematon", "Tuntematon")}

-----------------------------------------------------------------------------
PlatformInit ==
  /\ part \in {"backups", "views", "money", "pages", "gallery", "people",
               "settings"}
  /\ Init /\ Views!Init /\ Money!Init /\ Pages!Init /\ Gal!Init
  /\ Man!Init /\ Set!Init

PlatformNext ==
  \/ /\ part = "backups" /\ Next
     /\ UNCHANGED <<part, viewVars, moneyVars, listVars, galVars, manVars, setVars>>
  \/ /\ part = "views" /\ Views!Next
     /\ UNCHANGED <<part, vars, moneyVars, listVars, galVars, manVars, setVars>>
  \/ /\ part = "money" /\ Money!Next
     /\ UNCHANGED <<part, vars, viewVars, listVars, galVars, manVars, setVars>>
  \/ /\ part = "pages" /\ Pages!Next
     /\ UNCHANGED <<part, vars, viewVars, moneyVars, galVars, manVars, setVars>>
  \/ /\ part = "gallery" /\ Gal!Next
     /\ UNCHANGED <<part, vars, viewVars, moneyVars, listVars, manVars, setVars>>
  \/ /\ part = "people" /\ Man!Next
     /\ UNCHANGED <<part, vars, viewVars, moneyVars, listVars, galVars, setVars>>
  \/ /\ part = "settings" /\ Set!Next
     /\ UNCHANGED <<part, vars, viewVars, moneyVars, listVars, galVars, manVars>>

PlatformSpec ==
  PlatformInit /\
  [][PlatformNext]_<<part, vars, viewVars, moneyVars, listVars, galVars,
                     manVars, setVars>>

-----------------------------------------------------------------------------
(* What does not move is as it begins, which the part that moves it has    *)
(* among its states: each property is about one part.                      *)

(* Every variable of the seven parts keeps its type.                       *)
PlatformTypeOK ==
  /\ part = "backups" => BackupsTypeOK
  /\ part = "views" => Views!ViewsTypeOK
  /\ part = "money" => Money!ReportsTypeOK
  /\ part = "pages" => Pages!ListsTypeOK
  /\ part = "gallery" => Gal!GalleryTypeOK
  /\ part = "people" => Man!PeopleTypeOK
  /\ part = "settings" => Set!SettingsTypeOK

(* The lists, the dashboard, the matrix and the report tell one calendar:  *)
(* they agree on the units taken, and a night that is taken never shows as *)
(* free (list_units_with_availability_status, availability_matrix).        *)
CalendarIsTold ==
  part = "views" => Views!ViewsAgree /\ Views!TakenNeverLooksFree

(* The reports on one period agree, their pages for one property and the   *)
(* dashboard with them, every overdue invoice has its bucket, and the      *)
(* forecast counts the days rent is due (reports/services.py).             *)
BooksBalance == part = "money" =>
  /\ Money!ReportsBalance /\ Money!PlacesAgree /\ Money!DashboardAgrees
  /\ Money!AgingIsComplete /\ Money!ForecastCountsDueDays

(* Turning the pages of a list that grows, exporting it and searching miss *)
(* no row (the queries with offset and limit, search_all_resources).       *)
PagesMissNothing == part = "pages" =>
  Pages!PagesAreWhole /\ Pages!ExportIsWhole /\ Pages!SearchShowsAll

(* Records stay whole: a picture that is shown has its files, however many *)
(* workers upload and delete (properties/images.py), labels and comments   *)
(* stay within their organization (_resolve_target), and a form that is    *)
(* sent as it was shown keeps a setting's value, but for a secret JSON     *)
(* string (settings_edit).                                                 *)
RecordsAreKept ==
  /\ part = "gallery" => Gal!ShownIsThere
  /\ part = "people" => Man!RecordsStayAtHome
  /\ part = "settings" => Set!SavedAsShown
=============================================================================
