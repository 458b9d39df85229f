--------------------------- MODULE CalendarViews ---------------------------
(* What the pages and the reports say of the calendar of one organization: *)
(* the states of the units (properties/services.py), the availability      *)
(* matrix and the quick lookup (reservations/services.py), the dashboard   *)
(* (admin/services.py) and the occupancy report (reports/services.py).     *)
(* Each computes, with comparisons of its own, which units are taken; the  *)
(* reference is BookedNight.  One worker changes the calendar, so that the *)
(* stays of a unit do not overlap (UnitCalendar).  Left out: names, links, *)
(* colours and the order of the rows, on which no count depends.            *)
EXTENDS Integers, FiniteSets

CONSTANTS
  Units, Blocked,   \* the units, and those of a type like "out_of_service"
  LastDay,          \* days are 0 .. LastDay
  MaxStays          \* how many stays are ever made

ViewsAssumption ==
  /\ Blocked \subseteq Units
  /\ LastDay \in Nat \ {0} /\ MaxStays \in Nat

VARIABLES
  stays,    \* the reservations made so far
  work,     \* the open maintenance requests: unit and due day, or NoDay
  today

vars == <<stays, work, today>>

Days == 0 .. LastDay
NoDay == LastDay + 1
Stays == {s \in [unit : Units, from : Days, to : Days,
                 status : {"confirmed", "cancelled"}] : s.from < s.to}
Works == Units \X (Days \cup {NoDay})

Init == stays = {} /\ work = {} /\ today = 0

-----------------------------------------------------------------------------
Confirmed == {s \in stays : s.status = "confirmed"}
Of(u) == {s \in Confirmed : s.unit = u}
Nights(s) == s.from .. s.to - 1

(* create_reservation, cancel_reservation.                                 *)
Book(s) ==
  /\ s.status = "confirmed" /\ Cardinality(stays) < MaxStays
  /\ \A t \in Of(s.unit) : Nights(s) \cap Nights(t) = {}
  /\ s \notin stays /\ stays' = stays \cup {s}
  /\ UNCHANGED <<work, today>>

Cancel(s) ==
  /\ s \in Confirmed
  /\ stays' = (stays \ {s}) \cup {[s EXCEPT !.status = "cancelled"]}
  /\ UNCHANGED <<work, today>>

(* A maintenance request is opened, and is resolved or cancelled.          *)
Open(w) == /\ work = {} /\ work' = {w} /\ UNCHANGED <<stays, today>>
Close(w) == /\ w \in work /\ work' = work \ {w} /\ UNCHANGED <<stays, today>>

NextDay ==
  /\ today < LastDay /\ today' = today + 1 /\ UNCHANGED <<stays, work>>

Next ==
  \/ \E s \in Stays : Book(s) \/ Cancel(s)
  \/ \E w \in Works : Open(w) \/ Close(w)
  \/ NextDay

Spec == Init /\ [][Next]_vars

-----------------------------------------------------------------------------
(* list_units_with_availability_status.                                    *)
Ongoing(u, d) == \E s \in Of(u) : s.from < d /\ d < s.to
Ending(u, d) == \E s \in Of(u) : s.to = d
Starting(u, d) == \E s \in Of(u) : s.from = d /\ s.to > d
WorkDue(u, d) == \E w \in work : w[1] = u /\ (w[2] = NoDay \/ w[2] <= d)

(* Seeded fault: a unit whose guest arrives today is not reserved yet.     *)
UnitStateLate(u, d) ==
  IF u \in Blocked THEN "blocked"
  ELSE IF Ending(u, d) /\ Starting(u, d) THEN "transition"
  ELSE IF Ongoing(u, d) THEN "reserved"
  ELSE IF WorkDue(u, d) THEN "maintenance" ELSE "free"

UnitState(u, d) ==
  IF u \in Blocked THEN "blocked"
  ELSE IF Ending(u, d) /\ Starting(u, d) THEN "transition"
  ELSE IF Ongoing(u, d) \/ Starting(u, d) THEN "reserved"
  ELSE IF WorkDue(u, d) THEN "maintenance" ELSE "free"

(* get_unit_status_overview: of the stays that concern the day, the one    *)
(* that arrives ranks before the one that departs.                         *)
Overview(u, d) ==
  IF u \in Blocked THEN "blocked"
  ELSE IF \E s \in Of(u) : s.from = d THEN "arriving"
  ELSE IF Ending(u, d) THEN "departing"
  ELSE IF \E s \in Of(u) : s.from <= d /\ d < s.to THEN "occupied" ELSE "free"

(* availability_matrix for the days a .. b: reserved nights, over them the *)
(* maintenance that falls due, over the reserved ones the departures; an   *)
(* arrival shows on a free day only.                                       *)
InWindow(u, a, b) == {s \in Of(u) : s.from < b + 1 /\ s.to > a}

MatrixBase(u, d, a, b) ==
  IF \E w \in work : w = <<u, d>> THEN "maintenance"
  ELSE IF \E s \in InWindow(u, a, b) : d \in Nights(s) THEN "reserved" ELSE "free"

Matrix(u, d, a, b) ==
  LET base == MatrixBase(u, d, a, b)
      shown == InWindow(u, a, b)
  IN  IF u \in Blocked THEN "blocked"
      ELSE IF base # "maintenance" /\ (\E s \in shown : s.to = d) THEN "checkout"
      ELSE IF base = "free" /\ (\E s \in shown : s.from = d) THEN "checkin"
      ELSE base

(* get_quick_availability: the days a unit is offered for.                 *)
FreeDays(u, a, b) == {d \in a .. b : Matrix(u, d, a, b) \in {"free", "checkout"}}

(* occupancy_report; get_dashboard_stats' current_guests; a day of         *)
(* get_week_overview; get_calendar_events.                                 *)
ReportedUnits(a, b) == {u \in Units : \E s \in Of(u) : s.from < b /\ s.to > a}
CurrentGuests(d) == Cardinality({s \in Confirmed : s.from <= d /\ d < s.to})
WeekCount(start, d) ==
  Cardinality({s \in Confirmed : /\ s.from <= start + 6 /\ s.to > start
                                 /\ s.from <= d /\ d < s.to})
Events(a, b) == {s \in stays : s.to > a /\ s.from < b}

(* The dashboard's arrivals and departures from day a to day b, and the    *)
(* units it lists as free now (get_dashboard_stats).                       *)
Arrivals(a, b) == Cardinality({s \in Confirmed : s.from \in a .. b})
Departures(a, b) == Cardinality({s \in Confirmed : s.to \in a .. b})
(* dashboard_summary: the stays under way before day a, and from then on   *)
(* the arrivals and departures up to day d.                                *)
Trend(a, d) ==
  Cardinality({s \in Confirmed : s.from < a /\ s.to > a})
    + Arrivals(a, d) - Departures(a, d)

FreeNow == {u \in Units : UnitState(u, today) = "free"}

-----------------------------------------------------------------------------
BookedNight(u, d) == \E s \in Of(u) : d \in Nights(s)
Booked(d) == {u \in Units : BookedNight(u, d)}

ViewsTypeOK ==
  /\ stays \subseteq Stays /\ work \subseteq Works /\ today \in Days

(* The list of the units, the overview of the dashboard, its counts, the   *)
(* week and the report agree on which units are taken tonight, and tonight *)
(* follows from last night, the arrivals and the departures: comparisons   *)
(* of dates written in three files (properties/services.py 486,            *)
(* admin/services.py 169, 264, 307, 868, reports/services.py 16).  The     *)
(* trend does so too, but counts off those who left on its first day,      *)
(* whom it had not counted.                                                *)
ViewsAgree ==
  /\ \A u \in Units \ Blocked :
       /\ UnitState(u, today) \in {"reserved", "transition"} <=> BookedNight(u, today)
       /\ Overview(u, today) \in {"arriving", "occupied"} <=> BookedNight(u, today)
  /\ FreeNow \cap Booked(today) = {}
  /\ CurrentGuests(today) = Cardinality(Booked(today))
  /\ CurrentGuests(today) =
       CurrentGuests(today - 1) + Arrivals(today, today) - Departures(today, today)
  /\ \A start \in Days : today \in start .. start + 6 =>
       WeekCount(start, today) = CurrentGuests(today)
  /\ ReportedUnits(today, today + 1) = Booked(today)
  /\ \A a \in 0 .. today : Trend(a, today) = CurrentGuests(today) -
       Cardinality({s \in Confirmed : s.from < a /\ s.to = a})

(* Whatever window is shown, a night that is taken never shows as free,    *)
(* and a stay that has a day in the window is on the calendar.             *)
TakenNeverLooksFree ==
  \A a \in Days, b \in Days : \A d \in a .. b : \A u \in Units \ Blocked :
    BookedNight(u, d) => /\ Matrix(u, d, a, b) \notin {"free", "checkin"}
                         /\ \E s \in Events(a, b + 1) : s.unit = u

(* "Vapaat huoneet" is for "units that are free" (README): a day that a    *)
(* unit is offered for can be booked.                                      *)
OfferedDaysAreFree ==
  \A u \in Units \ Blocked : \A d \in FreeDays(u, today, today + 1) :
    ~BookedNight(u, d)
=============================================================================
