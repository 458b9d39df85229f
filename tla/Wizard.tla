------------------------------- MODULE Wizard -------------------------------
(* The wizard that books a stay in four pages, and the forms beside it:    *)
(* app/admin/routes.py 1732-2160, app/reservations/services.py 1214-1378.  *)
(*                                                                         *)
(* What has been chosen is kept in the session, a cookie of the browser: a *)
(* request carries the cookie of the moment it is sent in, and the answer  *)
(* replaces it when it arrives, so that of two windows the last one wins.  *)
(* The server keeps nothing between two pages.                             *)
(*                                                                         *)
(* Left out: amount, currency and names, which go from the last page to    *)
(* the row; the pages as they are shown.  One worker books (module Stays   *)
(* has two).                                                               *)
EXTENDS FiniteSets, Integers

CONSTANTS
  Properties, Units,
  PropertyOf,   \* [Units -> Properties]
  Guests,       \* numbers guests may get
  LastDay,      \* bound: days are 0 .. LastDay
  Windows,      \* of one browser
  MaxBookings   \* bound: reservations made

WizardAssumption == PropertyOf \in [Units -> Properties] /\ LastDay \in Nat

VARIABLES
  cookie,     \* what the browser holds of the wizard
  answer,     \* the cookie that is on its way to a window, or Nothing
  guests,     \* the guests on record
  bookings    \* the reservations that stand, each with the property chosen

vars == <<cookie, answer, guests, bookings>>

None  == "none"
NoDay == -1
Days  == 0 .. LastDay
State == [property : Properties \cup {None}, unit : Units \cup {None},
          from : Days \cup {NoDay}, to : Days \cup {NoDay},
          guest : Guests \cup {None}]
Nothing == [property |-> "nothing"]
Booking == [property : Properties, unit : Units, from : Days, to : Days]

(* wizard_state_empty.                                                     *)
Empty == [property |-> None, unit |-> None, from |-> NoDay, to |-> NoDay,
          guest |-> None]

Init ==
  /\ cookie = Empty /\ answer = [w \in Windows |-> Nothing]
  /\ guests = {} /\ bookings = {}

-----------------------------------------------------------------------------
(* A request of window w is served; the answer sets the session to s.      *)
Answer(w, s) == /\ answer[w] = Nothing
                /\ answer' = [answer EXCEPT ![w] = s]
                /\ UNCHANGED cookie

Arrive(w) ==
  /\ answer[w] # Nothing
  /\ cookie' = answer[w] /\ answer' = [answer EXCEPT ![w] = Nothing]
  /\ UNCHANGED <<guests, bookings>>

(* The answer is lost, or the window is closed.                            *)
Lose(w) ==
  /\ answer[w] # Nothing /\ answer' = [answer EXCEPT ![w] = Nothing]
  /\ UNCHANGED <<cookie, guests, bookings>>

(* _reservation_wizard_require_step: the pages before have been filled in. *)
Reached(step) ==
  /\ step >= 2 => cookie.property # None
  /\ step >= 3 => cookie.unit # None /\ cookie.from # NoDay /\ cookie.to # NoDay
  /\ step >= 4 => cookie.guest # None

(* get_unit_for_wizard.                                                    *)
UnitForWizard(u, p) == u \in Units /\ PropertyOf[u] = p

(* The check that create_reservation and the wizard's second page share.   *)
MayStay(u, from, to) ==
  /\ from < to
  /\ \A b \in bookings : b.unit = u => b.to <= from \/ to <= b.from

-----------------------------------------------------------------------------
(* A link from the calendar names a unit, and perhaps days: those that it  *)
(* does not name stay as they were, and none is checked here.              *)
SeedFromQuery(w) ==
  /\ \E u \in Units, from, to \in Days \cup {NoDay} :
       Answer(w, [cookie EXCEPT !.property = PropertyOf[u], !.unit = u,
                    !.from = IF from = NoDay THEN @ ELSE from,
                    !.to = IF to = NoDay THEN @ ELSE to])
  /\ UNCHANGED <<guests, bookings>>

(* The first page: the unit chosen before stays, whatever it is in.        *)
StepProperty(w) ==
  /\ \E p \in Properties : Answer(w, [cookie EXCEPT !.property = p])
  /\ UNCHANGED <<guests, bookings>>

StepUnitDates(w) ==
  /\ Reached(2)
  /\ \E u \in Units, from, to \in Days :
       /\ UnitForWizard(u, cookie.property) /\ MayStay(u, from, to)
       /\ Answer(w, [cookie EXCEPT !.unit = u, !.from = from, !.to = to])
  /\ UNCHANGED <<guests, bookings>>

(* A guest there is, or a new one, who stays when the answer is lost.      *)
StepGuest(w) ==
  /\ Reached(3)
  /\ \E g \in Guests :
       /\ guests' = guests \cup {g}
       /\ Answer(w, [cookie EXCEPT !.guest = g])
  /\ UNCHANGED bookings

(* build_reservation_preview: what the last page shows, and what is made   *)
(* of it.                                                                  *)
Preview ==
  /\ Reached(4) /\ cookie.guest \in guests
  /\ UnitForWizard(cookie.unit, cookie.property)

Book(b) == /\ Cardinality(bookings) < MaxBookings
           /\ MayStay(b.unit, b.from, b.to)
           /\ bookings' = bookings \cup {b}

(* create_reservation_from_wizard; the wizard is empty then.               *)
StepConfirm(w) ==
  /\ Preview
  /\ Book([property |-> cookie.property, unit |-> cookie.unit,
           from |-> cookie.from, to |-> cookie.to])
  /\ Answer(w, Empty) /\ UNCHANGED guests

(* The button that every page has.                                         *)
CancelWizard(w) == Answer(w, Empty) /\ UNCHANGED <<guests, bookings>>

(* The form without the wizard.                                            *)
NewReservation ==
  /\ \E u \in Units, from, to \in Days :
       Book([property |-> PropertyOf[u], unit |-> u, from |-> from, to |-> to])
  /\ UNCHANGED <<cookie, answer, guests>>

CancelReservation ==
  /\ \E b \in bookings : bookings' = bookings \ {b}
  /\ UNCHANGED <<cookie, answer, guests>>

WizardPages(w) ==
  StepProperty(w) \/ StepUnitDates(w) \/ StepGuest(w) \/ StepConfirm(w)

Next ==
  \/ \E w \in Windows :
       \/ SeedFromQuery(w) \/ WizardPages(w) \/ CancelWizard(w)
       \/ Arrive(w) \/ Lose(w)
  \/ NewReservation \/ CancelReservation

Spec == Init /\ [][Next]_vars

-----------------------------------------------------------------------------
WizardTypeOK ==
  /\ cookie \in State /\ answer \in [Windows -> State \cup {Nothing}]
  /\ guests \subseteq Guests /\ bookings \subseteq Booking

(* Whatever the windows of a browser did to the session, in whichever      *)
(* order the answers came, and however often a booking was made meanwhile: *)
(* a reservation is in a unit of the property that was chosen with it and  *)
(* shares no night with another one (build_reservation_preview,            *)
(* _validate_reservation_dates_and_overlap).                               *)
WizardBooksWhatFits ==
  \A b \in bookings :
    /\ PropertyOf[b.unit] = b.property
    /\ \A c \in bookings \ {b} :
         c.unit = b.unit => b.to <= c.from \/ c.to <= b.from
=============================================================================
