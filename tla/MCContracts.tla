----------------------------- MODULE MCContracts -----------------------------
(* What is agreed with guests, owners and other sites, for TLC: leases and *)
(* their invoices, lease templates, payouts, imported calendars,           *)
(* maintenance requests and the booking wizard.  The six share no state;   *)
(* "part" says which of them moves, as in MCQueues.                        *)
EXTENDS Leases

CONSTANTS
  Templates,                                         \* LeaseTemplates
  Months, MonthLength, Prices, Parts, Owned, Fees,   \* Payouts
  CalendarDays, Syncs, MaxEntries,                   \* CalendarImport
  Properties, Units, PropertyOf, Users, Forms,       \* Maintenance
  Guests, WizardDays, Windows, MaxBookings           \* Wizard

VARIABLES
  part,
  template, tplReq,
  payStay, share, payout, payReq,
  feed, rows, sync, stay, done,
  work, active, form,
  cookie, answer, guests, bookings

tplVars  == <<template, tplReq>>
payVars  == <<payStay, share, payout, payReq>>
icalVars == <<feed, rows, sync, stay, done>>
workVars == <<work, active, form>>
wizVars  == <<cookie, answer, guests, bookings>>

Tpl  == INSTANCE LeaseTemplates WITH req <- tplReq
Pay  == INSTANCE Payouts WITH stay <- payStay, req <- payReq
Ical == INSTANCE CalendarImport WITH LastDay <- CalendarDays
Work == INSTANCE Maintenance
Wiz  == INSTANCE Wizard WITH LastDay <- WizardDays

ASSUME Assumptions ==
  /\ LeasesAssumption /\ Pay!PayoutsAssumption /\ Ical!CalendarAssumption
  /\ Work!MaintenanceAssumption /\ Wiz!WizardAssumption

(* Values of the functions among the constants.                            *)
TwoDays == [monthly |-> 2, weekly |-> 2]
OneUnitEach == [u1 |-> "p1", u2 |-> "p2"]

-----------------------------------------------------------------------------
(* Payouts has an initial state for every stay and share; the other parts  *)
(* need one of them.                                                       *)
ContractsInit ==
  /\ part \in {"leases", "templates", "payouts", "calendar", "work", "wizard"}
  /\ Init /\ Tpl!Init /\ Pay!Init /\ Ical!Init /\ Work!Init /\ Wiz!Init
  /\ part # "payouts" =>
       /\ payStay = CHOOSE s \in Pay!Stay : s.st = "confirmed"
       /\ share = CHOOSE a \in Pay!Share : TRUE

ContractsNext ==
  \/ /\ part = "leases" /\ Next
     /\ UNCHANGED <<part, tplVars, payVars, icalVars, workVars, wizVars>>
  \/ /\ part = "templates" /\ Tpl!Next
     /\ UNCHANGED <<part, vars, payVars, icalVars, workVars, wizVars>>
  \/ /\ part = "payouts" /\ Pay!Next
     /\ UNCHANGED <<part, vars, tplVars, icalVars, workVars, wizVars>>
  \/ /\ part = "calendar" /\ Ical!Next
     /\ UNCHANGED <<part, vars, tplVars, payVars, workVars, wizVars>>
  \/ /\ part = "work" /\ Work!Next
     /\ UNCHANGED <<part, vars, tplVars, payVars, icalVars, wizVars>>
  \/ /\ part = "wizard" /\ Wiz!Next
     /\ UNCHANGED <<part, vars, tplVars, payVars, icalVars, workVars>>

ContractsSpec ==
  ContractsInit /\
  [][ContractsNext]_<<part, vars, tplVars, payVars, icalVars, workVars, wizVars>>

-----------------------------------------------------------------------------
(* Every variable of the six parts keeps its type.                         *)
ContractsTypeOK ==
  /\ TypeOK /\ Tpl!TemplatesTypeOK /\ Pay!TypeOK /\ Ical!CalendarTypeOK
  /\ Work!MaintenanceTypeOK /\ Wiz!WizardTypeOK

(* At most one lease template is the default (update_lease_template,       *)
(* set_default_lease_template).                                            *)
AtMostOneDefault == Tpl!AtMostOneDefault

(* An owner is paid for every night once, over all months, and what came   *)
(* in less the fee (generate_monthly_payout).                              *)
PayoutsAddUp == Pay!PayoutsAddUp

(* An imported calendar is one fetch of the other site's, whole; of two    *)
(* only where syncs overlapped; and its conflicts are the nights it shares *)
(* with stays here (_sync_single_feed, detect_conflicts).                  *)
CalendarIsCopied ==
  Ical!CopiesAreWhole /\ Ical!MixedCopiesOverlapped /\ Ical!ConflictIffSharedNight

(* A unit is of the property it is named with: in a maintenance request,   *)
(* through stale forms and edits of single fields                          *)
(* (update_maintenance_request), and in the wizard, which books it on free *)
(* nights, whatever two windows do to the session                          *)
(* (create_reservation_from_wizard).                                       *)
UnitsFit == Work!UnitIsOnProperty /\ Wiz!WizardBooksWhatFits
=============================================================================
