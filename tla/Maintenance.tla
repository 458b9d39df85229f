---------------------------- MODULE Maintenance ----------------------------
(***************************************************************************)
(* A maintenance request from its creation to its end:                     *)
(* app/maintenance/services.py, the pages of app/admin/routes.py and the   *)
(* routes of app/api/routes.py about it.                                   *)
(*                                                                         *)
(* A request is read when a form is shown; the form is sent later, with    *)
(* the property, unit and assignee it was shown with unless they were      *)
(* edited in it.  The services run one at a time (one worker).             *)
(*                                                                         *)
(* Left out: texts, guest, reservation and due date, whose checks are like *)
(* that of the unit; rows of another organization, which are not found;    *)
(* the notification, event and e-mail that follow the commit (modules      *)
(* OutboundWebhooks, EmailQueue).                                          *)
(***************************************************************************)
EXTENDS FiniteSets

CONSTANTS
  Properties, Units, Users,
  PropertyOf,   \* [Units -> Properties]
  Forms         \* the browser windows in which the request is edited

MaintenanceAssumption == PropertyOf \in [Units -> Properties]

VARIABLES
  work,     \* the row of maintenance_requests, without one Absent
  active,   \* the users that are not deactivated
  form      \* what each window shows of the row

vars == <<work, active, form>>

Nobody == "none"
Open   == {"new", "in_progress", "waiting"}
Closed == {"resolved", "cancelled"}
Absent == [st |-> "absent"]
Work   == [st : Open \cup Closed, urgent : BOOLEAN, property : Properties,
           unit : Units \cup {Nobody}, assignee : Users \cup {Nobody},
           resolvedAt : BOOLEAN]
Shown  == [property : Properties, unit : Units \cup {Nobody},
           assignee : Users \cup {Nobody}, urgent : BOOLEAN]
Blank  == [property |-> Nobody]

MaintenanceTypeOK ==
  /\ work \in Work \cup {Absent} /\ active \subseteq Users
  /\ form \in [Forms -> Shown \cup {Blank}]

Init ==
  /\ work = Absent /\ active = Users /\ form = [f \in Forms |-> Blank]

IsOn(unit, property) == unit # Nobody => PropertyOf[unit] = property
MayBeAssigned(user)  == user # Nobody => user \in active

(* create_maintenance_request.                                             *)
Create ==
  /\ work = Absent
  /\ \E s \in Shown, st \in Open :
       /\ IsOn(s.unit, s.property) /\ MayBeAssigned(s.assignee)
       /\ work' = [st |-> st, urgent |-> s.urgent, property |-> s.property,
                   unit |-> s.unit, assignee |-> s.assignee,
                   resolvedAt |-> FALSE]
  /\ UNCHANGED <<active, form>>

(* The page maintenance_requests_edit shows a request that is open.        *)
Show(f) ==
  /\ work # Absent /\ work.st \in Open
  /\ form' = [form EXCEPT ![f] =
       [property |-> work.property, unit |-> work.unit,
        assignee |-> work.assignee, urgent |-> work.urgent]]
  /\ UNCHANGED <<work, active>>

(* Changes in the window: any field.                                       *)
Fill(f) ==
  /\ form[f] # Blank
  /\ \E s \in Shown : form' = [form EXCEPT ![f] = s]
  /\ UNCHANGED <<work, active>>

-----------------------------------------------------------------------------
(* update_maintenance_request with the fields that were sent.  Nothing is  *)
(* written when one of them is refused.                                    *)

Editable == work # Absent /\ work.st \in Open

(* Seeded fault: the unit stays when the property changes.                 *)
MovedKeepingUnit(property) == [work EXCEPT !.property = property]

(* Another property: the unit stays only if it is on that property.        *)
Moved(property) ==
  [work EXCEPT !.property = property,
               !.unit = IF IsOn(@, property) THEN @ ELSE Nobody]

(* The form: all the fields but the status.                                *)
Submit(f) ==
  /\ form[f] # Blank /\ Editable
  /\ LET s == form[f]
     IN  /\ IsOn(s.unit, s.property) /\ MayBeAssigned(s.assignee)
         /\ work' = [Moved(s.property) EXCEPT !.unit = s.unit,
                       !.assignee = s.assignee, !.urgent = s.urgent]
  /\ form' = [form EXCEPT ![f] = Blank] /\ UNCHANGED active

(* A PATCH of the API with only the property, only the unit, or the two.   *)
PatchPlace ==
  /\ Editable
  /\ \/ \E p \in Properties : work' = Moved(p)
     \/ \E u \in Units \cup {Nobody} :
          IsOn(u, work.property) /\ work' = [work EXCEPT !.unit = u]
  /\ UNCHANGED <<active, form>>

(* The status form; the terminal statuses have forms of their own.         *)
SetStatus ==
  /\ Editable /\ \E st \in Open : work' = [work EXCEPT !.st = st]
  /\ UNCHANGED <<active, form>>

Assign ==
  /\ Editable
  /\ \E u \in Users \cup {Nobody} :
       MayBeAssigned(u) /\ work' = [work EXCEPT !.assignee = u]
  /\ UNCHANGED <<active, form>>

(* resolve_maintenance_request.                                            *)
Resolve ==
  /\ Editable
  /\ work' = [work EXCEPT !.st = "resolved", !.resolvedAt = TRUE]
  /\ UNCHANGED <<active, form>>

(* cancel_maintenance_request, which the page has confirmed.               *)
Cancel ==
  /\ Editable /\ work' = [work EXCEPT !.st = "cancelled"]
  /\ UNCHANGED <<active, form>>

(* A user is deactivated or reactivated; what is assigned stays assigned.  *)
SetActive ==
  /\ \E u \in Users :
       active' = IF u \in active THEN active \ {u} ELSE active \cup {u}
  /\ UNCHANGED <<work, form>>

(* The pages, and the routes of the API.                                   *)
NewRequestPage == Create
EditRequestPage == \E f \in Forms : Show(f) \/ Fill(f) \/ Submit(f)
RequestPages == SetStatus \/ Assign \/ Resolve \/ Cancel
RequestApi   == Create \/ PatchPlace \/ SetStatus \/ Assign \/ Resolve \/ Cancel

Next ==
  NewRequestPage \/ EditRequestPage \/ RequestPages \/ RequestApi \/ SetActive

Spec == Init /\ [][Next]_vars

-----------------------------------------------------------------------------
(* The unit of a request is a unit of its property, also when one window   *)
(* has moved it to another property while another still shows the old one  *)
(* (update_maintenance_request).                                           *)
UnitIsOnProperty == work # Absent => IsOn(work.unit, work.property)
=============================================================================
