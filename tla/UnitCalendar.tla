---------------------------- MODULE UnitCalendar ----------------------------
(***************************************************************************)
(* What the reservations component promises: the calendar of every unit,   *)
(* in which a night belongs to one stay at most.  Creating, editing,       *)
(* moving, resizing and cancelling a reservation all take some nights for  *)
(* one stay, or give them back, in one step.  The module Stays implements  *)
(* it when its requests run one at a time.                                 *)
(***************************************************************************)
EXTENDS Integers

CONSTANTS Reservations, Units, LastDay

Days   == 0..LastDay
Nights == 0..(LastDay - 1)     \* night d is between the days d and d + 1

VARIABLE guests     \* [Units -> [Nights -> SUBSET Reservations]]

Init == guests = [u \in Units |-> [d \in Nights |-> {}]]

(* The calendar without the stay r.                                        *)
Without(r) == [u \in Units |-> [d \in Nights |-> guests[u][d] \ {r}]]

GiveBack(r) == guests' = Without(r)

(* Stay r, wherever it was before, takes the nights from its first day to  *)
(* the day it leaves on, all of them free.                                 *)
Take(r, u, from, to) ==
  /\ from < to
  /\ \A d \in from..(to - 1) : guests[u][d] \subseteq {r}
  /\ guests' = [Without(r) EXCEPT ![u] =
                  [d \in Nights |-> IF from <= d /\ d < to THEN {r} ELSE @[d]]]

Next ==
  \E r \in Reservations :
    \/ GiveBack(r)
    \/ \E u \in Units, from, to \in Days : Take(r, u, from, to)

Spec == Init /\ [][Next]_guests
=============================================================================
