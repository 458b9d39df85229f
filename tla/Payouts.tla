------------------------------ MODULE Payouts ------------------------------
(***************************************************************************)
(* What the owner of a property is paid per month: app/owners/services.py, *)
(* the job of app/owners/scheduler.py and the two commands of app/cli.py.  *)
(*                                                                         *)
(* One owner with one assignment to a property, one stay in it.  Fractions *)
(* are whole numbers of 1/Parts; a month has MonthLength days.  A run      *)
(* commits the row as a draft, queues the e-mail in another transaction,   *)
(* and marks the row sent in a third.  A month has one row as long as runs *)
(* do not overlap: no constraint of the schema says so.                    *)
(*                                                                         *)
(* Left out: owners' accounts, the PDF, the e-mail itself (module          *)
(* EmailQueue), expenses, which the code has as zero, and                  *)
(* mark_payout_paid, which nothing calls.                                  *)
(***************************************************************************)
EXTENDS Integers, FiniteSets

CONSTANTS
  Months,       \* bound: the months there are, 0 .. Months - 1
  MonthLength,  \* bound: days of a month
  Prices,       \* bound: what a stay may cost, in cents
  Parts,        \* bound: the denominator of ownership_pct and management_fee_pct
  Owned, Fees   \* bound: the values of ownership_pct and of management_fee_pct

PayoutsAssumption ==
  /\ Months \in Nat \ {0} /\ MonthLength \in Nat \ {0} /\ Parts \in Nat \ {0}
  /\ Prices \subseteq Nat
  /\ Owned \subseteq 0..Parts /\ Fees \subseteq 0..Parts

Month == 0..(Months - 1)
Days  == 0..(Months * MonthLength)
First(m) == m * MonthLength
Last(m)  == m * MonthLength + MonthLength - 1

VARIABLES
  stay,     \* the reservation: its nights are from .. to - 1
  share,    \* the row of property_owner_assignments
  payout,   \* the rows of owner_payouts, by month
  req       \* the month whose e-mail the job or the command is sending

vars == <<stay, share, payout, req>>

Stay  == {s \in [st : {"confirmed", "cancelled"}, from : Days, to : Days,
                 price : Prices] : s.from < s.to}
Share == {a \in [own : Owned, fee : Fees, from : Days, to : Days] :
            a.from <= a.to}
NoRow  == [st |-> "none"]
Idle   == -1

-----------------------------------------------------------------------------
(* The figures.                                                            *)

Upper(a, b) == IF a > b THEN a ELSE b
Lower(a, b) == IF a < b THEN a ELSE b

(* Both ends of both ranges count (_overlap_days).                         *)
OverlapDays(a1, a2, b1, b2) ==
  LET first == Upper(a1, b1) last == Lower(a2, b2)
  IN  IF last < first THEN 0 ELSE last - first + 1

(* Seeded fault: the day of departure is counted as a night.               *)
NightsWithDeparture(s, a, m) ==
  OverlapDays(s.from, s.to, Upper(First(m), a.from), Lower(Last(m), a.to))

(* The nights of a stay that an owner is paid for in a month.              *)
Nights(s, a, m) ==
  OverlapDays(s.from, s.to - 1, Upper(First(m), a.from), Lower(Last(m), a.to))

(* n/d to the nearest whole number, halves up (_to_cents).                 *)
Rounded(n, d) == (2 * n + d) \div (2 * d)

(* The share of the nights, of the owner, and the fee of it.  Each figure  *)
(* is rounded by itself from the exact value.                              *)
Figures(s, a, m) ==
  LET n == IF s.st = "confirmed" THEN s.price * Nights(s, a, m) ELSE 0
      d == (s.to - s.from) * Parts * Parts
  IN  [gross |-> Rounded(n * a.own * Parts, d),
       fee   |-> Rounded(n * a.own * a.fee, d),
       net   |-> Rounded(n * a.own * (Parts - a.fee), d)]

-----------------------------------------------------------------------------
Init ==
  /\ stay   \in {s \in Stay : s.st = "confirmed"}
  /\ share  \in Share
  /\ payout = [m \in Month |-> NoRow]
  /\ req    = Idle

(* An administrator cancels the stay (app/reservations/services.py).       *)
CancelStay ==
  /\ stay.st = "confirmed"
  /\ stay' = [stay EXCEPT !.st = "cancelled"]
  /\ UNCHANGED <<share, payout, req>>

(* generate_monthly_payout.  Whatever the row was, it is a draft again.    *)
(* The job goes on to the e-mail; the command that generates does not.     *)
Generate(m, send) ==
  /\ req = Idle
  /\ payout' = [payout EXCEPT ![m] = [st |-> "draft", of |-> Figures(stay, share, m)]]
  /\ req' = IF send THEN m ELSE Idle
  /\ UNCHANGED <<stay, share>>

(* The command that sends the drafts of a month.                           *)
SendDraft(m) ==
  /\ req = Idle /\ payout[m].st = "draft"
  /\ req' = m
  /\ UNCHANGED <<stay, share, payout>>

(* send_payout_email: the mail is queued and committed, then the row.      *)
MarkSent ==
  /\ req # Idle
  /\ payout' = [payout EXCEPT ![req].st = "sent"]
  /\ req' = Idle
  /\ UNCHANGED <<stay, share>>

(* The process ends, or the e-mail cannot be queued.                       *)
Stop ==
  /\ req # Idle
  /\ req' = Idle
  /\ UNCHANGED <<stay, share, payout>>

Commands == \E m \in Month : Generate(m, FALSE) \/ SendDraft(m)
Job      == \E m \in Month : Generate(m, TRUE)

Next == CancelStay \/ Commands \/ Job \/ MarkSent \/ Stop

Spec == Init /\ [][Next]_vars

-----------------------------------------------------------------------------
Figure == [gross : Nat, fee : Nat, net : Nat]

TypeOK ==
  /\ stay \in Stay /\ share \in Share
  /\ \A m \in Month :
       /\ payout[m] # NoRow =>
            payout[m].st \in {"draft", "sent"} /\ payout[m].of \in Figure
  /\ req \in Month \cup {Idle}

(* The nights of the stay that fall into the time of the assignment.       *)
Covered(s, a) == Cardinality({d \in s.from..(s.to - 1) : a.from <= d /\ d <= a.to})

(* What has been paid for the months before m.                             *)
PaidBefore[m \in 0..Months] ==
  IF m = 0 THEN 0 ELSE PaidBefore[m - 1] + payout[m - 1].of.gross

(* The months add up: once every month has been generated, the owner has   *)
(* been paid for each night of the stay once, also where it crosses the    *)
(* end of a month or begins before the assignment.  Each month is rounded, *)
(* and may be off by half a cent (generate_monthly_payout).                *)
MonthsAddUp ==
  LET current == \A m \in Month :
        payout[m] # NoRow /\ payout[m].of = Figures(stay, share, m)
      paid  == PaidBefore[Months]
      owed  == stay.price * share.own * Covered(stay, share)
      units == (stay.to - stay.from) * Parts
  IN  current /\ stay.st = "confirmed" =>
        /\ 2 * (paid * units - owed) <= Months * units
        /\ 2 * (owed - paid * units) <= Months * units

(* What is paid out is what came in less the fee, to the cent.  The three  *)
(* figures are rounded apart, so that a cent may be missing or too much.   *)
NetIsGrossLessFee ==
  \A m \in Month : payout[m] # NoRow =>
    LET f == payout[m].of IN f.net - (f.gross - f.fee) \in -1..1

(* What a payout promises of money.                                        *)
PayoutsAddUp == MonthsAddUp /\ NetIsGrossLessFee
=============================================================================
