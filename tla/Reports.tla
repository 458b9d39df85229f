------------------------------ MODULE Reports ------------------------------
(* The reports on money (reports/services.py, their pages in               *)
(* admin/routes.py, and the parts of the dashboard in admin/services.py    *)
(* that sum it up) over the invoices, the expenses and the leases of an    *)
(* organization.  Amounts are whole numbers: the rows hold cents and the   *)
(* sums of cents are exact.  Left out: labels, sorting, the categories of  *)
(* expenses, the files a report is exported to.                            *)
EXTENDS Integers, FiniteSets, FiniteSetsExt

CONSTANTS
  Invoices,      \* the invoices that are issued
  Bills,         \* what they may be when they are issued (a bound)
  Places,        \* properties
  Kinds,         \* the kinds of income: rent, service, deposit
  Amounts,       \* what an invoice or an expense may be over
  MonthStarts,   \* the days months begin on, with the day after the last
  Width,         \* days in a bucket of the aging report (30)
  Week,          \* days in a week (7)
  MaxExpenses

ReportsAssumption ==
  /\ Amounts \subseteq Nat /\ 0 \in MonthStarts /\ MonthStarts \subseteq Nat
  /\ IsFiniteSet(MonthStarts) /\ Cardinality(MonthStarts) > 1
  /\ Width \in Nat \ {0} /\ Week \in Nat \ {0}
  /\ IsFiniteSet(Invoices) /\ IsFiniteSet(Places) /\ IsFiniteSet(Kinds)
  /\ "Tuntematon" \notin Places   \* no property has the id for none (0)

VARIABLES
  inv,      \* the invoices
  spent,    \* the expenses
  today

vars == <<inv, spent, today>>

End == Max(MonthStarts)
Days == 0 .. End - 1
NoDay == End
NoPlace == "Tuntematon"
Methods == {"provider", "manual"}

NoInvoice == [status |-> "none"]
InvoiceRows ==
  [status : {"open", "overdue", "paid", "cancelled"}, due : Days,
   paid : Days \cup {NoDay}, total : Amounts, kind : Kinds, method : Methods,
   lease : Places \cup {NoPlace},   \* the place of its lease, if any
   stay : Places \cup {NoPlace}]    \* the place of its reservation, if any
Expenses == [day : Days, amount : Amounts, place : Places \cup {NoPlace}]
Leases == {l \in [start : Days, last : Days \cup {NoDay},
                    cycle : {"weekly", "monthly", "one_time"}] : l.start <= l.last}

Init ==
  inv = [i \in Invoices |-> NoInvoice] /\ spent = {} /\ today = 0

-----------------------------------------------------------------------------
(* What other modules do to the rows (Payments, Leases).                   *)
Issue(i, row) ==
  /\ inv[i] = NoInvoice /\ row.status = "open" /\ row.paid = NoDay
  /\ row.method = "manual" /\ row.due >= today
  /\ inv' = [inv EXCEPT ![i] = row]
  /\ UNCHANGED <<spent, today>>

Pay(i, m) ==
  /\ inv[i].status \in {"open", "overdue"}
  /\ inv' = [inv EXCEPT ![i].status = "paid", ![i].paid = today, ![i].method = m]
  /\ UNCHANGED <<spent, today>>

Cancel(i) ==
  /\ inv[i].status \in {"open", "overdue"}
  /\ inv' = [inv EXCEPT ![i].status = "cancelled"]
  /\ UNCHANGED <<spent, today>>

MarkOverdue(i) ==
  /\ inv[i].status = "open" /\ inv[i].due < today
  /\ inv' = [inv EXCEPT ![i].status = "overdue"]
  /\ UNCHANGED <<spent, today>>

Spend(e) ==
  /\ Cardinality(spent) < MaxExpenses /\ e.day <= today
  /\ e \notin spent /\ spent' = spent \cup {e}
  /\ UNCHANGED <<inv, today>>

NextDay ==
  /\ today + 1 \in Days /\ today' = today + 1 /\ UNCHANGED <<inv, spent>>

Next ==
  \/ \E i \in Invoices :
       \/ \E row \in Bills \cap InvoiceRows : Issue(i, row)
       \/ \E m \in Methods : Pay(i, m)
       \/ Cancel(i) \/ MarkOverdue(i)
  \/ \E e \in Expenses : Spend(e)
  \/ NextDay

Spec == Init /\ [][Next]_vars

-----------------------------------------------------------------------------
(* _invoice_property_id: the lease decides, then the reservation.          *)
PlaceOf(i) == IF inv[i].lease # NoPlace THEN inv[i].lease ELSE inv[i].stay

(* Seeded fault: the last day of the period does not count.                *)
IncomeRowsOpen(a, b) ==
  {i \in Invoices : /\ inv[i].status \notin {"none", "cancelled"}
                    /\ inv[i].paid \in Days /\ inv[i].paid >= a /\ inv[i].paid < b}

(* cash_flow_report, income_breakdown_report, compute_cash_flow_breakdown  *)
(* and compute_profitability_by_property take the invoices paid from day a *)
(* to day b, whatever their status is now, but for cancelled ones.         *)
IncomeRows(a, b) ==
  {i \in Invoices : /\ inv[i].status \notin {"none", "cancelled"}
                    /\ inv[i].paid \in Days /\ inv[i].paid >= a /\ inv[i].paid <= b}
ExpenseRows(a, b) == {e \in spent : e.day >= a /\ e.day <= b}

Income(rows) == MapThenSumSet(LAMBDA i : inv[i].total, rows)
Spending(rows) == MapThenSumSet(LAMBDA e : e.amount, rows)

Sum(f) == MapThenSumSet(LAMBDA x : f[x], DOMAIN f)

(* _month_iter: the months from that of a to that of b, by first day.      *)
MonthOf(d) == Max({m \in MonthStarts : m <= d})
MonthEnd(m) == Min({n \in MonthStarts : n > m}) - 1
MonthsOf(a, b) == {m \in MonthStarts \ {End} : MonthOf(a) <= m /\ m <= MonthOf(b)}

CashFlowOf(rows, costs, a, b) ==
  [m \in MonthsOf(a, b) |->
     [income |-> Income({i \in rows : MonthOf(inv[i].paid) = m}),
      expenses |-> Spending({e \in costs : MonthOf(e.day) = m})]]
CashFlow(a, b) == CashFlowOf(IncomeRows(a, b), ExpenseRows(a, b), a, b)

NetOf(flow) ==
  Sum([m \in DOMAIN flow |-> flow[m].income])
    - Sum([m \in DOMAIN flow |-> flow[m].expenses])
Net(a, b) == NetOf(CashFlow(a, b))

ByKind(a, b) ==
  [k \in Kinds |-> Income({i \in IncomeRows(a, b) : inv[i].kind = k})]
ByPlace(a, b) ==
  [p \in Places \cup {NoPlace} |-> Income({i \in IncomeRows(a, b) : PlaceOf(i) = p})]
ByMethod(a, b) ==
  [m \in Methods |-> Income({i \in IncomeRows(a, b) : inv[i].method = m})]

(* The pages of the reports, narrowed to one property.                     *)
IncomeAt(p, a, b) == {i \in IncomeRows(a, b) : PlaceOf(i) = p}
CostsAt(p, a, b) == {e \in ExpenseRows(a, b) : e.place = p}

(* compute_profitability_by_property adds up what has the same place of a  *)
(* lease and the same place of a reservation; where several such groups    *)
(* are of one property, income_map keeps the one that the query happens to *)
(* return last.  What belongs to no place is in no row.                    *)
Group(i, rows) ==
  {j \in rows : inv[j].lease = inv[i].lease /\ inv[j].stay = inv[i].stay}
IncomeMap(p, a, b) ==
  LET rows == IncomeAt(p, a, b) IN
    IF rows = {} THEN {0} ELSE {Income(Group(i, rows)) : i \in rows}
Profit(p, a, b) == {x - Spending(CostsAt(p, a, b)) : x \in IncomeMap(p, a, b)}

CashFlowPage(p, a, b) ==
  [net |-> NetOf(CashFlowOf(IncomeAt(p, a, b), CostsAt(p, a, b), a, b)),
   income |-> ByPlace(a, b)[p]]
IncomePage(p, a, b) ==
  [k \in Kinds |-> Income({i \in IncomeAt(p, a, b) : inv[i].kind = k})]
ExpensePage(p, a, b) == Spending(CostsAt(p, a, b))

(* _parse_report_range: without dates, the month so far.                   *)
Period == [from |-> MonthOf(today), to |-> today]

(* get_dashboard_stats: what was paid from day a up to day b, and the net  *)
(* cash flow of the month so far; the month before it; k days from today   *)
(* against the k days before; what is open and what is overdue.            *)
PaidBetween(a, b) ==
  Income({i \in Invoices : /\ inv[i].status = "paid"
                           /\ inv[i].paid >= a /\ inv[i].paid < b})
NetThisMonth ==
  PaidBetween(MonthOf(today), today + 1)
    - Spending(ExpenseRows(MonthOf(today), today))
PreviousMonth ==
  IF MonthOf(today) = 0 THEN 0
  ELSE PaidBetween(MonthOf(MonthOf(today) - 1), MonthOf(today))
RangeRevenue(k) == PaidBetween(today, today + k)
RangeCompare(k) == PaidBetween(today - k, today)
OpenReceivables == Income({i \in Invoices : inv[i].status \in {"open", "overdue"}})
OverdueAmount == Income({i \in Invoices : inv[i].status = "overdue"})

(* compute_aging_receivables: four buckets of days past due.               *)
Late(i) == today - inv[i].due
Receivable == {i \in Invoices : /\ inv[i].status \in {"open", "overdue"}
                                /\ inv[i].due < today}
Aging ==
  [bucket \in 1 .. 4 |-> Income({i \in Receivable :
     /\ bucket < 4 => Late(i) <= bucket * Width
     /\ bucket > 1 => Late(i) > (bucket - 1) * Width})]

(* _lease_forecast_amount: how often the rent falls due from day a to b.   *)
LastOf(l, b) == IF l.last < b THEN l.last ELSE b
FirstOf(l, a) == IF l.start > a THEN l.start ELSE a

WeeklyDues(l, a, b) ==
  LET offset == (FirstOf(l, a) - l.start) % Week
      first == IF offset = 0 THEN FirstOf(l, a) ELSE FirstOf(l, a) + Week - offset
  IN  IF first > LastOf(l, b) THEN 0 ELSE ((LastOf(l, b) - first) \div Week) + 1

DueDay(l, m) == LET day == m + (l.start - MonthOf(l.start))
                IN  IF day < MonthEnd(m) THEN day ELSE MonthEnd(m)

MonthlyDues(l, a, b) ==
  Cardinality({m \in MonthsOf(FirstOf(l, a), LastOf(l, b)) :
                 /\ FirstOf(l, a) <= DueDay(l, m) /\ DueDay(l, m) <= LastOf(l, b)
                 /\ DueDay(l, m) >= l.start})

Dues(l, a, b) ==
  IF l.last < a \/ l.start > b THEN 0
  ELSE IF l.cycle = "one_time" THEN (IF a <= l.start /\ l.start <= b THEN 1 ELSE 0)
  ELSE IF l.cycle = "weekly" THEN WeeklyDues(l, a, b)
  ELSE MonthlyDues(l, a, b)

-----------------------------------------------------------------------------
ReportsTypeOK ==
  /\ inv \in [Invoices -> {NoInvoice} \cup InvoiceRows]
  /\ spent \subseteq Expenses /\ today \in Days

(* The reports of a period agree on its money: each paid invoice and each  *)
(* expense is in one month, of one kind, place (or of none) and method;    *)
(* and two periods that follow each other sum up to both (the bounds of    *)
(* the periods, of the months and of the days, reports/services.py         *)
(* 103-233, 353-462).                                                      *)
ReportsBalance ==
  \A a \in Days, b \in Days : a <= b =>
    LET rows == IncomeRows(a, b) IN
    /\ Net(a, b) = Income(rows) - Spending(ExpenseRows(a, b))
    /\ Sum(ByKind(a, b)) = Income(rows)
    /\ Sum(ByPlace(a, b)) = Income(rows)
    /\ Sum(ByMethod(a, b)) = Income(rows)
    /\ Sum([p \in Places \cup {NoPlace} |-> CashFlowPage(p, a, b).net]) = Net(a, b)
    /\ \A c \in b + 1 .. End - 1 : Net(a, b) + Net(b + 1, c) = Net(a, c)

(* The pages of one property agree: the cash flow's bar with its           *)
(* breakdown and with the income by kind (five queries and two filters in  *)
(* Python).  The profit never shows more than the cash flow, and the same  *)
(* where all the invoices belong to the property in the same way, by their *)
(* leases or by their stays.                                               *)
PlacesAgree ==
  \A p \in Places : \A a \in Days, b \in Days : a <= b =>
    LET shown == CashFlowPage(p, a, b)
        rows == IncomeAt(p, a, b)
    IN
    /\ Sum(IncomePage(p, a, b)) = shown.income
    /\ shown.income - ExpensePage(p, a, b) = shown.net
    /\ \A x \in Profit(p, a, b) : x <= shown.net
    /\ (\A i \in rows : Group(i, rows) = rows) => Profit(p, a, b) = {shown.net}

(* The net of a property is its paid invoices less its expenses, as the    *)
(* tests of the report expect it; it does not hold of a property that has  *)
(* invoices of leases and of reservations (compute_profitability_by_       *)
(* property).                                                              *)
ProfitIsNet ==
  \A p \in Places : \A a \in Days, b \in Days : a <= b =>
    Profit(p, a, b) = {CashFlowPage(p, a, b).net}

(* The dashboard's cash flow of the month is what the report shows without *)
(* dates, its months and its days follow each other without a gap, and     *)
(* nothing is paid ahead of today (_sum_paid_between, cash_flow_report).   *)
DashboardAgrees ==
  /\ NetThisMonth = Net(Period.from, Period.to)
  /\ PreviousMonth + PaidBetween(MonthOf(today), today + 1) =
       Income(IncomeRows(IF MonthOf(today) = 0 THEN 0 ELSE MonthOf(MonthOf(today) - 1),
                         today))
  /\ \A k \in 1 .. End :
       RangeCompare(k) + RangeRevenue(k) = Income(IncomeRows(today - k, today))

(* Every invoice that is past due and not settled is in one bucket; what   *)
(* is overdue on the dashboard is among them, and what is open besides is  *)
(* not due yet.                                                            *)
AgingIsComplete ==
  /\ Sum(Aging) = Income(Receivable)
  /\ OverdueAmount <= Sum(Aging)
  /\ OpenReceivables - Sum(Aging) =
       Income({i \in Invoices : inv[i].status = "open" /\ inv[i].due >= today})

(* The forecast counts the days on which the rent falls due: every week    *)
(* from the first day of the lease, or on its day of the month, or on the  *)
(* last day of a shorter month (_lease_forecast_amount's arithmetic, and   *)
(* the windows and the ends of leases it is used with).                    *)
FallsDue(l, d) ==
  /\ l.start <= d /\ d <= l.last
  /\ CASE l.cycle = "one_time" -> d = l.start
       [] l.cycle = "weekly" -> (d - l.start) % Week = 0
       [] l.cycle = "monthly" -> d = DueDay(l, MonthOf(d))

ForecastCountsDueDays ==
  \A l \in Leases : \A b \in today .. End - 1 :
    Dues(l, today, b) = Cardinality({d \in today .. b : FallsDue(l, d)})
=============================================================================
