------------------------------- MODULE Leases -------------------------------
(***************************************************************************)
(* Leases and the invoices they give rise to: app/billing/services.py with *)
(* the lease pages of app/admin/routes.py and the signing page of          *)
(* app/core/__init__.py.                                                   *)
(*                                                                         *)
(* A request reads a lease, validates and commits the columns that differ  *)
(* from what it read.  The job that bills leases (app/backups/scheduler.py *)
(* starts one in every process) reads the active leases first and then     *)
(* takes them one by one: it looks for an invoice of the period, and       *)
(* creates one in a transaction that another job's may overtake.           *)
(*                                                                         *)
(* Left out: dates, rent and texts of a lease, which billing does not look *)
(* at, and what becomes of an invoice later (module Payments).             *)
(***************************************************************************)
EXTENDS Integers

CONSTANTS
  Leases,        \* ids of leases
  Cycles,        \* billing cycles in use, of "monthly", "weekly", "one_time"
  CycleLength,   \* bound: days of a month and of a week
  LastDay,       \* bound on the days
  MaxManual,     \* bound on the invoices made by hand, per lease
  Workers,       \* web workers
  Billers        \* threads that run the billing job, one per process

LeasesAssumption ==
  /\ Cycles \subseteq {"monthly", "weekly", "one_time"}
  /\ CycleLength \in [{"monthly", "weekly"} -> Nat \ {0}]
  /\ LastDay \in Nat /\ MaxManual \in Nat
  /\ Workers \cap Billers = {}

VARIABLES
  lease,   \* the rows of leases
  cycled,  \* invoices of the job: how many, by lease and period
  manual,  \* invoices made by hand, by lease
  today,   \* the date
  req      \* what each thread is doing

vars == <<lease, cycled, manual, today, req>>

Threads == Workers \cup Billers
Days    == 0..LastDay

(* signed: signed_at is set; link: signed_token_hash is set.               *)
LeaseRow ==
  [st : {"draft", "pending_signature", "active", "ended", "cancelled"},
   cycle : Cycles, signed : BOOLEAN, link : BOOLEAN]
NoLease == [st |-> "none"]
Exists(l) == lease[l] # NoLease

(* A cycle is due on its first day; the key of a period is its cycle and   *)
(* its number.                                                             *)
Due(c, d) == c # "one_time" => d % CycleLength[c] = 0
Period(c, d) ==
  IF c = "one_time" THEN <<c, 0>> ELSE <<c, d \div CycleLength[c]>>
Periods == {Period(c, d) : c \in Cycles, d \in Days}

Idle == [op |-> "idle"]
Request ==
  {Idle}
  \cup [op : {"save"}, lease : Leases, old : LeaseRow, new : LeaseRow]
  \cup [op : {"batch"}, todo : SUBSET Leases]
  \cup [op : {"create"}, lease : Leases, todo : SUBSET Leases, period : Periods]

TypeOK ==
  /\ lease  \in [Leases -> LeaseRow \cup {NoLease}]
  /\ cycled \in [Leases -> [Periods -> Nat]]
  /\ manual \in [Leases -> 0..MaxManual]
  /\ today  \in Days
  /\ req    \in [Threads -> Request]

Init ==
  /\ lease  = [l \in Leases |-> NoLease]
  /\ cycled = [l \in Leases |-> [p \in Periods |-> 0]]
  /\ manual = [l \in Leases |-> 0]
  /\ today  = 0
  /\ req    = [t \in Threads |-> Idle]

-----------------------------------------------------------------------------
(* Requests about a lease.                                                 *)

Create(l, c) ==
  /\ ~Exists(l)
  /\ lease' = [lease EXCEPT ![l] =
       [st |-> "draft", cycle |-> c, signed |-> FALSE, link |-> FALSE]]
  /\ UNCHANGED <<cycled, manual, today, req>>

(* A request has read row r of lease l and will make it s.                 *)
Read(t, l, s) ==
  /\ req[t] = Idle
  /\ req' = [req EXCEPT ![t] = [op |-> "save", lease |-> l,
                                old |-> lease[l], new |-> s]]
  /\ UNCHANGED <<lease, cycled, manual, today>>

(* Of what the model keeps, update_lease changes the cycle of a draft.     *)
Update(t, l, c) ==
  /\ lease[l].st = "draft"
  /\ Read(t, l, [lease[l] EXCEPT !.cycle = c])

Activate(t, l) ==
  /\ lease[l].st \in {"draft", "pending_signature"}
  /\ Read(t, l, [lease[l] EXCEPT !.st = "active"])

End(t, l) ==
  /\ lease[l].st = "active"
  /\ Read(t, l, [lease[l] EXCEPT !.st = "ended"])

Cancel(t, l) ==
  /\ Exists(l) /\ lease[l].st \notin {"ended", "cancelled"}
  /\ Read(t, l, [lease[l] EXCEPT !.st = "cancelled"])

(* send_lease_for_signing: an active lease may be sent as well; the link   *)
(* that is out already stops working, since its hash is replaced.          *)
SendForSigning(t, l) ==
  /\ Exists(l) /\ lease[l].st \notin {"ended", "cancelled"}
  /\ Read(t, l, [lease[l] EXCEPT !.st = "pending_signature", !.link = TRUE])

(* Seeded fault: signing writes a status that leases do not have.          *)
SignAsSigned(t, l) ==
  /\ Exists(l) /\ lease[l].link /\ ~lease[l].signed
  /\ Read(t, l, [lease[l] EXCEPT !.st = "signed", !.signed = TRUE])

(* sign_lease_with_token: the status is not looked at, and a lease that    *)
(* has been signed once is left alone.                                     *)
Sign(t, l) ==
  /\ Exists(l) /\ lease[l].link /\ ~lease[l].signed
  /\ Read(t, l, [lease[l] EXCEPT !.st = "active", !.signed = TRUE])

(* The commit writes the columns that differ from what was read.           *)
Merge(now, old, new) ==
  [c \in DOMAIN now |-> IF new[c] = old[c] THEN now[c] ELSE new[c]]

Commit(t) ==
  /\ req[t].op = "save"
  /\ LET l == req[t].lease IN
       lease' = [lease EXCEPT ![l] = Merge(@, req[t].old, req[t].new)]
  /\ req' = [req EXCEPT ![t] = Idle]
  /\ UNCHANGED <<cycled, manual, today>>

(* create_invoice_for_lease, for a lease in any status.                    *)
InvoiceByHand(l) ==
  /\ Exists(l) /\ manual[l] < MaxManual
  /\ manual' = [manual EXCEPT ![l] = @ + 1]
  /\ UNCHANGED <<lease, cycled, today, req>>

-----------------------------------------------------------------------------
(* The billing job (generate_due_lease_invoices).                          *)

Active == {l \in Leases : lease[l].st = "active"}

ReadActive(j) ==
  /\ req[j] = Idle
  /\ req' = [req EXCEPT ![j] = [op |-> "batch", todo |-> Active]]
  /\ UNCHANGED <<lease, cycled, manual, today>>

(* Seeded fault: invoices are only looked for when a lease is billed once. *)
BilledOneTime(l) ==
  /\ lease[l].cycle = "one_time"
  /\ \/ cycled[l][Period(lease[l].cycle, today)] > 0
     \/ manual[l] > 0

(* An invoice of the period exists; a lease that is billed once has any.   *)
Billed(l) ==
  \/ cycled[l][Period(lease[l].cycle, today)] > 0
  \/ lease[l].cycle = "one_time" /\ manual[l] > 0

MustBill(l) == Due(lease[l].cycle, today) /\ ~Billed(l)

Pass(j, l) ==
  /\ req[j].op = "batch" /\ l \in req[j].todo
  /\ ~MustBill(l)
  /\ req' = [req EXCEPT ![j].todo = @ \ {l}]
  /\ UNCHANGED <<lease, cycled, manual, today>>

(* The status is not read again: a lease that has been ended or cancelled  *)
(* since the job began is billed.                                          *)
Bill(j, l) ==
  /\ req[j].op = "batch" /\ l \in req[j].todo
  /\ MustBill(l)
  /\ req' = [req EXCEPT ![j] =
       [op |-> "create", lease |-> l, todo |-> req[j].todo \ {l},
        period |-> Period(lease[l].cycle, today)]]
  /\ UNCHANGED <<lease, cycled, manual, today>>

(* create_invoice commits; or it raises, and the job goes on to the next.  *)
Invoice(j, ok) ==
  /\ req[j].op = "create"
  /\ cycled' = IF ok THEN [cycled EXCEPT ![req[j].lease][req[j].period] = @ + 1]
                     ELSE cycled
  /\ req' = [req EXCEPT ![j] = [op |-> "batch", todo |-> req[j].todo]]
  /\ UNCHANGED <<lease, manual, today>>

EndOfRun(j) ==
  /\ req[j].op = "batch" /\ req[j].todo = {}
  /\ req' = [req EXCEPT ![j] = Idle]
  /\ UNCHANGED <<lease, cycled, manual, today>>

-----------------------------------------------------------------------------
(* The process of a thread ends; what it has not committed is lost.        *)
Crash(t) ==
  /\ req[t] # Idle
  /\ req' = [req EXCEPT ![t] = Idle]
  /\ UNCHANGED <<lease, cycled, manual, today>>

(* A run is over before the day is (the job takes seconds).                *)
NextDay ==
  /\ today < LastDay
  /\ \A j \in Billers : req[j] = Idle
  /\ today' = today + 1
  /\ UNCHANGED <<lease, cycled, manual, req>>

(* The pages about leases and the API: a request each.                     *)
NewPage   == \E l \in Leases, c \in Cycles : Create(l, c)
EditPage  == \E t \in Workers, l \in Leases, c \in Cycles : Update(t, l, c)
StatusPages ==
  \E t \in Workers, l \in Leases : Activate(t, l) \/ End(t, l) \/ Cancel(t, l)
SigningPage == \E t \in Workers, l \in Leases : SendForSigning(t, l)
SigningLink == \E t \in Workers, l \in Leases : Sign(t, l)
InvoicePage == \E l \in Leases : InvoiceByHand(l)
LeaseApi   == NewPage \/ EditPage
InvoiceApi == InvoicePage

BillingJob ==
  \E j \in Billers :
    \/ ReadActive(j) \/ EndOfRun(j)
    \/ \E l \in Leases : Pass(j, l) \/ Bill(j, l)
    \/ \E ok \in BOOLEAN : Invoice(j, ok)

Next ==
  \/ NewPage \/ EditPage \/ StatusPages \/ SigningPage \/ SigningLink
  \/ InvoicePage \/ LeaseApi \/ InvoiceApi \/ BillingJob
  \/ \E t \in Workers : Commit(t)
  \/ \E t \in Threads : Crash(t)
  \/ NextDay

Spec == Init /\ [][Next]_vars

-----------------------------------------------------------------------------
(* The same lease and billing period are not invoiced twice by the job     *)
(* (README, "Automaattinen laskutus"), through crashes of the job and      *)
(* edits of the lease.  With a job in each of two processes it fails.      *)
OneInvoicePerPeriod == \A l \in Leases, p \in Periods : cycled[l][p] <= 1

(* A lease that was ended or cancelled is not brought back (README, "draft *)
(* -> active -> ended/cancelled").  A signing link that is still out does. *)
ClosedIsFinal ==
  [][\A l \in Leases :
       lease[l].st \in {"ended", "cancelled"} => lease'[l].st = lease[l].st]_vars
=============================================================================
