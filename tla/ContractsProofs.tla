--------------------------- MODULE ContractsProofs ---------------------------
(***************************************************************************)
(* What holds of the parts of MCContracts, for any values of their         *)
(* constants: leases and their invoices, lease templates, payouts,         *)
(* imported calendars, maintenance requests and the booking wizard.        *)
(*                                                                         *)
(* Each part has an inductive invariant of its own: LeaseInv and BillInv,  *)
(* TplInv, PayInv, IcalInv, WorkInv, WizInv.  The last section puts them   *)
(* together: a step of the whole is a step of one part, and the others     *)
(* stay as they are.                                                       *)
(***************************************************************************)
EXTENDS MCContracts, FiniteSetTheorems, WellFoundedInduction, TLAPS

(* Instances bring operators of their own for what is finite.              *)
LEMMA SameCount ==
  \A S : /\ Ical!Cardinality(S) = Cardinality(S)
         /\ Pay!Cardinality(S) = Cardinality(S)
  BY DEF Ical!Cardinality, Pay!Cardinality, Cardinality

(* A set of natural numbers has a least one.                               *)
LEMMA LeastNatural ==
  ASSUME NEW T \in SUBSET Nat, NEW n \in T
  PROVE  \E m \in T : \A k \in T : m <= k
<1>1. PICK m \in T : \A k \in T : <<k, m>> \notin OpToRel(<, Nat)
  BY NatLessThanWellFounded, WFMin, Zenon
<1>2. \A k \in T : ~(k < m)
  BY <1>1 DEF OpToRel
<1> QED
  BY <1>2

(* Induction over a set of numbers.                                        *)
LEMMA UpTo ==
  ASSUME NEW N \in Nat, NEW S, 0 \in S, \A n \in 0..(N - 1) : n \in S => n + 1 \in S
  PROVE  0..N \subseteq S
<1> SUFFICES ASSUME NEW n \in 0..N, n \notin S PROVE FALSE
  OBVIOUS
<1> DEFINE T == (0..N) \ S
<1>1. PICK m \in T : \A k \in T : m <= k
  <2>1. T \in SUBSET Nat /\ n \in T
    OBVIOUS
  <2> HIDE DEF T
  <2> QED
    BY <2>1, LeastNatural
<1>2. m # 0 /\ m - 1 \in 0..(N - 1) /\ m - 1 \notin T
  BY <1>1
<1> QED
  BY <1>1, <1>2

LEMMA Quotient ==
  ASSUME NEW n \in Nat, NEW d \in Nat \ {0}
  PROVE  /\ n \div d \in Nat
         /\ d * (n \div d) <= n /\ n < d * (n \div d) + d
  OBVIOUS

-----------------------------------------------------------------------------
(* Leases.  A request works on a lease that exists and the job takes up    *)
(* only such, and no lease is ever deleted: LeaseInv adds that to TypeOK.  *)
(* That no period is billed twice needs one process with the job, and      *)
(* BillInv: an invoice that the job is about to create does not exist yet. *)
LeaseInv ==
  /\ TypeOK
  /\ \A t \in Threads :
       /\ req[t].op = "save" => Exists(req[t].lease)
       /\ req[t].op \in {"batch", "create"} =>
            t \in Billers /\ \A l \in req[t].todo : Exists(l)

OneBiller == \A i, j \in Billers : i = j

BillInv ==
  /\ OneInvoicePerPeriod
  /\ \A j \in Billers :
       req[j].op = "create" => cycled[req[j].lease][req[j].period] = 0

-----------------------------------------------------------------------------
LEMMA PeriodType ==
  ASSUME NEW c \in Cycles, NEW d \in Days PROVE Period(c, d) \in Periods
  BY DEF Periods

(* A thread goes on with q, which is about leases that exist.              *)
LEMMA GoesOn ==
  ASSUME LeaseInv, NEW t \in Threads, NEW q \in Request,
         req' = [req EXCEPT ![t] = q],
         UNCHANGED <<lease, manual, today>>, cycled' \in [Leases -> [Periods -> Nat]],
         q.op = "save" => Exists(q.lease),
         q.op \in {"batch", "create"} =>
           t \in Billers /\ \A l \in q.todo : Exists(l)
  PROVE  LeaseInv'
<1>1. TypeOK'
  BY DEF LeaseInv, TypeOK
<1>2. \A s \in Threads : req'[s] = IF s = t THEN q ELSE req[s]
  BY DEF LeaseInv, TypeOK
<1> QED
  BY <1>1, <1>2 DEF LeaseInv, Exists

(* What a thread holds, by what it is doing.                               *)
LEMMA Fields ==
  ASSUME LeaseInv, NEW t \in Threads
  PROVE  /\ req[t] \in Request
         /\ req[t].op = "save" =>
              req[t] \in [op : {"save"}, lease : Leases, old : LeaseRow, new : LeaseRow]
         /\ req[t].op = "batch" => req[t] \in [op : {"batch"}, todo : SUBSET Leases]
         /\ req[t].op = "create" =>
              req[t] \in [op : {"create"}, lease : Leases, todo : SUBSET Leases,
                          period : Periods]
  BY DEF LeaseInv, TypeOK, Request, Idle

LEMMA ReadKeeps ==
  ASSUME LeaseInv, NEW t \in Workers, NEW l \in Leases, Exists(l),
         NEW s \in LeaseRow, Read(t, l, s)
  PROVE  LeaseInv'
<1> DEFINE q == [op |-> "save", lease |-> l, old |-> lease[l], new |-> s]
<1>1. q \in Request
  BY DEF LeaseInv, TypeOK, Exists, Request
<1>2. cycled \in [Leases -> [Periods -> Nat]] /\ t \in Threads
  BY DEF LeaseInv, TypeOK, Threads
<1> QED
  BY <1>1, <1>2, GoesOn DEF Read

LEMMA RequestKeeps ==
  ASSUME LeaseInv, NEW t \in Workers, NEW l \in Leases, NEW c \in Cycles,
         \/ Update(t, l, c) \/ Activate(t, l) \/ End(t, l) \/ Cancel(t, l)
         \/ SendForSigning(t, l) \/ Sign(t, l)
  PROVE  LeaseInv'
<1>1. Exists(l)
  BY DEF Update, Activate, End, Cancel, SendForSigning, Sign, Exists, NoLease
<1>2. lease[l] \in LeaseRow
  BY <1>1 DEF LeaseInv, TypeOK, Exists
<1>3. /\ [lease[l] EXCEPT !.cycle = c] \in LeaseRow
      /\ [lease[l] EXCEPT !.st = "active"] \in LeaseRow
      /\ [lease[l] EXCEPT !.st = "ended"] \in LeaseRow
      /\ [lease[l] EXCEPT !.st = "cancelled"] \in LeaseRow
      /\ [lease[l] EXCEPT !.st = "pending_signature", !.link = TRUE] \in LeaseRow
      /\ [lease[l] EXCEPT !.st = "active", !.signed = TRUE] \in LeaseRow
  BY <1>2 DEF LeaseRow
<1> QED
  BY <1>1, <1>3, ReadKeeps DEF Update, Activate, End, Cancel, SendForSigning, Sign

LEMMA CommitKeeps ==
  ASSUME LeaseInv, NEW t \in Workers, Commit(t)
  PROVE  LeaseInv'
<1> DEFINE l == req[t].lease
<1>1. /\ l \in Leases /\ req[t].old \in LeaseRow /\ req[t].new \in LeaseRow
      /\ Exists(l)
  BY Fields DEF Commit, LeaseInv, Threads
<1>2. lease[l] \in LeaseRow
  BY <1>1 DEF LeaseInv, TypeOK, Exists
<1> DEFINE row == Merge(lease[l], req[t].old, req[t].new)
<1>3. row \in LeaseRow
  BY <1>1, <1>2 DEF Merge, LeaseRow
<1>4. /\ lease' = [lease EXCEPT ![l] = row]
      /\ req' = [req EXCEPT ![t] = Idle] /\ UNCHANGED <<cycled, manual, today>>
  BY DEF Commit
<1> HIDE DEF row, l
<1>5. TypeOK'
  BY <1>1, <1>3, <1>4 DEF LeaseInv, TypeOK, Request
<1>6. \A k \in Leases : lease[k] # NoLease => lease'[k] # NoLease
  BY <1>1, <1>3, <1>4 DEF LeaseInv, TypeOK, LeaseRow, NoLease
<1>7. ASSUME NEW s \in Threads
      PROVE  /\ req'[s].op = "save" => lease'[req'[s].lease] # NoLease
             /\ req'[s].op \in {"batch", "create"} =>
                  s \in Billers /\ \A k \in req'[s].todo : lease'[k] # NoLease
  <2>1. CASE s = t
    BY <2>1, <1>4 DEF LeaseInv, TypeOK, Idle
  <2>2. CASE s # t
    <3>1. req'[s] = req[s]
      BY <2>2, <1>4 DEF LeaseInv, TypeOK
    <3>2. req[s].op = "save" => req[s].lease \in Leases
      BY Fields
    <3>3. req[s].op \in {"batch", "create"} => req[s].todo \subseteq Leases
      BY Fields
    <3> QED
      BY <3>1, <3>2, <3>3, <1>6 DEF LeaseInv, Exists
  <2> QED
    BY <2>1, <2>2
<1> QED
  BY <1>5, <1>7 DEF LeaseInv, Exists

LEMMA CreateKeeps ==
  ASSUME LeaseInv, NEW l \in Leases, NEW c \in Cycles, Create(l, c)
  PROVE  LeaseInv'
<1> DEFINE row == [st |-> "draft", cycle |-> c, signed |-> FALSE, link |-> FALSE]
<1>1. row \in LeaseRow /\ row # NoLease
  BY DEF LeaseRow, NoLease
<1>2. lease' = [lease EXCEPT ![l] = row] /\ UNCHANGED <<cycled, manual, today, req>>
  BY DEF Create
<1> HIDE DEF row
<1>3. TypeOK'
  BY <1>1, <1>2 DEF LeaseInv, TypeOK
<1>4. \A k \in Leases : Exists(k) => Exists(k)'
  BY <1>1, <1>2 DEF LeaseInv, TypeOK, Exists
<1> QED
  BY <1>2, <1>3, <1>4, Fields DEF LeaseInv

-----------------------------------------------------------------------------
LEMMA JobKeeps ==
  ASSUME LeaseInv, NEW j \in Billers, NEW l \in Leases, NEW ok \in BOOLEAN,
         \/ ReadActive(j) \/ EndOfRun(j) \/ Pass(j, l) \/ Bill(j, l)
         \/ Invoice(j, ok)
  PROVE  LeaseInv'
<1>1. j \in Threads
  BY DEF Threads
<1>2. cycled \in [Leases -> [Periods -> Nat]]
  BY DEF LeaseInv, TypeOK
<1>3. CASE ReadActive(j)
  <2>1. [op |-> "batch", todo |-> Active] \in Request
    BY DEF Request, Active
  <2>2. \A k \in Active : Exists(k)
    BY DEF Active, Exists, NoLease
  <2> QED
    BY <1>1, <1>2, <1>3, <2>1, <2>2, GoesOn DEF ReadActive
<1>4. CASE EndOfRun(j)
  BY <1>1, <1>2, <1>4, GoesOn DEF EndOfRun, Request, Idle
<1>5. CASE Pass(j, l)
  <2>1. req[j] \in [op : {"batch"}, todo : SUBSET Leases]
        /\ \A k \in req[j].todo : Exists(k)
    BY <1>1, <1>5, Fields DEF Pass, LeaseInv
  <2> DEFINE q == [req[j] EXCEPT !.todo = @ \ {l}]
  <2>2. q \in Request /\ q.op = "batch" /\ \A k \in q.todo : Exists(k)
    BY <2>1 DEF Request
  <2>3. req' = [req EXCEPT ![j] = q] /\ UNCHANGED <<lease, cycled, manual, today>>
    BY <1>5 DEF Pass
  <2> HIDE DEF q
  <2> QED
    BY <1>1, <1>2, <2>2, <2>3, GoesOn
<1>6. CASE Bill(j, l)
  <2> DEFINE q == [op |-> "create", lease |-> l, todo |-> req[j].todo \ {l},
                   period |-> Period(lease[l].cycle, today)]
  <2>1. /\ req[j].todo \subseteq Leases /\ l \in req[j].todo
        /\ \A k \in req[j].todo : Exists(k)
    BY <1>1, <1>6, Fields DEF Bill, LeaseInv
  <2>2. lease[l].cycle \in Cycles /\ today \in Days
    BY <2>1 DEF LeaseInv, TypeOK, Exists, LeaseRow
  <2>3. Period(lease[l].cycle, today) \in Periods
    BY <2>2, PeriodType
  <2>4. q \in Request /\ q.op = "create" /\ \A k \in q.todo : Exists(k)
    BY <2>1, <2>3 DEF Request
  <2>5. req' = [req EXCEPT ![j] = q] /\ UNCHANGED <<lease, cycled, manual, today>>
    BY <1>6 DEF Bill
  <2> HIDE DEF q
  <2> QED
    BY <1>1, <1>2, <2>4, <2>5, GoesOn
<1>7. CASE Invoice(j, ok)
  <2> DEFINE q == [op |-> "batch", todo |-> req[j].todo]
  <2>1. /\ req[j].lease \in Leases /\ req[j].period \in Periods
        /\ req[j].todo \subseteq Leases /\ \A k \in req[j].todo : Exists(k)
    BY <1>1, <1>7, Fields DEF Invoice, LeaseInv
  <2>2. cycled' \in [Leases -> [Periods -> Nat]]
    <3>1. CASE cycled' = cycled
      BY <3>1, <1>2
    <3>2. CASE cycled' = [cycled EXCEPT ![req[j].lease][req[j].period] = @ + 1]
      BY <3>2, <1>2, <2>1
    <3> QED
      BY <3>1, <3>2, <1>7 DEF Invoice
  <2>3. q \in Request /\ q.op = "batch" /\ \A k \in q.todo : Exists(k)
    BY <2>1 DEF Request
  <2>4. req' = [req EXCEPT ![j] = q] /\ UNCHANGED <<lease, manual, today>>
    BY <1>7 DEF Invoice
  <2> HIDE DEF q
  <2> QED
    BY <1>1, <2>2, <2>3, <2>4, GoesOn
<1> QED
  BY <1>3, <1>4, <1>5, <1>6, <1>7

LEMMA LeaseStep == LeasesAssumption /\ LeaseInv /\ [Next]_vars => LeaseInv'
<1> SUFFICES ASSUME LeasesAssumption, LeaseInv, [Next]_vars PROVE LeaseInv'
  OBVIOUS
<1>1. ASSUME NEW l \in Leases, NEW c \in Cycles, Create(l, c) PROVE LeaseInv'
  BY <1>1, CreateKeeps
<1>2. ASSUME NEW t \in Workers, NEW l \in Leases, NEW c \in Cycles, Update(t, l, c)
      PROVE  LeaseInv'
  BY <1>2, RequestKeeps
<1>3. ASSUME NEW t \in Workers, NEW l \in Leases,
             \/ Activate(t, l) \/ End(t, l) \/ Cancel(t, l)
             \/ SendForSigning(t, l) \/ Sign(t, l)
      PROVE  LeaseInv'
  <2>1. PICK c \in Cycles : TRUE
    BY <1>3 DEF LeaseInv, TypeOK, LeaseRow, Activate, End, Cancel, SendForSigning,
                Sign, Exists, NoLease
  <2> QED
    BY <1>3, <2>1, RequestKeeps
<1>4. ASSUME NEW l \in Leases, InvoiceByHand(l) PROVE LeaseInv'
  BY <1>4 DEF InvoiceByHand, LeaseInv, TypeOK, Exists, LeasesAssumption
<1>5. ASSUME BillingJob PROVE LeaseInv'
  <2>1. PICK j \in Billers :
          \/ ReadActive(j) \/ EndOfRun(j)
          \/ \E l \in Leases : Pass(j, l) \/ Bill(j, l)
          \/ \E ok \in BOOLEAN : Invoice(j, ok)
    BY <1>5 DEF BillingJob
  <2>2. j \in Threads /\ cycled \in [Leases -> [Periods -> Nat]]
    BY DEF Threads, LeaseInv, TypeOK
  <2>3. CASE \E l \in Leases : Pass(j, l) \/ Bill(j, l)
    BY <2>3, JobKeeps
  <2>4. CASE \E ok \in BOOLEAN : Invoice(j, ok)
    <3>1. req[j].lease \in Leases
      BY <2>2, <2>4, Fields DEF Invoice
    <3> QED
      BY <2>4, <3>1, JobKeeps
  <2>5. CASE ReadActive(j) /\ Leases # {}
    BY <2>5, JobKeeps
  <2>6. CASE ReadActive(j) /\ Leases = {}
    BY <2>2, <2>6, GoesOn DEF ReadActive, Active, Request
  <2>7. CASE EndOfRun(j)
    BY <2>2, <2>7, GoesOn DEF EndOfRun, Request, Idle
  <2> QED
    BY <2>1, <2>3, <2>4, <2>5, <2>6, <2>7
<1>6. ASSUME NEW t \in Workers, Commit(t) PROVE LeaseInv'
  BY <1>6, CommitKeeps
<1>7. ASSUME NEW t \in Threads, Crash(t) PROVE LeaseInv'
  BY <1>7, GoesOn DEF Crash, LeaseInv, TypeOK, Request, Idle
<1>8. CASE NextDay
  BY <1>8 DEF NextDay, LeaseInv, TypeOK, Exists, Days, LeasesAssumption
<1>9. CASE UNCHANGED vars
  BY <1>9 DEF vars, LeaseInv, TypeOK, Exists
<1> QED
  BY <1>1, <1>2, <1>3, <1>4, <1>5, <1>6, <1>7, <1>8, <1>9
     DEF Next, NewPage, EditPage, StatusPages, SigningPage, SigningLink, InvoicePage,
         LeaseApi, InvoiceApi

LEMMA LeaseInit == LeasesAssumption /\ Init => LeaseInv
  BY DEF LeasesAssumption, Init, LeaseInv, TypeOK, Days, Request, Idle

(* Every variable of Leases keeps its type.                                *)
THEOREM TypeCorrect ==
  ASSUME LeasesAssumption
  PROVE  Spec => []TypeOK
<1>1. LeaseInv => TypeOK
  BY DEF LeaseInv
<1>2. Init => LeaseInv
  BY LeaseInit
<1>3. LeaseInv /\ [Next]_vars => LeaseInv'
  BY LeaseStep
<1> QED
  BY <1>1, <1>2, <1>3, PTL DEF Spec

-----------------------------------------------------------------------------
(* A step that neither takes up an invoice nor creates one.                *)
Aside ==
  /\ cycled' = cycled
  /\ \A j \in Billers : req'[j].op = "create" => req'[j] = req[j]

LEMMA ReadAside ==
  ASSUME LeaseInv, NEW t \in Threads, NEW q, q.op # "create",
         req' = [req EXCEPT ![t] = q], cycled' = cycled
  PROVE  Aside
  BY DEF LeaseInv, TypeOK, Threads, Aside

LEMMA OthersAside ==
  ASSUME LeaseInv, [Next]_vars
  PROVE  \/ Aside
         \/ \E j \in Billers, l \in Leases : Bill(j, l)
         \/ \E j \in Billers, ok \in BOOLEAN : Invoice(j, ok)
<1>1. ASSUME NEW t \in Workers, NEW l \in Leases, NEW s, Read(t, l, s) PROVE Aside
  BY <1>1, ReadAside DEF Read, Threads
<1>2. CASE EditPage \/ StatusPages \/ SigningPage \/ SigningLink
  BY <1>1, <1>2 DEF EditPage, StatusPages, SigningPage, SigningLink, Update,
     Activate, End, Cancel, SendForSigning, Sign
<1>3. CASE NewPage \/ InvoicePage \/ NextDay
  BY <1>3 DEF NewPage, InvoicePage, Create, InvoiceByHand, NextDay, Aside
<1>4. ASSUME NEW t \in Workers, Commit(t) PROVE Aside
  BY <1>4, ReadAside DEF Commit, Threads, Idle
<1>5. ASSUME NEW t \in Threads, Crash(t) PROVE Aside
  BY <1>5, ReadAside DEF Crash, Idle
<1>6. ASSUME NEW j \in Billers,
             ReadActive(j) \/ EndOfRun(j) \/ \E l \in Leases : Pass(j, l)
      PROVE  Aside
  <2>1. CASE ReadActive(j) \/ EndOfRun(j)
    BY <2>1, ReadAside DEF ReadActive, EndOfRun, Threads, Idle
  <2>2. CASE \E l \in Leases : Pass(j, l)
    <3>1. PICK l \in Leases : Pass(j, l)
      BY <2>2
    <3> DEFINE q == [req[j] EXCEPT !.todo = @ \ {l}]
    <3>2. req[j] \in [op : {"batch"}, todo : SUBSET Leases]
      BY <3>1, Fields DEF Pass, Threads
    <3>3. q.op = "batch"
      BY <3>2
    <3>4. req' = [req EXCEPT ![j] = q] /\ cycled' = cycled
      BY <3>1 DEF Pass
    <3> HIDE DEF q
    <3> QED
      BY <3>3, <3>4, ReadAside DEF Threads
  <2> QED
    BY <1>6, <2>1, <2>2
<1>7. CASE UNCHANGED vars
  BY <1>7 DEF vars, Aside
<1> QED
  BY <1>2, <1>3, <1>4, <1>5, <1>6, <1>7 DEF Next, BillingJob, LeaseApi, InvoiceApi

LEMMA BillStep ==
  ASSUME OneBiller, LeaseInv, BillInv, [Next]_vars
  PROVE  BillInv'
<1>1. CASE Aside
  BY <1>1 DEF Aside, BillInv, OneInvoicePerPeriod
<1>2. ASSUME NEW j \in Billers, NEW l \in Leases, Bill(j, l) PROVE BillInv'
  <2> DEFINE p == Period(lease[l].cycle, today)
  <2>1. p \in Periods
    <3>1. Exists(l)
      BY <1>2 DEF Bill, LeaseInv, Threads
    <3>2. lease[l].cycle \in Cycles /\ today \in Days
      BY <3>1 DEF LeaseInv, TypeOK, Exists, LeaseRow
    <3> QED
      BY <3>2, PeriodType
  <2>2. cycled[l][p] = 0
    BY <1>2, <2>1 DEF Bill, MustBill, Billed, LeaseInv, TypeOK
  <2>3. /\ cycled' = cycled /\ \A i \in Billers : i = j
        /\ req'[j].lease = l /\ req'[j].period = p
    BY <1>2 DEF Bill, LeaseInv, TypeOK, Threads, OneBiller
  <2> HIDE DEF p
  <2> QED
    BY <2>2, <2>3 DEF BillInv, OneInvoicePerPeriod
<1>3. ASSUME NEW j \in Billers, NEW ok \in BOOLEAN, Invoice(j, ok) PROVE BillInv'
  <2>1. /\ req[j].op = "create" /\ cycled[req[j].lease][req[j].period] = 0
        /\ req[j].lease \in Leases /\ req[j].period \in Periods
    BY <1>3, Fields DEF Invoice, BillInv, Threads
  <2>2. \A i \in Billers : req'[i].op = "batch"
    BY <1>3 DEF Invoice, OneBiller, LeaseInv, TypeOK, Threads
  <2>3. \A l \in Leases, p \in Periods : cycled'[l][p] <= 1
    <3>1. CASE cycled' = cycled
      BY <3>1 DEF BillInv, OneInvoicePerPeriod
    <3>2. CASE cycled' = [cycled EXCEPT ![req[j].lease][req[j].period] = @ + 1]
      BY <2>1, <3>2 DEF BillInv, OneInvoicePerPeriod, LeaseInv, TypeOK
    <3> QED
      BY <1>3, <3>1, <3>2 DEF Invoice
  <2> QED
    BY <2>2, <2>3 DEF BillInv, OneInvoicePerPeriod
<1> QED
  BY <1>1, <1>2, <1>3, OthersAside

(* With one process that runs the billing job, no period of a lease is     *)
(* invoiced twice by it, whatever is edited, signed, ended or cancelled    *)
(* meanwhile and wherever the job is cut short                             *)
(* (generate_due_lease_invoices).                                          *)
THEOREM BilledOnce ==
  ASSUME LeasesAssumption, OneBiller
  PROVE  Spec => []OneInvoicePerPeriod
<1>1. Init => LeaseInv /\ BillInv
  BY LeaseInit DEF Init, BillInv, OneInvoicePerPeriod, Idle, Threads
<1>2. LeaseInv /\ BillInv /\ [Next]_vars => LeaseInv' /\ BillInv'
  BY LeaseStep, BillStep
<1>3. LeaseInv /\ BillInv => OneInvoicePerPeriod
  BY DEF BillInv
<1> QED
  BY <1>1, <1>2, <1>3, PTL DEF Spec

-----------------------------------------------------------------------------
(* Lease templates.                                                        *)
OneWorker == \A v, w \in Workers : v = w

(* What a request has written: with the row it marks, every other one is   *)
(* without the mark in its transaction.                                    *)
Covers(p) ==
  /\ p.op = "create" => p.t \notin Tpl!Rows
  /\ p.op # "create" => p.t \in Tpl!Rows
  /\ p.op = "set" \/ Tpl!MarkOf(p) => Tpl!Rows \subseteq p.cleared \cup {p.t}

TplInv ==
  /\ Tpl!TemplatesTypeOK /\ Tpl!AtMostOneDefault
  /\ \A w \in Workers : tplReq[w] # Tpl!Idle => Covers(tplReq[w])

LEMMA PendingFields ==
  ASSUME NEW p \in Tpl!Pending
  PROVE  /\ p # Tpl!Idle /\ p.t \in Templates /\ p.cleared \subseteq Templates
         /\ p.op \in {"create", "update", "set"}
         /\ p.op # "set" => p.mark \in BOOLEAN
         /\ p.op = "set" => p.was \in BOOLEAN
         /\ Tpl!MarkOf(p) \in BOOLEAN
<1>1. CASE p \in [op : {"create", "update"}, t : Templates, mark : BOOLEAN,
                   cleared : SUBSET Templates]
  BY <1>1 DEF Tpl!Idle, Tpl!MarkOf
<1>2. CASE p \in [op : {"set"}, t : Templates, was : BOOLEAN,
                   cleared : SUBSET Templates]
  BY <1>2 DEF Tpl!Idle, Tpl!MarkOf
<1> QED
  BY <1>1, <1>2 DEF Tpl!Pending

(* The types do not need that there is one worker.                         *)
LEMMA TplTypeStep ==
  ASSUME Tpl!TemplatesTypeOK, Tpl!Next \/ UNCHANGED tplVars
  PROVE  Tpl!TemplatesTypeOK'
<1>1. /\ tplReq \in [Workers -> {Tpl!Idle} \cup Tpl!Pending]
      /\ Tpl!Rows \subseteq Templates /\ template \in [Tpl!Rows -> BOOLEAN]
  BY DEF Tpl!TemplatesTypeOK, Tpl!Rows
<1>2. ASSUME NEW w \in Workers, NEW p \in Tpl!Pending, Tpl!Write(w, p)
      PROVE  Tpl!TemplatesTypeOK'
  BY <1>1, <1>2 DEF Tpl!Write, Tpl!TemplatesTypeOK
<1>3. ASSUME NEW w \in Workers, Tpl!Create(w) \/ Tpl!Update(w) \/ Tpl!SetDefault(w)
      PROVE  Tpl!TemplatesTypeOK'
  <2>1. CASE Tpl!Create(w)
    <3>1. PICK t \in Templates, mark \in BOOLEAN :
            Tpl!Write(w, [op |-> "create", t |-> t, mark |-> mark,
                          cleared |-> IF mark THEN Tpl!Rows ELSE {}])
      BY <2>1 DEF Tpl!Create
    <3>2. [op |-> "create", t |-> t, mark |-> mark,
           cleared |-> IF mark THEN Tpl!Rows ELSE {}] \in Tpl!Pending
      BY <1>1 DEF Tpl!Pending
    <3> QED
      BY <3>1, <3>2, <1>2
  <2>2. CASE Tpl!Update(w)
    <3>1. PICK t \in Tpl!Rows, mark \in BOOLEAN :
            Tpl!Write(w, [op |-> "update", t |-> t, mark |-> mark,
                          cleared |-> IF mark THEN Tpl!Rows \ {t} ELSE {}])
      BY <2>2 DEF Tpl!Update
    <3>2. [op |-> "update", t |-> t, mark |-> mark,
           cleared |-> IF mark THEN Tpl!Rows \ {t} ELSE {}] \in Tpl!Pending
      BY <1>1 DEF Tpl!Pending
    <3> QED
      BY <3>1, <3>2, <1>2
  <2>3. CASE Tpl!SetDefault(w)
    <3>1. PICK t \in Tpl!Rows :
            Tpl!Write(w, [op |-> "set", t |-> t, was |-> template[t],
                          cleared |-> Tpl!Rows])
      BY <2>3 DEF Tpl!SetDefault
    <3>2. [op |-> "set", t |-> t, was |-> template[t], cleared |-> Tpl!Rows]
            \in Tpl!Pending
      BY <1>1 DEF Tpl!Pending
    <3> QED
      BY <3>1, <3>2, <1>2
  <2> QED
    BY <1>3, <2>1, <2>2, <2>3
<1>4. ASSUME NEW w \in Workers, Tpl!Commit(w) PROVE Tpl!TemplatesTypeOK'
  <2> DEFINE p == tplReq[w]
             S == Tpl!Rows \cup (IF p.op = "create" THEN {p.t} ELSE {})
  <2>1. p \in Tpl!Pending
    BY <1>1, <1>4 DEF Tpl!Commit
  <2>2. p.t \in Templates /\ Tpl!MarkOf(p) \in BOOLEAN
    BY <2>1, PendingFields
  <2>3. S \subseteq Templates /\ \A t \in S : t # p.t => t \in Tpl!Rows
    BY <1>1, <2>2
  <2>4. /\ template' = [t \in S |-> IF t = p.t THEN Tpl!MarkOf(p)
                                    ELSE template[t] /\ t \notin p.cleared]
        /\ tplReq' = [tplReq EXCEPT ![w] = Tpl!Idle]
    BY <1>4 DEF Tpl!Commit
  <2> HIDE DEF p, S
  <2>5. template' \in [S -> BOOLEAN]
    BY <1>1, <2>2, <2>3, <2>4
  <2> QED
    BY <1>1, <2>3, <2>4, <2>5 DEF Tpl!TemplatesTypeOK
<1>5. ASSUME NEW w \in Workers, Tpl!Delete(w) PROVE Tpl!TemplatesTypeOK'
  <2>1. PICK t \in Tpl!Rows : template' = [s \in Tpl!Rows \ {t} |-> template[s]]
    BY <1>5 DEF Tpl!Delete
  <2>2. template' \in [Tpl!Rows \ {t} -> BOOLEAN] /\ Tpl!Rows \ {t} \subseteq Templates
    BY <1>1, <2>1
  <2> QED
    BY <1>1, <1>5, <2>2 DEF Tpl!Delete, Tpl!TemplatesTypeOK
<1>6. ASSUME NEW w \in Workers, Tpl!Crash(w) PROVE Tpl!TemplatesTypeOK'
  BY <1>6 DEF Tpl!Crash, Tpl!TemplatesTypeOK
<1>7. CASE UNCHANGED tplVars
  BY <1>7 DEF tplVars, Tpl!TemplatesTypeOK
<1> QED
  BY <1>3, <1>4, <1>5, <1>6, <1>7 DEF Tpl!Next, Tpl!Serve, Tpl!TemplatePages

LEMMA WriteKeeps ==
  ASSUME OneWorker, TplInv, NEW w \in Workers, NEW p \in Tpl!Pending, Covers(p),
         Tpl!Write(w, p)
  PROVE  TplInv'
<1>1. template' = template /\ tplReq' = [tplReq EXCEPT ![w] = p]
  BY DEF Tpl!Write
<1>2. tplReq \in [Workers -> {Tpl!Idle} \cup Tpl!Pending]
  BY DEF TplInv, Tpl!TemplatesTypeOK
<1>3. \A v \in Workers : tplReq'[v] = p
  BY <1>1, <1>2 DEF OneWorker
<1>4. Tpl!TemplatesTypeOK'
  BY <1>1, <1>2 DEF TplInv, Tpl!TemplatesTypeOK
<1>5. Tpl!AtMostOneDefault'
  BY <1>1 DEF TplInv, Tpl!AtMostOneDefault, Tpl!Rows
<1>6. Covers(p)' 
  BY <1>1 DEF Covers, Tpl!Rows, Tpl!MarkOf
<1> QED
  BY <1>3, <1>4, <1>5, <1>6 DEF TplInv, Covers

LEMMA PagesKeep ==
  ASSUME OneWorker, TplInv, NEW w \in Workers, Tpl!TemplatePages(w)
  PROVE  TplInv'
<1>1. tplReq \in [Workers -> {Tpl!Idle} \cup Tpl!Pending] /\ Tpl!Rows \subseteq Templates
      /\ template \in [Tpl!Rows -> BOOLEAN]
  BY DEF TplInv, Tpl!TemplatesTypeOK, Tpl!Rows
<1>2. ASSUME NEW t \in Templates \ (Tpl!Rows \cup Tpl!Locked(w)), NEW mark \in BOOLEAN,
             Tpl!Write(w, [op |-> "create", t |-> t, mark |-> mark,
                           cleared |-> IF mark THEN Tpl!Rows ELSE {}])
      PROVE  TplInv'
  <2> DEFINE p == [op |-> "create", t |-> t, mark |-> mark,
                   cleared |-> IF mark THEN Tpl!Rows ELSE {}]
  <2>1. p \in Tpl!Pending
    BY <1>1 DEF Tpl!Pending
  <2>2. Covers(p)
    BY DEF Covers, Tpl!MarkOf
  <2>3. Tpl!Write(w, p)
    BY <1>2
  <2> HIDE DEF p
  <2> QED
    BY <2>1, <2>2, <2>3, WriteKeeps
<1>3. ASSUME NEW t \in Tpl!Rows, NEW mark \in BOOLEAN,
             Tpl!Write(w, [op |-> "update", t |-> t, mark |-> mark,
                           cleared |-> IF mark THEN Tpl!Rows \ {t} ELSE {}])
      PROVE  TplInv'
  <2> DEFINE p == [op |-> "update", t |-> t, mark |-> mark,
                   cleared |-> IF mark THEN Tpl!Rows \ {t} ELSE {}]
  <2>1. p \in Tpl!Pending
    BY <1>1 DEF Tpl!Pending
  <2>2. Covers(p)
    BY DEF Covers, Tpl!MarkOf
  <2>3. Tpl!Write(w, p)
    BY <1>3
  <2> HIDE DEF p
  <2> QED
    BY <2>1, <2>2, <2>3, WriteKeeps
<1>4. ASSUME NEW t \in Tpl!Rows,
             Tpl!Write(w, [op |-> "set", t |-> t, was |-> template[t],
                           cleared |-> Tpl!Rows])
      PROVE  TplInv'
  <2> DEFINE p == [op |-> "set", t |-> t, was |-> template[t], cleared |-> Tpl!Rows]
  <2>1. p \in Tpl!Pending
    BY <1>1 DEF Tpl!Pending
  <2>2. Covers(p)
    BY DEF Covers
  <2>3. Tpl!Write(w, p)
    BY <1>4
  <2> HIDE DEF p
  <2> QED
    BY <2>1, <2>2, <2>3, WriteKeeps
<1>5. CASE Tpl!Delete(w)
  <2>1. PICK t \in Tpl!Rows : template' = [s \in Tpl!Rows \ {t} |-> template[s]]
    BY <1>5 DEF Tpl!Delete
  <2>2. Tpl!Rows' = Tpl!Rows \ {t} /\ tplReq' = tplReq
    BY <1>5, <2>1 DEF Tpl!Delete, Tpl!Rows
  <2>3. \A v \in Workers : tplReq'[v] = Tpl!Idle
    BY <1>5, <2>2 DEF Tpl!Delete, OneWorker
  <2>4. Tpl!TemplatesTypeOK'
    <3>1. template' \in [Tpl!Rows \ {t} -> BOOLEAN]
      BY <1>1, <2>1
    <3> QED
      BY <1>1, <2>2, <3>1 DEF Tpl!TemplatesTypeOK
  <2>5. Tpl!AtMostOneDefault'
    BY <2>1, <2>2 DEF TplInv, Tpl!AtMostOneDefault
  <2> QED
    BY <2>3, <2>4, <2>5 DEF TplInv
<1> QED
  BY <1>2, <1>3, <1>4, <1>5
     DEF Tpl!TemplatePages, Tpl!Create, Tpl!Update, Tpl!SetDefault

LEMMA TplCommitKeeps ==
  ASSUME OneWorker, TplInv, NEW w \in Workers, Tpl!Commit(w)
  PROVE  TplInv'
<1> DEFINE p == tplReq[w]
           S == Tpl!Rows \cup (IF p.op = "create" THEN {p.t} ELSE {})
<1>1. /\ p \in Tpl!Pending /\ Covers(p) /\ Tpl!Rows \subseteq Templates
      /\ template \in [Tpl!Rows -> BOOLEAN]
      /\ tplReq \in [Workers -> {Tpl!Idle} \cup Tpl!Pending]
  BY DEF TplInv, Tpl!TemplatesTypeOK, Tpl!Rows, Tpl!Commit
<1>2. /\ p.t \in Templates /\ Tpl!MarkOf(p) \in BOOLEAN
      /\ p.op \in {"create", "update", "set"}
  BY <1>1, PendingFields
<1>3. /\ template' = [t \in S |-> IF t = p.t THEN Tpl!MarkOf(p)
                                  ELSE template[t] /\ t \notin p.cleared]
      /\ tplReq' = [tplReq EXCEPT ![w] = Tpl!Idle]
  BY DEF Tpl!Commit
<1>4. p.t \in S /\ S \subseteq Templates /\ \A t \in S : t # p.t => t \in Tpl!Rows
  BY <1>1, <1>2 DEF Covers
<1> HIDE DEF p, S
<1>5. Tpl!Rows' = S
  BY <1>3 DEF Tpl!Rows
<1>6. template' \in [S -> BOOLEAN]
  BY <1>1, <1>2, <1>3, <1>4
<1>7. Tpl!TemplatesTypeOK'
  BY <1>1, <1>3, <1>4, <1>6 DEF Tpl!TemplatesTypeOK
<1>8. Tpl!AtMostOneDefault'
  <2> SUFFICES ASSUME NEW t \in S, NEW u \in S, template'[t], template'[u]
               PROVE  t = u
    BY <1>5 DEF Tpl!AtMostOneDefault
  <2>1. CASE t # p.t /\ u # p.t
    BY <1>3, <1>4, <2>1 DEF TplInv, Tpl!AtMostOneDefault
  <2>2. CASE p.op = "set" \/ Tpl!MarkOf(p)
    BY <1>1, <1>3, <1>4, <2>2 DEF Covers
  <2>3. CASE (t = p.t \/ u = p.t) /\ ~Tpl!MarkOf(p)
    BY <1>3, <2>3
  <2> QED
    BY <2>1, <2>2, <2>3
<1>9. \A v \in Workers : tplReq'[v] = Tpl!Idle
  BY <1>1, <1>3 DEF OneWorker
<1> QED
  BY <1>7, <1>8, <1>9 DEF TplInv

LEMMA TplStep ==
  ASSUME OneWorker, TplInv, Tpl!Next \/ UNCHANGED tplVars
  PROVE  TplInv'
<1>1. ASSUME NEW w \in Workers, Tpl!Crash(w) PROVE TplInv'
  <2>1. template' = template /\ tplReq' = [tplReq EXCEPT ![w] = Tpl!Idle]
    BY <1>1 DEF Tpl!Crash
  <2>2. \A v \in Workers : tplReq'[v] = Tpl!Idle
    BY <2>1 DEF OneWorker, TplInv, Tpl!TemplatesTypeOK
  <2> QED
    BY <2>1, <2>2 DEF TplInv, Tpl!TemplatesTypeOK, Tpl!AtMostOneDefault, Tpl!Rows
<1>2. CASE UNCHANGED tplVars
  BY <1>2 DEF tplVars, TplInv, Tpl!TemplatesTypeOK, Tpl!AtMostOneDefault, Tpl!Rows,
     Covers, Tpl!MarkOf
<1> QED
  BY <1>1, <1>2, PagesKeep, TplCommitKeeps DEF Tpl!Next, Tpl!Serve

LEMMA TplInit == Tpl!Init => TplInv
  BY DEF Tpl!Init, TplInv, Tpl!TemplatesTypeOK, Tpl!AtMostOneDefault, Tpl!Rows

-----------------------------------------------------------------------------
(* Payouts.                                                                *)
(* A row, and that its three figures agree to the cent.                    *)
PayRow == [st : {"draft", "sent"}, of : Pay!Figure]
ToTheCent(f) == f.net - (f.gross - f.fee) \in -1..1

PayInv ==
  /\ payStay \in Pay!Stay /\ share \in Pay!Share
  /\ payout \in [Pay!Month -> PayRow \cup {Pay!NoRow}]
  /\ payReq \in Pay!Month \cup {Pay!Idle}
  /\ payReq # Pay!Idle => payout[payReq] # Pay!NoRow
  /\ \A m \in Pay!Month : payout[m] # Pay!NoRow => ToTheCent(payout[m].of)

-----------------------------------------------------------------------------
LEMMA Product ==
  ASSUME NEW a \in Nat, NEW b \in Nat
  PROVE  a * b \in Nat
  OBVIOUS

LEMMA PositiveProduct ==
  ASSUME NEW a \in Nat \ {0}, NEW b \in Nat \ {0}
  PROVE  a * b \in Nat \ {0}
  OBVIOUS

(* The nearest whole number is at most half away.                          *)
LEMMA RoundedBounds ==
  ASSUME NEW n \in Nat, NEW d \in Nat \ {0}
  PROVE  /\ Pay!Rounded(n, d) \in Nat
         /\ 2 * (d * Pay!Rounded(n, d)) <= 2 * n + d
         /\ 2 * n < 2 * (d * Pay!Rounded(n, d)) + d
<1> DEFINE q == (2 * n + d) \div (2 * d)
<1>1. /\ q \in Nat /\ (2 * d) * q <= 2 * n + d /\ 2 * n + d < (2 * d) * q + 2 * d
  <2>1. 2 * n + d \in Nat /\ 2 * d \in Nat \ {0}
    OBVIOUS
  <2> QED
    BY <2>1, Quotient
<1>2. (2 * d) * q = 2 * (d * q)
  BY <1>1
<1> HIDE DEF q
<1>3. 2 * (d * q) <= 2 * n + d /\ 2 * n < 2 * (d * q) + d
  BY <1>1, <1>2
<1> QED
  BY <1>1, <1>3 DEF Pay!Rounded, q

(* What is split in two and rounded is off by one at most.                 *)
LEMMA RoundedSplit ==
  ASSUME NEW a \in Nat, NEW b \in Nat, NEW d \in Nat \ {0}
  PROVE  Pay!Rounded(b, d) - (Pay!Rounded(a + b, d) - Pay!Rounded(a, d)) \in -1..1
<1> DEFINE x == Pay!Rounded(a, d)
           y == Pay!Rounded(b, d)
           z == Pay!Rounded(a + b, d)
           t == y - (z - x)
<1>1. /\ x \in Nat /\ 2 * (d * x) <= 2 * a + d /\ 2 * a < 2 * (d * x) + d
      /\ y \in Nat /\ 2 * (d * y) <= 2 * b + d /\ 2 * b < 2 * (d * y) + d
      /\ z \in Nat /\ 2 * (d * z) <= 2 * (a + b) + d
      /\ 2 * (a + b) < 2 * (d * z) + d
  <2>1. a + b \in Nat
    OBVIOUS
  <2> QED
    BY <2>1, RoundedBounds
<1> HIDE DEF x, y, z
<1>2. d * t = d * y - (d * z - d * x)
  BY <1>1
<1>3. d * x \in Nat /\ d * y \in Nat /\ d * z \in Nat
  BY <1>1, Product
<1>4. 2 * (d * t) < 3 * d + 1 /\ -(3 * d) - 1 < 2 * (d * t)
  BY <1>1, <1>2, <1>3
<1>5. t \in Int
  BY <1>1
<1> HIDE DEF t
<1>6. ~(t >= 2)
  <2>1. t >= 2 => d * t >= 2 * d
    BY <1>5
  <2> QED
    BY <1>4, <1>5, <2>1
<1>7. ~(t <= -2)
  <2>1. t <= -2 => d * t <= -(2 * d)
    BY <1>5
  <2> QED
    BY <1>4, <1>5, <2>1
<1> QED
  BY <1>5, <1>6, <1>7 DEF t, x, y, z

LEMMA StayFields ==
  ASSUME Pay!PayoutsAssumption, NEW s \in Pay!Stay, NEW a \in Pay!Share
  PROVE  /\ s.from \in Nat /\ s.to \in Nat /\ s.from < s.to
         /\ s.to <= Months * MonthLength
         /\ s.price \in Nat /\ s.st \in {"confirmed", "cancelled"}
         /\ a.own \in Nat /\ a.fee \in 0..Parts /\ a.from \in Nat /\ a.to \in Nat
         /\ a.from <= a.to
<1>1. Months * MonthLength \in Nat
  BY Product DEF Pay!PayoutsAssumption
<1>2. /\ s.from \in Pay!Days /\ s.to \in Pay!Days /\ s.price \in Prices
      /\ s.st \in {"confirmed", "cancelled"} /\ s.from < s.to
  BY DEF Pay!Stay
<1>3. /\ a.own \in Owned /\ a.fee \in Fees /\ a.from \in Pay!Days /\ a.to \in Pay!Days
      /\ a.from <= a.to
  BY DEF Pay!Share
<1>4. \A d \in Pay!Days : d \in Nat /\ d <= Months * MonthLength
  BY <1>1 DEF Pay!Days
<1>5. s.price \in Nat
  BY <1>2 DEF Pay!PayoutsAssumption
<1>6. a.own \in 0..Parts /\ a.fee \in 0..Parts /\ Parts \in Nat
  BY <1>3 DEF Pay!PayoutsAssumption
<1>7. a.own \in Nat
  BY <1>6
<1> QED
  BY <1>2, <1>3, <1>4, <1>5, <1>6, <1>7

LEMMA NightsType ==
  ASSUME Pay!PayoutsAssumption, NEW s \in Pay!Stay, NEW a \in Pay!Share,
         NEW m \in Nat
  PROVE  Pay!Nights(s, a, m) \in Nat
<1>1. m * MonthLength \in Nat /\ MonthLength \in Nat \ {0}
  BY Product DEF Pay!PayoutsAssumption
<1> QED
  BY <1>1, StayFields
     DEF Pay!Nights, Pay!OverlapDays, Pay!Upper, Pay!Lower, Pay!First, Pay!Last

LEMMA FiguresSound ==
  ASSUME Pay!PayoutsAssumption, NEW s \in Pay!Stay, NEW a \in Pay!Share,
         NEW m \in Nat
  PROVE  Pay!Figures(s, a, m) \in Pay!Figure /\ ToTheCent(Pay!Figures(s, a, m))
<1> DEFINE n == IF s.st = "confirmed" THEN s.price * Pay!Nights(s, a, m) ELSE 0
           d == (s.to - s.from) * Parts * Parts
           x == n * a.own
<1>1. d \in Nat \ {0}
  <2>1. (s.to - s.from) \in Nat \ {0} /\ Parts \in Nat \ {0}
    BY StayFields DEF Pay!PayoutsAssumption
  <2> QED
    BY <2>1, PositiveProduct
<1>2. x \in Nat
  <2>1. s.price * Pay!Nights(s, a, m) \in Nat
    BY StayFields, NightsType, Product
  <2>2. n \in Nat /\ a.own \in Nat
    BY <2>1, StayFields
  <2> QED
    BY <2>2, Product
<1>3. a.fee \in Nat /\ Parts - a.fee \in Nat /\ Parts \in Nat
  BY StayFields DEF Pay!PayoutsAssumption
<1> DEFINE u == x * a.fee
           v == x * (Parts - a.fee)
<1>4. u \in Nat /\ v \in Nat /\ x * Parts \in Nat
  BY <1>2, <1>3, Product
<1>5. x * Parts = u + v
  BY <1>2, <1>3
<1>6. /\ Pay!Rounded(u, d) \in Nat /\ Pay!Rounded(v, d) \in Nat
      /\ Pay!Rounded(x * Parts, d) \in Nat
  BY <1>1, <1>4, RoundedBounds
<1>7. Pay!Rounded(v, d) - (Pay!Rounded(u + v, d) - Pay!Rounded(u, d)) \in -1..1
  BY <1>1, <1>4, RoundedSplit
<1>8. Pay!Figures(s, a, m) = [gross |-> Pay!Rounded(x * Parts, d),
                              fee |-> Pay!Rounded(u, d), net |-> Pay!Rounded(v, d)]
  BY DEF Pay!Figures
<1> HIDE DEF d, x, u, v
<1> QED
  BY <1>5, <1>6, <1>7, <1>8 DEF Pay!Figure, ToTheCent

LEMMA PayStep ==
  ASSUME Pay!PayoutsAssumption, PayInv, Pay!Next \/ UNCHANGED payVars
  PROVE  PayInv'
<1>1. CASE Pay!CancelStay
  <2>1. payStay' \in Pay!Stay
    BY <1>1 DEF Pay!CancelStay, PayInv, Pay!Stay
  <2> QED
    BY <1>1, <2>1 DEF Pay!CancelStay, PayInv
<1>2. ASSUME NEW m \in Pay!Month, NEW send \in BOOLEAN, Pay!Generate(m, send)
      PROVE  PayInv'
  <2> DEFINE row == [st |-> "draft", of |-> Pay!Figures(payStay, share, m)]
  <2>1. m \in Nat
    BY DEF Pay!Month, Pay!PayoutsAssumption
  <2>2. row \in PayRow /\ row # Pay!NoRow /\ ToTheCent(row.of)
    BY <2>1, FiguresSound DEF PayInv, PayRow, Pay!NoRow
  <2>3. /\ payout' = [payout EXCEPT ![m] = row]
        /\ payReq' = IF send THEN m ELSE Pay!Idle
        /\ UNCHANGED <<payStay, share>>
    BY <1>2 DEF Pay!Generate
  <2> HIDE DEF row
  <2> QED
    BY <2>2, <2>3 DEF PayInv
<1>3. ASSUME NEW m \in Pay!Month, Pay!SendDraft(m) PROVE PayInv'
  BY <1>3 DEF Pay!SendDraft, PayInv, Pay!NoRow
<1>4. CASE Pay!MarkSent
  <2>1. payReq \in Pay!Month /\ payout[payReq] \in PayRow
    BY <1>4 DEF Pay!MarkSent, PayInv
  <2>2. /\ [payout[payReq] EXCEPT !.st = "sent"] \in PayRow
        /\ [payout[payReq] EXCEPT !.st = "sent"].of = payout[payReq].of
        /\ payout[payReq] # Pay!NoRow
    BY <2>1, <1>4 DEF PayRow, Pay!MarkSent, PayInv
  <2>3. \A m \in Pay!Month : payout'[m] =
          IF m = payReq THEN [payout[payReq] EXCEPT !.st = "sent"] ELSE payout[m]
    BY <1>4, <2>1 DEF Pay!MarkSent, PayInv
  <2>4. payReq' = Pay!Idle /\ UNCHANGED <<payStay, share>> /\ DOMAIN payout' = Pay!Month
        /\ payout' = [m \in Pay!Month |-> payout'[m]]
    BY <1>4 DEF Pay!MarkSent, PayInv
  <2>5. payout' \in [Pay!Month -> PayRow \cup {Pay!NoRow}]
    BY <2>2, <2>3, <2>4 DEF PayInv
  <2> QED
    BY <2>1, <2>2, <2>3, <2>4, <2>5 DEF PayInv
<1>5. CASE Pay!Stop
  BY <1>5 DEF Pay!Stop, PayInv
<1>6. CASE UNCHANGED payVars
  BY <1>6 DEF payVars, PayInv
<1> QED
  BY <1>1, <1>2, <1>3, <1>4, <1>5, <1>6 DEF Pay!Next, Pay!Commands, Pay!Job

LEMMA PayInit == Pay!Init => PayInv
  BY DEF Pay!Init, PayInv

LEMMA PayTypes == PayInv => Pay!TypeOK /\ Pay!NetIsGrossLessFee
  BY DEF PayInv, Pay!TypeOK, Pay!NetIsGrossLessFee, PayRow, ToTheCent

-----------------------------------------------------------------------------
(* Nights the owner is paid for before day x.                              *)
Before(s, a, x) ==
  Pay!OverlapDays(s.from, s.to - 1, a.from, Pay!Lower(x - 1, a.to))

LEMMA MonthBounds ==
  ASSUME Pay!PayoutsAssumption, NEW m \in Nat
  PROVE  /\ Pay!First(m) \in Nat
         /\ Pay!First(m + 1) = Pay!First(m) + MonthLength
         /\ Pay!Last(m) = Pay!First(m) + MonthLength - 1
  BY Product DEF Pay!PayoutsAssumption, Pay!First, Pay!Last

(* A month adds its nights to those before it.                             *)
LEMMA NightsAdd ==
  ASSUME Pay!PayoutsAssumption, NEW s \in Pay!Stay, NEW a \in Pay!Share,
         NEW m \in Nat
  PROVE  /\ Before(s, a, Pay!First(m)) \in Nat
         /\ Before(s, a, Pay!First(m + 1)) =
              Before(s, a, Pay!First(m)) + Pay!Nights(s, a, m)
<1>1. MonthLength \in Nat \ {0}
  BY DEF Pay!PayoutsAssumption
<1> DEFINE x == Pay!First(m)
           y == Pay!First(m + 1)
<1>2. /\ x \in Int /\ y \in Int /\ x <= y /\ Pay!Last(m) = y - 1
      /\ s.from \in Int /\ s.to - 1 \in Int /\ a.from \in Int /\ a.to \in Int
      /\ a.from <= a.to
  BY <1>1, StayFields, MonthBounds
<1> HIDE DEF x, y
<1>3. /\ Before(s, a, x) \in Nat
      /\ Before(s, a, y) = Before(s, a, x) +
           Pay!OverlapDays(s.from, s.to - 1, Pay!Upper(x, a.from), Pay!Lower(y - 1, a.to))
  BY <1>2 DEF Before, Pay!Upper, Pay!Lower, Pay!OverlapDays
<1> QED
  BY <1>2, <1>3 DEF Pay!Nights, x, y

(* None is before the first month, and all are before the end of the last. *)
LEMMA NightsBegin ==
  ASSUME Pay!PayoutsAssumption, NEW s \in Pay!Stay, NEW a \in Pay!Share
  PROVE  Before(s, a, Pay!First(0)) = 0
<1>1. Pay!First(0) = 0
  BY DEF Pay!First, Pay!PayoutsAssumption
<1> QED
  BY <1>1, StayFields DEF Before, Pay!OverlapDays, Pay!Upper, Pay!Lower

LEMMA NightsEnd ==
  ASSUME Pay!PayoutsAssumption, NEW s \in Pay!Stay, NEW a \in Pay!Share
  PROVE  Before(s, a, Pay!First(Months)) = Pay!Covered(s, a)
<1> DEFINE lo == Pay!Upper(s.from, a.from)
           hi == Pay!Lower(s.to - 1, a.to)
<1>1. lo \in Int /\ hi \in Int
  BY StayFields DEF Pay!Upper, Pay!Lower
<1>2. {d \in s.from..(s.to - 1) : a.from <= d /\ d <= a.to} = lo..hi
  BY StayFields DEF Pay!Upper, Pay!Lower
<1> HIDE DEF lo, hi
<1>3. Pay!Covered(s, a) = IF lo > hi THEN 0 ELSE hi - lo + 1
  BY <1>1, <1>2, FS_Interval, SameCount DEF Pay!Covered
<1>4. Pay!First(Months) \in Nat /\ s.to <= Pay!First(Months)
  BY StayFields, MonthBounds DEF Pay!First, Pay!PayoutsAssumption
<1>5. Before(s, a, Pay!First(Months)) = IF lo > hi THEN 0 ELSE hi - lo + 1
  BY <1>4, StayFields DEF Before, Pay!OverlapDays, Pay!Upper, Pay!Lower, lo, hi
<1> QED
  BY <1>3, <1>5

(* What has been paid is a sum: the recursive definition has a function.   *)
LEMMA PaidBeforeDef ==
  ASSUME Pay!PayoutsAssumption
  PROVE  Pay!PaidBefore = [m \in 0..Months |->
           IF m = 0 THEN 0 ELSE Pay!PaidBefore[m - 1] + payout[m - 1].of.gross]
<1> DEFINE Sums(g, n) == g = [m \in 0..n |->
                                IF m = 0 THEN 0 ELSE g[m - 1] + payout[m - 1].of.gross]
           S == {n \in Nat : \E g : Sums(g, n)}
<1>1. 0 \in S
  <2> DEFINE z == [m \in 0..0 |-> 0]
  <2>1. Sums(z, 0)
    OBVIOUS
  <2> QED
    BY <2>1
<1>2. ASSUME NEW n \in 0..(Months - 1), n \in S PROVE n + 1 \in S
  <2>1. PICK g : Sums(g, n)
    BY <1>2
  <2>2. n \in Nat
    BY DEF Pay!PayoutsAssumption
  <2> DEFINE h == [m \in 0..(n + 1) |->
                     IF m <= n THEN g[m] ELSE g[n] + payout[n].of.gross]
  <2>3. ASSUME NEW m \in 0..(n + 1)
        PROVE  h[m] = IF m = 0 THEN 0 ELSE h[m - 1] + payout[m - 1].of.gross
    <3>1. CASE m = n + 1
      BY <2>2, <3>1
    <3>2. CASE m # n + 1
      <4>1. m \in 0..n
        BY <2>2, <3>2
      <4>2. g[m] = IF m = 0 THEN 0 ELSE g[m - 1] + payout[m - 1].of.gross
        BY <2>1, <4>1
      <4>3. h[m] = g[m] /\ (m # 0 => h[m - 1] = g[m - 1])
        BY <2>2, <4>1
      <4> QED
        BY <4>2, <4>3
    <3> QED
      BY <3>1, <3>2
  <2>4. Sums(h, n + 1)
    <3>1. h = [m \in 0..(n + 1) |-> h[m]]
      OBVIOUS
    <3> HIDE DEF h
    <3> QED
      BY <2>3, <3>1
  <2> HIDE DEF h
  <2>5. n + 1 \in Nat /\ \E g1 : Sums(g1, n + 1)
    BY <2>2, <2>4
  <2> QED
    BY <2>5
<1>3. Months \in S
  <2>1. Months \in Nat
    BY DEF Pay!PayoutsAssumption
  <2> HIDE DEF S
  <2>2. 0..Months \subseteq S
    BY <1>1, <1>2, <2>1, UpTo
  <2> QED
    BY <2>1, <2>2
<1>4. \E g : Sums(g, Months)
  BY <1>3
<1> QED
  BY <1>4, Zenon DEF Pay!PaidBefore

(* A month is paid to within half a cent, in units of the stay's price     *)
(* that no rounding is needed for.                                         *)
LEMMA MonthPaid ==
  ASSUME Pay!PayoutsAssumption, NEW s \in Pay!Stay, NEW a \in Pay!Share,
         s.st = "confirmed", NEW m \in Nat
  PROVE  LET units == (s.to - s.from) * Parts
             paid  == Pay!Figures(s, a, m).gross * units
             owed  == s.price * a.own * Pay!Nights(s, a, m)
         IN  /\ Pay!Figures(s, a, m).gross \in Nat
             /\ 2 * (paid - owed) <= units /\ 2 * (owed - paid) <= units
<1> DEFINE units == (s.to - s.from) * Parts
           owed  == s.price * a.own * Pay!Nights(s, a, m)
           g     == Pay!Figures(s, a, m).gross
<1>1. Parts \in Nat \ {0} /\ units \in Nat \ {0}
  <2>1. (s.to - s.from) \in Nat \ {0} /\ Parts \in Nat \ {0}
    BY StayFields DEF Pay!PayoutsAssumption
  <2> QED
    BY <2>1, PositiveProduct
<1>2. owed \in Nat
  <2>1. s.price * a.own \in Nat
    BY StayFields, Product
  <2> QED
    BY <2>1, NightsType, Product
<1> DEFINE n == owed * Parts
           d == units * Parts
<1>3. g = Pay!Rounded(n, d)
  <2>1. s.price \in Nat /\ a.own \in Nat /\ Pay!Nights(s, a, m) \in Nat
    BY StayFields, NightsType
  <2>2. (s.price * Pay!Nights(s, a, m)) * a.own * Parts = n
    BY <2>1, <1>1
  <2> QED
    BY <2>2 DEF Pay!Figures
<1>4. n \in Nat /\ d \in Nat \ {0}
  BY <1>1, <1>2, Product, PositiveProduct
<1>5. /\ g \in Nat /\ 2 * (d * g) <= 2 * n + d /\ 2 * n < 2 * (d * g) + d
  BY <1>3, <1>4, RoundedBounds
<1> HIDE DEF owed, units, g
<1>6. d * g = Parts * (g * units) /\ n = Parts * owed /\ d = Parts * units
  BY <1>1, <1>2, <1>5
<1> DEFINE x == 2 * (g * units - owed) - units
           y == 2 * (owed - g * units) - units
<1>7. x \in Int /\ y \in Int
  BY <1>1, <1>2, <1>5
<1>8. /\ Parts * x = 2 * (Parts * (g * units)) - 2 * (Parts * owed) - Parts * units
      /\ Parts * y = 2 * (Parts * owed) - 2 * (Parts * (g * units)) - Parts * units
  BY <1>1, <1>2, <1>5
<1>9. Parts * x <= 0 /\ Parts * y <= 0
  BY <1>4, <1>5, <1>6, <1>8
<1> HIDE DEF x, y, n, d
<1>10. x <= 0 /\ y <= 0
  BY <1>1, <1>7, <1>9
<1>11. 2 * (g * units - owed) <= units /\ 2 * (owed - g * units) <= units
  BY <1>10, <1>1, <1>2, <1>5 DEF x, y
<1> QED
  BY <1>5, <1>11 DEF g, units, owed

(* The months before m are paid to within half a cent each.                *)
LEMMA MonthsPaid ==
  ASSUME Pay!PayoutsAssumption, PayInv, payStay.st = "confirmed",
         \A m \in Pay!Month : payout[m] # Pay!NoRow
                                /\ payout[m].of = Pay!Figures(payStay, share, m)
  PROVE  Pay!MonthsAddUp
<1> DEFINE s == payStay
           a == share
           units == (s.to - s.from) * Parts
           price == s.price * a.own
           paid(m) == Pay!PaidBefore[m]
           owed(m) == price * Before(s, a, Pay!First(m))
           S == {m \in 0..Months :
                   /\ paid(m) \in Nat
                   /\ 2 * (paid(m) * units - owed(m)) <= m * units
                   /\ 2 * (owed(m) - paid(m) * units) <= m * units}
<1>1. s \in Pay!Stay /\ a \in Pay!Share /\ Months \in Nat /\ Pay!Month = 0..(Months - 1)
  BY DEF PayInv, Pay!Month, Pay!PayoutsAssumption
<1>2. price \in Nat /\ units \in Nat
  BY <1>1, StayFields, Product DEF Pay!PayoutsAssumption
<1>3. paid(0) = 0 /\ \A m \in 0..(Months - 1) : paid(m + 1) = paid(m) + payout[m].of.gross
  <2> DEFINE f == Pay!PaidBefore
  <2>1. f = [m \in 0..Months |-> IF m = 0 THEN 0 ELSE f[m - 1] + payout[m - 1].of.gross]
    BY PaidBeforeDef
  <2> HIDE DEF f
  <2>2. \A m \in 0..Months : f[m] = IF m = 0 THEN 0 ELSE f[m - 1] + payout[m - 1].of.gross
    BY <2>1, Zenon
  <2>3. ASSUME NEW m \in 0..(Months - 1)
        PROVE  f[m + 1] = f[m] + payout[m].of.gross
    <3>1. m + 1 \in 0..Months /\ m + 1 # 0 /\ (m + 1) - 1 = m
      BY <1>1
    <3> QED
      BY <2>2, <3>1
  <2>4. f[0] = 0
    BY <1>1, <2>2
  <2> QED
    BY <2>3, <2>4 DEF f
<1>4. 0 \in S
  <2>1. owed(0) = 0
    BY <1>1, <1>2, NightsBegin
  <2> HIDE DEF paid, owed, price, units
  <2> QED
    BY <1>1, <1>2, <1>3, <2>1
<1>5. ASSUME NEW m \in 0..(Months - 1), m \in S PROVE m + 1 \in S
  <2> DEFINE g == Pay!Figures(s, a, m).gross
             o == price * Pay!Nights(s, a, m)
             b == Before(s, a, Pay!First(m))
  <2>1. m \in Nat /\ payout[m].of.gross = g
    BY <1>1
  <2>2. /\ g \in Nat /\ 2 * (g * units - o) <= units /\ 2 * (o - g * units) <= units
    BY <1>1, <2>1, MonthPaid
  <2>3. b \in Nat /\ Pay!Nights(s, a, m) \in Nat
        /\ Before(s, a, Pay!First(m + 1)) = b + Pay!Nights(s, a, m)
    BY <1>1, <2>1, NightsAdd, NightsType
  <2> HIDE DEF price, units, g, b
  <2>4. owed(m + 1) = owed(m) + o /\ owed(m) \in Nat /\ o \in Nat
    BY <1>2, <2>3, Product DEF b
  <2>5. paid(m) \in Nat /\ paid(m + 1) = paid(m) + g
    BY <1>3, <1>5, <2>1
  <2> HIDE DEF paid, owed, o
  <2>6. /\ paid(m + 1) * units = paid(m) * units + g * units
        /\ (m + 1) * units = m * units + units
    BY <1>2, <2>1, <2>2, <2>5
  <2>7. paid(m) * units \in Nat /\ g * units \in Nat /\ m * units \in Nat
    BY <1>2, <2>1, <2>2, <2>5, Product
  <2>8. /\ 2 * (paid(m) * units - owed(m)) <= m * units
        /\ 2 * (owed(m) - paid(m) * units) <= m * units
    BY <1>5
  <2>9. /\ 2 * (paid(m + 1) * units - owed(m + 1)) <= (m + 1) * units
        /\ 2 * (owed(m + 1) - paid(m + 1) * units) <= (m + 1) * units
    BY <1>2, <2>2, <2>4, <2>6, <2>7, <2>8
  <2>10. m + 1 \in 0..Months /\ paid(m + 1) \in Nat
    BY <1>1, <2>2, <2>5
  <2> QED
    BY <2>9, <2>10
<1>6. Months \in S
  <2> HIDE DEF S
  <2>1. 0..Months \subseteq S
    BY <1>1, <1>4, <1>5, UpTo
  <2> QED
    BY <1>1, <2>1
<1>7. owed(Months) = s.price * a.own * Pay!Covered(s, a)
  BY <1>1, NightsEnd
<1>8. /\ 2 * (paid(Months) * units - owed(Months)) <= Months * units
      /\ 2 * (owed(Months) - paid(Months) * units) <= Months * units
  BY <1>6
<1> HIDE DEF S, owed
<1> QED
  BY <1>7, <1>8 DEF Pay!MonthsAddUp

LEMMA PaySound ==
  ASSUME Pay!PayoutsAssumption, PayInv
  PROVE  Pay!TypeOK /\ Pay!PayoutsAddUp
<1>1. Pay!MonthsAddUp
  <2>1. CASE payStay.st = "confirmed" /\ \A m \in Pay!Month :
               payout[m] # Pay!NoRow /\ payout[m].of = Pay!Figures(payStay, share, m)
    BY <2>1, MonthsPaid
  <2>2. CASE ~(payStay.st = "confirmed" /\ \A m \in Pay!Month :
                 payout[m] # Pay!NoRow /\ payout[m].of = Pay!Figures(payStay, share, m))
    BY <2>2 DEF Pay!MonthsAddUp
  <2> QED
    BY <2>1, <2>2
<1> QED
  BY <1>1, PayTypes DEF Pay!PayoutsAddUp

-----------------------------------------------------------------------------
(* Imported calendars.                                                     *)
(* The rows a sync may write: of nights, and by itself.                    *)
SoundRows == {r \in Ical!Rows : r.span.from < r.span.to}
By(s) == {r \in SoundRows : r.by = s}

Fetched(s)   == [at : {"fetched"}, new : SUBSET By(s)]
Replacing(s) == [at : Ical!Replacing, new : SUBSET By(s), old : SUBSET SoundRows,
                 met : SUBSET Syncs]
Done(s)      == [new : SUBSET By(s), met : SUBSET Syncs]

(* Fetches that are all in a set of rows, or not at all.                   *)
Whole(S) == \A r \in S : r \in done[r.by].new /\ done[r.by].new \subseteq S

(* What a DELETE saw when it started, and is still there: every other row  *)
(* is of a sync that has committed since.                                  *)
Snapshot(s) ==
  /\ sync[s].old \subseteq rows /\ Whole(sync[s].old)
  /\ s \notin sync[s].met
  /\ \A r \in rows : r \in sync[s].old \/ r.by \in sync[s].met

IcalInv ==
  /\ feed \in {"none", "ok", "error"} /\ rows \subseteq SoundRows
  /\ stay = Ical!NoStay \/ stay \in [st : {"confirmed", "cancelled"}, span : Ical!Span]
  /\ DOMAIN sync = Syncs /\ DOMAIN done = Syncs
  /\ \A s \in Syncs : done[s] \in Done(s)
  /\ \A s \in Syncs : sync[s] \in {Ical!Idle} \cup Fetched(s) \cup Replacing(s)
  /\ \A s \in Syncs : sync[s].at \in Ical!Replacing => Snapshot(s)
  /\ Whole(rows)
  /\ Ical!MixedCopiesOverlapped

LEMMA SyncFields ==
  ASSUME IcalInv, NEW s \in Syncs
  PROVE  /\ sync[s].at = "fetched" => sync[s] \in Fetched(s)
         /\ sync[s].at \in Ical!Replacing => sync[s] \in Replacing(s)
         /\ sync[s].at \in {"idle", "fetched"} \cup Ical!Replacing
         /\ sync[s].at = "idle" => sync[s] = Ical!Idle
  BY DEF IcalInv, Ical!Idle, Ical!Replacing, Fetched, Replacing

LEMMA ParsedSound ==
  ASSUME Ical!CalendarAssumption, NEW c \in Ical!Calendars, NEW s \in Syncs
  PROVE  Ical!Copy(Ical!Parsed(c), s) \subseteq By(s)
<1>1. \A x \in Ical!Parsed(c) : x \in [from : Ical!Days, to : 0..(CalendarDays + 1)]
                               /\ x.from < x.to
  BY DEF Ical!Parsed, Ical!Calendars, Ical!Entry, Ical!Days, Ical!NoDay,
     Ical!CalendarAssumption
<1> QED
  BY <1>1 DEF Ical!Copy, By, SoundRows, Ical!Rows

(* Sync s goes on with q, and the rows stay.                               *)
LEMMA SyncGoesOn ==
  ASSUME IcalInv, NEW s \in Syncs, NEW q \in {Ical!Idle} \cup Fetched(s),
         sync' = [sync EXCEPT ![s] = q], feed' \in {"none", "ok", "error"},
         UNCHANGED <<rows, stay, done>>
  PROVE  IcalInv'
<1>1. \A t \in Syncs : sync'[t] = IF t = s THEN q ELSE sync[t]
  BY DEF IcalInv
<1>2. q.at \notin Ical!Replacing /\ DOMAIN sync' = Syncs
  BY DEF Ical!Idle, Ical!Replacing, Fetched, IcalInv
<1>3. \A t \in Syncs : sync'[t] \in {Ical!Idle} \cup Fetched(t) \cup Replacing(t)
  BY <1>1 DEF IcalInv
<1>4. \A t \in Syncs : sync'[t].at \in Ical!Replacing => Snapshot(t)'
  BY <1>1, <1>2 DEF IcalInv, Snapshot, Whole
<1> QED
  BY <1>1, <1>2, <1>3, <1>4 DEF IcalInv, Done, Whole, Ical!MixedCopiesOverlapped

(* The DELETE of sync s starts, or has its locks.                          *)
LEMMA DeleteKeeps ==
  ASSUME IcalInv, NEW s \in Syncs, Ical!BeginDelete(s) \/ Ical!Delete(s)
  PROVE  IcalInv'
<1>1. UNCHANGED <<feed, rows, stay, done>> /\ DOMAIN sync' = Syncs
  BY DEF Ical!BeginDelete, Ical!Delete, IcalInv
<1>2. \A t \in Syncs \ {s} : sync'[t] = sync[t]
  BY DEF Ical!BeginDelete, Ical!Delete, IcalInv
<1>3. sync'[s] \in Replacing(s) /\ Snapshot(s)'
  <2>1. CASE Ical!BeginDelete(s)
    <3>1. /\ sync[s] \in Fetched(s)
          /\ sync'[s] = [at |-> "deleting", new |-> sync[s].new, old |-> rows, met |-> {}]
      BY <2>1, SyncFields DEF Ical!BeginDelete, IcalInv
    <3> QED
      BY <1>1, <3>1 DEF Fetched, Replacing, Ical!Replacing, Snapshot, Whole, IcalInv
  <2>2. CASE Ical!Delete(s)
    <3>1. /\ sync[s] \in Replacing(s) /\ Snapshot(s)
          /\ sync'[s] = [sync[s] EXCEPT !.at = "replacing"]
      BY <2>2, SyncFields DEF Ical!Delete, Ical!Replacing, IcalInv
    <3>2. /\ sync'[s].old = sync[s].old /\ sync'[s].met = sync[s].met
          /\ sync'[s] \in Replacing(s)
      BY <3>1 DEF Replacing, Ical!Replacing
    <3> QED
      BY <1>1, <3>1, <3>2 DEF Snapshot, Whole
  <2> QED
    BY <2>1, <2>2
<1>4. \A t \in Syncs : sync'[t].at \in Ical!Replacing => Snapshot(t)'
  BY <1>1, <1>2, <1>3 DEF IcalInv, Snapshot, Whole
<1>5. \A t \in Syncs : sync'[t] \in {Ical!Idle} \cup Fetched(t) \cup Replacing(t)
  BY <1>2, <1>3 DEF IcalInv
<1> QED
  BY <1>1, <1>4, <1>5 DEF IcalInv, Done, Whole, Ical!MixedCopiesOverlapped

(* A commit takes the rows of a fetch away together.                       *)
LEMMA CommitReplaces ==
  ASSUME IcalInv, NEW s \in Syncs, Ical!Commit(s)
  PROVE  IcalInv'
<1> DEFINE old == sync[s].old
<1>1. /\ sync[s] \in Replacing(s) /\ Snapshot(s)
      /\ rows' = (rows \ old) \cup sync[s].new /\ feed' = "ok"
      /\ sync' = Ical!AfterCommit(s) /\ done' = Ical!DoneBy(s) /\ UNCHANGED stay
  BY SyncFields DEF Ical!Commit, Ical!Replacing, IcalInv
<1>2. /\ sync[s].new \subseteq By(s) /\ sync[s].met \subseteq Syncs
      /\ Whole(old) /\ s \notin sync[s].met
      /\ \A r \in rows : r \in old \/ r.by \in sync[s].met
  BY <1>1 DEF Replacing, Snapshot
<1>3. rows \subseteq SoundRows /\ rows' \subseteq SoundRows
  BY <1>1, <1>2 DEF IcalInv, By
<1>4. \A r \in rows \ old : r.by \in Syncs \ {s}
  BY <1>2
<1>5. /\ DOMAIN done' = Syncs
      /\ done'[s] = [new |-> sync[s].new, met |-> sync[s].met]
      /\ \A t \in Syncs \ {s} : /\ done'[t].new = done[t].new
                                /\ done'[t].met = done[t].met \ {s}
                                /\ done'[t] \in Done(t)
  BY <1>1 DEF Ical!DoneBy, IcalInv, Done
<1>6. \A t \in Syncs : done'[t] \in Done(t)
  BY <1>2, <1>5 DEF Done
<1>7. ASSUME NEW S, S \subseteq rows, Whole(S)
      PROVE  \A r \in S \ old : r \in done'[r.by].new /\ done'[r.by].new \subseteq S \ old
  <2> SUFFICES ASSUME NEW r \in S \ old
               PROVE  r \in done'[r.by].new /\ done'[r.by].new \subseteq S \ old
    OBVIOUS
  <2>1. r.by \in Syncs \ {s} /\ done'[r.by].new = done[r.by].new
    BY <1>4, <1>5, <1>7
  <2> SUFFICES ASSUME NEW x \in done[r.by].new
               PROVE  r \in done[r.by].new /\ x \in S /\ x \notin old
    BY <1>7, <2>1 DEF Whole
  <2>2. r.by \in Syncs /\ r \in done[r.by].new /\ x \in S
    BY <1>7, <2>1 DEF Whole
  <2>3. x.by = r.by
    BY <2>2 DEF IcalInv, Done, By
  <2>4. x \notin old
    BY <1>2, <2>2, <2>3 DEF Whole
  <2> QED
    BY <2>2, <2>4
<1>8. Whole(rows)'
  <2>1. \A r \in rows \ old : r \in done'[r.by].new /\ done'[r.by].new \subseteq rows \ old
    BY <1>7 DEF IcalInv
  <2>2. \A r \in sync[s].new : r.by = s
    BY <1>2 DEF By
  <2> QED
    BY <1>1, <1>5, <2>1, <2>2 DEF Whole
<1>9. Ical!MixedCopiesOverlapped'
  <2> SUFFICES ASSUME NEW r1 \in rows', NEW r2 \in rows', r1.by # r2.by
               PROVE  r1.by \in done'[r2.by].met \/ r2.by \in done'[r1.by].met
    BY DEF Ical!MixedCopiesOverlapped
  <2>1. CASE r1 \in sync[s].new
    <3>1. r1.by = s /\ r2 \in rows \ old
      BY <1>1, <1>2, <2>1 DEF By
    <3> QED
      BY <1>2, <1>5, <3>1
  <2>2. CASE r2 \in sync[s].new
    <3>1. r2.by = s /\ r1 \in rows \ old
      BY <1>1, <1>2, <2>2 DEF By
    <3> QED
      BY <1>2, <1>5, <3>1
  <2>3. CASE r1 \in rows \ old /\ r2 \in rows \ old
    <3>1. r1.by \in done[r2.by].met \/ r2.by \in done[r1.by].met
      BY <2>3 DEF IcalInv, Ical!MixedCopiesOverlapped
    <3> QED
      BY <1>4, <1>5, <2>3, <3>1
  <2> QED
    BY <1>1, <2>1, <2>2, <2>3
<1>10. DOMAIN sync' = Syncs /\ sync'[s] = Ical!Idle
  BY <1>1 DEF Ical!AfterCommit
<1>11. ASSUME NEW t \in Syncs \ {s}
       PROVE  /\ sync'[t] \in {Ical!Idle} \cup Fetched(t) \cup Replacing(t)
              /\ sync'[t].at \in Ical!Replacing => Snapshot(t)'
  <2>1. CASE sync[t].at \in Ical!Replacing
    <3>1. sync[t] \in Replacing(t) /\ Snapshot(t)
      BY <2>1, SyncFields DEF IcalInv
    <3>2. sync'[t] = [sync[t] EXCEPT !.old = sync[t].old \ old, !.met = sync[t].met \cup {s}]
      BY <1>1, <2>1 DEF Ical!AfterCommit
    <3>3. /\ sync'[t] \in Replacing(t)
          /\ sync'[t].old = sync[t].old \ old /\ sync'[t].met = sync[t].met \cup {s}
      BY <3>1, <3>2 DEF Replacing
    <3>4. \A r \in sync'[t].old : /\ r \in done'[r.by].new
                                  /\ done'[r.by].new \subseteq sync'[t].old
      BY <1>7, <3>1, <3>3 DEF Snapshot
    <3>5. Snapshot(t)'
      <4>1. sync'[t].old \subseteq rows' /\ t \notin sync'[t].met
        BY <1>1, <3>1, <3>3 DEF Snapshot
      <4>2. \A r \in rows' : r \in sync'[t].old \/ r.by \in sync'[t].met
        BY <1>1, <1>2, <3>1, <3>3 DEF Snapshot, By
      <4> QED
        BY <3>4, <4>1, <4>2 DEF Snapshot, Whole
    <3> QED
      BY <3>3, <3>5
  <2>2. CASE sync[t].at \notin Ical!Replacing
    <3>1. sync'[t] = sync[t]
      BY <1>1, <2>2 DEF Ical!AfterCommit
    <3> QED
      BY <2>2, <3>1 DEF IcalInv
  <2> QED
    BY <2>1, <2>2
<1>12. \A t \in Syncs : /\ sync'[t] \in {Ical!Idle} \cup Fetched(t) \cup Replacing(t)
                        /\ sync'[t].at \in Ical!Replacing => Snapshot(t)'
  BY <1>10, <1>11 DEF Ical!Idle, Ical!Replacing
<1> QED
  BY <1>1, <1>3, <1>5, <1>6, <1>8, <1>9, <1>10, <1>12 DEF IcalInv

LEMMA IcalStep ==
  ASSUME Ical!CalendarAssumption, IcalInv, Ical!Next \/ UNCHANGED icalVars
  PROVE  IcalInv'
<1>1. ASSUME NEW s \in Syncs, Ical!Fetch(s) PROVE IcalInv'
  <2>1. PICK calendar \in Ical!Calendars :
          sync' = [sync EXCEPT ![s] =
                     [at |-> "fetched", new |-> Ical!Copy(Ical!Parsed(calendar), s)]]
    BY <1>1 DEF Ical!Fetch
  <2> DEFINE q == [at |-> "fetched", new |-> Ical!Copy(Ical!Parsed(calendar), s)]
  <2>2. q \in Fetched(s)
    BY ParsedSound DEF Fetched
  <2>3. sync' = [sync EXCEPT ![s] = q] /\ UNCHANGED <<feed, rows, stay, done>>
    BY <1>1, <2>1 DEF Ical!Fetch
  <2> HIDE DEF q
  <2> QED
    BY <2>2, <2>3, SyncGoesOn DEF IcalInv
<1>2. ASSUME NEW s \in Syncs, Ical!CommitFails(s) \/ Ical!Crash(s) PROVE IcalInv'
  BY <1>2, SyncGoesOn DEF Ical!CommitFails, Ical!Crash, IcalInv
<1> DEFINE Same == UNCHANGED <<rows, sync, done>>
<1>3. ASSUME Same, feed' \in {"none", "ok", "error"},
             stay' = Ical!NoStay
               \/ stay' \in [st : {"confirmed", "cancelled"}, span : Ical!Span]
      PROVE  IcalInv'
  BY <1>3 DEF IcalInv, Done, Snapshot, Whole, Ical!MixedCopiesOverlapped
<1>4. CASE Ical!CreateFeed \/ \E s \in Syncs : Ical!FetchFails(s)
  BY <1>3, <1>4 DEF Ical!CreateFeed, Ical!FetchFails, IcalInv
<1>5. CASE Ical!Book
  BY <1>3, <1>5 DEF Ical!Book, IcalInv
<1>6. CASE Ical!CancelStay
  <2>1. stay' \in [st : {"confirmed", "cancelled"}, span : Ical!Span]
    BY <1>6 DEF Ical!CancelStay, IcalInv
  <2>2. UNCHANGED <<feed, rows, sync, done>>
    BY <1>6 DEF Ical!CancelStay
  <2> QED
    BY <1>3, <2>1, <2>2 DEF IcalInv
<1>7. CASE UNCHANGED icalVars
  BY <1>3, <1>7 DEF icalVars, IcalInv
<1> QED
  BY <1>1, <1>2, <1>4, <1>5, <1>6, <1>7, DeleteKeeps, CommitReplaces
     DEF Ical!Next, Ical!Sync

LEMMA IcalInit == Ical!Init => IcalInv
<1> SUFFICES ASSUME Ical!Init PROVE IcalInv
  OBVIOUS
<1>1. \A s \in Syncs : sync[s] = Ical!Idle /\ sync[s].at \notin Ical!Replacing
  BY DEF Ical!Init, Ical!Idle, Ical!Replacing
<1> QED
  BY <1>1 DEF Ical!Init, IcalInv, Done, Whole, Ical!MixedCopiesOverlapped

(* Two spans of whole days share one exactly when each begins before the   *)
(* other ends.                                                             *)
LEMMA SharedDay ==
  ASSUME NEW a \in Nat, NEW b \in Int, NEW c \in Nat, NEW d \in Int, a < b, c < d
  PROVE  a < d /\ b > c <=> \E n \in Nat : n \in a..(b - 1) /\ n \in c..(d - 1)
<1>1. ASSUME a < d, b > c PROVE \E n \in Nat : n \in a..(b - 1) /\ n \in c..(d - 1)
  <2>1. CASE a <= c
    BY <1>1, <2>1
  <2>2. CASE c < a
    BY <1>1, <2>2
  <2> QED
    BY <2>1, <2>2
<1> QED
  BY <1>1

LEMMA IcalSound ==
  ASSUME Ical!CalendarAssumption, IcalInv
  PROVE  /\ Ical!CalendarTypeOK /\ Ical!CopiesAreWhole
         /\ Ical!MixedCopiesOverlapped /\ Ical!ConflictIffSharedNight
<1>1. Ical!CalendarTypeOK
  <2>1. ASSUME NEW s \in Syncs
        PROVE  /\ done[s].new \subseteq Ical!Rows /\ done[s].met \subseteq Syncs
               /\ \/ sync[s] = Ical!Idle
                  \/ sync[s].at = "fetched" /\ sync[s].new \subseteq Ical!Rows
                  \/ /\ sync[s].at \in Ical!Replacing
                     /\ sync[s].new \subseteq Ical!Rows /\ sync[s].old \subseteq Ical!Rows
                     /\ sync[s].met \subseteq Syncs
    BY DEF IcalInv, Fetched, Replacing, Done, By, SoundRows
  <2> QED
    BY <2>1 DEF IcalInv, Ical!CalendarTypeOK, SoundRows
<1>2. ASSUME NEW r \in rows
      PROVE  r \in Ical!Conflicts <=>
               \E p \in Ical!Published : \E d \in Ical!Days :
                 d \in p.from..(p.to - 1) /\ d \in r.span.from..(r.span.to - 1)
  <2>1. /\ r.span.from \in Ical!Days /\ r.span.to \in 0..(CalendarDays + 1)
        /\ r.span.from < r.span.to
    BY DEF IcalInv, SoundRows, Ical!Rows
  <2>2. CASE stay = Ical!NoStay \/ stay.st = "cancelled"
    BY <2>2 DEF Ical!Conflicts, Ical!Published
  <2>3. CASE stay # Ical!NoStay /\ stay.st # "cancelled"
    <3>1. /\ stay.span.from \in Ical!Days /\ stay.span.to \in 0..(CalendarDays + 1)
          /\ stay.span.from < stay.span.to
      BY <2>3 DEF IcalInv, Ical!Span
    <3>2. r \in Ical!Conflicts <=>
            stay.span.from < r.span.to /\ stay.span.to > r.span.from
      BY <2>3 DEF Ical!Conflicts
    <3>3. stay.span.from < r.span.to /\ stay.span.to > r.span.from <=>
            \E n \in Nat : /\ n \in stay.span.from..(stay.span.to - 1)
                           /\ n \in r.span.from..(r.span.to - 1)
      BY <2>1, <3>1, SharedDay DEF Ical!Days, Ical!CalendarAssumption
    <3>4. \A n \in Nat : n \in r.span.from..(r.span.to - 1) => n \in Ical!Days
      BY <2>1 DEF Ical!Days, Ical!CalendarAssumption
    <3>5. Ical!Days \subseteq Nat /\ Ical!Published = {stay.span}
      BY <2>3 DEF Ical!Days, Ical!Published, Ical!CalendarAssumption
    <3> QED
      BY <3>2, <3>3, <3>4, <3>5
  <2> QED
    BY <2>2, <2>3
<1> QED
  BY <1>1, <1>2 DEF IcalInv, Whole, Ical!CopiesAreWhole, Ical!ConflictIffSharedNight

-----------------------------------------------------------------------------
(* Maintenance requests.                                                   *)
WorkInv == Work!MaintenanceTypeOK /\ Work!UnitIsOnProperty

LEMMA WorkStep ==
  ASSUME WorkInv, Work!Next \/ UNCHANGED workVars
  PROVE  WorkInv'
<1> USE DEF WorkInv, Work!MaintenanceTypeOK, Work!UnitIsOnProperty
<1>1. CASE Work!Create
  <2>1. PICK s \in Work!Shown, st \in Work!Open :
          /\ Work!IsOn(s.unit, s.property)
          /\ work' = [st |-> st, urgent |-> s.urgent, property |-> s.property,
                      unit |-> s.unit, assignee |-> s.assignee, resolvedAt |-> FALSE]
          /\ UNCHANGED <<active, form>>
    BY <1>1 DEF Work!Create
  <2>2. work' \in Work!Work
    BY <2>1 DEF Work!Work, Work!Shown
  <2> QED
    BY <2>1, <2>2 DEF Work!IsOn
<1>2. ASSUME NEW f \in Forms, Work!Show(f) PROVE WorkInv'
  <2>1. work \in Work!Work /\ UNCHANGED <<work, active>>
    BY <1>2 DEF Work!Show
  <2>2. form' \in [Forms -> Work!Shown \cup {Work!Blank}]
    BY <1>2, <2>1 DEF Work!Show, Work!Work, Work!Shown
  <2> QED
    BY <2>1, <2>2 DEF Work!IsOn
<1>3. ASSUME NEW f \in Forms, Work!Fill(f) PROVE WorkInv'
  BY <1>3 DEF Work!Fill, Work!IsOn
<1>4. ASSUME NEW f \in Forms, Work!Submit(f) PROVE WorkInv'
  <2>1. form[f] \in Work!Shown /\ work \in Work!Work
    BY <1>4 DEF Work!Submit, Work!Editable
  <2>2. work' = [Work!Moved(form[f].property) EXCEPT !.unit = form[f].unit,
                   !.assignee = form[f].assignee, !.urgent = form[f].urgent]
    BY <1>4 DEF Work!Submit
  <2>3. /\ work' \in Work!Work /\ work'.unit = form[f].unit
        /\ work'.property = form[f].property
    BY <2>1, <2>2 DEF Work!Moved, Work!Work, Work!Shown
  <2>4. Work!IsOn(form[f].unit, form[f].property)
    BY <1>4 DEF Work!Submit
  <2>5. form' \in [Forms -> Work!Shown \cup {Work!Blank}] /\ active' = active
    BY <1>4 DEF Work!Submit
  <2> QED
    BY <2>3, <2>4, <2>5 DEF Work!IsOn
<1>5. CASE Work!PatchPlace
  <2>1. work \in Work!Work /\ UNCHANGED <<active, form>>
        /\ Work!IsOn(work.unit, work.property)
    BY <1>5 DEF Work!PatchPlace, Work!Editable
  <2>2. ASSUME NEW p \in Properties, work' = Work!Moved(p) PROVE WorkInv'
    <3>1. work' \in Work!Work /\ Work!IsOn(work'.unit, work'.property)
      BY <2>1, <2>2 DEF Work!Moved, Work!Work, Work!IsOn
    <3> QED
      BY <2>1, <3>1 DEF Work!IsOn
  <2>3. ASSUME NEW u \in Units \cup {Work!Nobody}, Work!IsOn(u, work.property),
               work' = [work EXCEPT !.unit = u]
        PROVE  WorkInv'
    <3>1. work' \in Work!Work /\ Work!IsOn(work'.unit, work'.property)
      BY <2>1, <2>3 DEF Work!Work
    <3> QED
      BY <2>1, <3>1 DEF Work!IsOn
  <2> QED
    BY <1>5, <2>2, <2>3 DEF Work!PatchPlace
<1>6. CASE Work!SetStatus \/ Work!Assign \/ Work!Resolve \/ Work!Cancel
  <2>1. work \in Work!Work /\ UNCHANGED <<active, form>>
        /\ Work!IsOn(work.unit, work.property)
    BY <1>6 DEF Work!SetStatus, Work!Assign, Work!Resolve, Work!Cancel, Work!Editable
  <2>2. /\ work' \in Work!Work
        /\ work'.unit = work.unit /\ work'.property = work.property
    BY <1>6, <2>1 DEF Work!SetStatus, Work!Assign, Work!Resolve, Work!Cancel,
       Work!Work, Work!Open, Work!Closed
  <2> QED
    BY <2>1, <2>2 DEF Work!IsOn
<1>7. CASE Work!SetActive
  BY <1>7 DEF Work!SetActive, Work!IsOn
<1>8. CASE UNCHANGED workVars
  BY <1>8 DEF workVars, Work!IsOn
<1> QED
  BY <1>1, <1>2, <1>3, <1>4, <1>5, <1>6, <1>7, <1>8
     DEF Work!Next, Work!NewRequestPage, Work!EditRequestPage, Work!RequestPages,
         Work!RequestApi

LEMMA WorkInit == Work!Init => WorkInv
  BY DEF Work!Init, WorkInv, Work!MaintenanceTypeOK, Work!UnitIsOnProperty

-----------------------------------------------------------------------------
(* The booking wizard.                                                     *)
WizInv == Wiz!WizardTypeOK /\ Wiz!WizardBooksWhatFits

LEMMA AnswerKeeps ==
  ASSUME WizInv, NEW w \in Windows, NEW s \in Wiz!State, Wiz!Answer(w, s),
         guests' \subseteq Guests, bookings' = bookings
  PROVE  WizInv'
  BY DEF WizInv, Wiz!WizardTypeOK, Wiz!WizardBooksWhatFits, Wiz!Answer

LEMMA BookKeeps ==
  ASSUME Wiz!WizardAssumption, WizInv, NEW b \in Wiz!Booking,
         PropertyOf[b.unit] = b.property, Wiz!Book(b)
  PROVE  bookings' \subseteq Wiz!Booking /\ Wiz!WizardBooksWhatFits'
<1>1. bookings' = bookings \cup {b} /\ bookings \subseteq Wiz!Booking
  BY DEF Wiz!Book, WizInv, Wiz!WizardTypeOK
<1>2. \A c \in bookings : c.unit = b.unit => c.to <= b.from \/ b.to <= c.from
  BY DEF Wiz!Book, Wiz!MayStay
<1> QED
  BY <1>1, <1>2 DEF WizInv, Wiz!WizardBooksWhatFits

LEMMA WizStep ==
  ASSUME Wiz!WizardAssumption, WizInv, Wiz!Next \/ UNCHANGED wizVars
  PROVE  WizInv'
<1>1. cookie \in Wiz!State /\ guests \subseteq Guests /\ Wiz!Empty \in Wiz!State
  BY DEF WizInv, Wiz!WizardTypeOK, Wiz!Empty, Wiz!State
<1>2. ASSUME NEW w \in Windows, Wiz!SeedFromQuery(w) PROVE WizInv'
  <2>1. PICK u \in Units, from \in Wiz!Days \cup {Wiz!NoDay},
             to \in Wiz!Days \cup {Wiz!NoDay} :
          Wiz!Answer(w, [cookie EXCEPT !.property = PropertyOf[u], !.unit = u,
                           !.from = IF from = Wiz!NoDay THEN @ ELSE from,
                           !.to = IF to = Wiz!NoDay THEN @ ELSE to])
    BY <1>2 DEF Wiz!SeedFromQuery
  <2> DEFINE s == [cookie EXCEPT !.property = PropertyOf[u], !.unit = u,
                     !.from = IF from = Wiz!NoDay THEN @ ELSE from,
                     !.to = IF to = Wiz!NoDay THEN @ ELSE to]
  <2>2. s \in Wiz!State
    BY <1>1 DEF Wiz!State, Wiz!WizardAssumption
  <2>3. Wiz!Answer(w, s) /\ guests' = guests /\ bookings' = bookings
    BY <1>2, <2>1 DEF Wiz!SeedFromQuery
  <2> HIDE DEF s
  <2> QED
    BY <1>1, <2>2, <2>3, AnswerKeeps
<1>3. ASSUME NEW w \in Windows, Wiz!StepProperty(w) PROVE WizInv'
  <2>1. PICK p \in Properties : Wiz!Answer(w, [cookie EXCEPT !.property = p])
    BY <1>3 DEF Wiz!StepProperty
  <2>2. [cookie EXCEPT !.property = p] \in Wiz!State
    BY <1>1 DEF Wiz!State
  <2> QED
    BY <1>1, <1>3, <2>1, <2>2, AnswerKeeps DEF Wiz!StepProperty
<1>4. ASSUME NEW w \in Windows, Wiz!StepUnitDates(w) PROVE WizInv'
  <2>1. PICK u \in Units, from \in Wiz!Days, to \in Wiz!Days :
          Wiz!Answer(w, [cookie EXCEPT !.unit = u, !.from = from, !.to = to])
    BY <1>4 DEF Wiz!StepUnitDates
  <2>2. [cookie EXCEPT !.unit = u, !.from = from, !.to = to] \in Wiz!State
    BY <1>1 DEF Wiz!State
  <2> QED
    BY <1>1, <1>4, <2>1, <2>2, AnswerKeeps DEF Wiz!StepUnitDates
<1>5. ASSUME NEW w \in Windows, Wiz!StepGuest(w) PROVE WizInv'
  <2>1. PICK g \in Guests : /\ guests' = guests \cup {g}
                            /\ Wiz!Answer(w, [cookie EXCEPT !.guest = g])
    BY <1>5 DEF Wiz!StepGuest
  <2>2. [cookie EXCEPT !.guest = g] \in Wiz!State
    BY <1>1 DEF Wiz!State
  <2> QED
    BY <1>1, <1>5, <2>1, <2>2, AnswerKeeps DEF Wiz!StepGuest
<1>6. ASSUME NEW w \in Windows, Wiz!StepConfirm(w) PROVE WizInv'
  <2> DEFINE b == [property |-> cookie.property, unit |-> cookie.unit,
                   from |-> cookie.from, to |-> cookie.to]
  <2>1. b \in Wiz!Booking /\ PropertyOf[b.unit] = b.property
    BY <1>1, <1>6 DEF Wiz!StepConfirm, Wiz!Preview, Wiz!Reached, Wiz!UnitForWizard,
       Wiz!State, Wiz!Booking, Wiz!WizardAssumption
  <2>2. Wiz!Book(b) /\ Wiz!Answer(w, Wiz!Empty) /\ guests' = guests
    BY <1>6 DEF Wiz!StepConfirm
  <2>3. bookings' \subseteq Wiz!Booking /\ Wiz!WizardBooksWhatFits'
    BY <2>1, <2>2, BookKeeps
  <2>4. cookie' = cookie /\ answer' = [answer EXCEPT ![w] = Wiz!Empty]
    BY <2>2 DEF Wiz!Answer
  <2> QED
    BY <1>1, <2>2, <2>3, <2>4 DEF WizInv, Wiz!WizardTypeOK
<1>7. ASSUME NEW w \in Windows, Wiz!CancelWizard(w) PROVE WizInv'
  BY <1>1, <1>7, AnswerKeeps DEF Wiz!CancelWizard
<1>8. ASSUME NEW w \in Windows, Wiz!Arrive(w) \/ Wiz!Lose(w) PROVE WizInv'
  BY <1>8 DEF Wiz!Arrive, Wiz!Lose, WizInv, Wiz!WizardTypeOK, Wiz!WizardBooksWhatFits
<1>9. CASE Wiz!NewReservation
  <2>1. PICK u \in Units, from \in Wiz!Days, to \in Wiz!Days :
          Wiz!Book([property |-> PropertyOf[u], unit |-> u, from |-> from, to |-> to])
    BY <1>9 DEF Wiz!NewReservation
  <2>2. [property |-> PropertyOf[u], unit |-> u, from |-> from, to |-> to]
          \in Wiz!Booking
    BY DEF Wiz!Booking, Wiz!WizardAssumption
  <2>3. bookings' \subseteq Wiz!Booking /\ Wiz!WizardBooksWhatFits'
    BY <2>1, <2>2, BookKeeps
  <2> QED
    BY <1>9, <2>3 DEF Wiz!NewReservation, WizInv, Wiz!WizardTypeOK
<1>10. CASE Wiz!CancelReservation
  BY <1>10 DEF Wiz!CancelReservation, WizInv, Wiz!WizardTypeOK, Wiz!WizardBooksWhatFits
<1>11. CASE UNCHANGED wizVars
  BY <1>11 DEF wizVars, WizInv, Wiz!WizardTypeOK, Wiz!WizardBooksWhatFits
<1> QED
  BY <1>2, <1>3, <1>4, <1>5, <1>6, <1>7, <1>8, <1>9, <1>10, <1>11
     DEF Wiz!Next, Wiz!WizardPages

LEMMA WizInit == Wiz!Init => WizInv
  BY DEF Wiz!Init, WizInv, Wiz!WizardTypeOK, Wiz!WizardBooksWhatFits, Wiz!Empty,
     Wiz!State
-----------------------------------------------------------------------------
(* The parts together.                                                     *)
AllInv ==
  /\ LeaseInv /\ Tpl!TemplatesTypeOK /\ PayInv /\ IcalInv /\ WorkInv /\ WizInv

ContractsStep ==
  [ContractsNext]_<<part, vars, tplVars, payVars, icalVars, workVars, wizVars>>

LEMMA StepOfAPart ==
  ContractsStep =>
    /\ [Next]_vars
    /\ Tpl!Next \/ UNCHANGED tplVars
    /\ Pay!Next \/ UNCHANGED payVars
    /\ Ical!Next \/ UNCHANGED icalVars
    /\ Work!Next \/ UNCHANGED workVars
    /\ Wiz!Next \/ UNCHANGED wizVars
  BY DEF ContractsStep, ContractsNext

LEMMA AllInit == ContractsInit => AllInv /\ TplInv
  BY Assumptions, LeaseInit, TplInit, PayInit, IcalInit, WorkInit, WizInit
     DEF ContractsInit, AllInv, TplInv

LEMMA AllStep == AllInv /\ ContractsStep => AllInv'
<1> SUFFICES ASSUME AllInv, ContractsStep PROVE AllInv'
  OBVIOUS
<1>1. LeaseInv'
  BY Assumptions, LeaseStep, StepOfAPart DEF AllInv
<1>2. Tpl!TemplatesTypeOK'
  BY TplTypeStep, StepOfAPart DEF AllInv
<1>3. PayInv'
  BY Assumptions, PayStep, StepOfAPart DEF AllInv
<1>4. IcalInv'
  BY Assumptions, IcalStep, StepOfAPart DEF AllInv
<1>5. WorkInv'
  BY WorkStep, StepOfAPart DEF AllInv
<1>6. WizInv'
  BY Assumptions, WizStep, StepOfAPart DEF AllInv
<1> QED
  BY <1>1, <1>2, <1>3, <1>4, <1>5, <1>6 DEF AllInv

LEMMA AllSound ==
  AllInv => ContractsTypeOK /\ PayoutsAddUp /\ CalendarIsCopied /\ UnitsFit
  BY Assumptions, PaySound, IcalSound
     DEF AllInv, ContractsTypeOK, PayoutsAddUp, CalendarIsCopied, UnitsFit, LeaseInv,
         WorkInv, WizInv

(* Every variable of the six parts keeps its type.                         *)
THEOREM ContractsAreTyped == ContractsSpec => []ContractsTypeOK
  BY AllInit, AllStep, AllSound, PTL DEF ContractsSpec, ContractsStep

(* Over all months an owner is paid for every night of a stay once, with   *)
(* the price of the nights split to the cent and the fee of each month     *)
(* rounded on its own, whatever the order in which months are generated,   *)
(* sent and cancelled (generate_monthly_payout, calculate_reservation_     *)
(* payout): for any price, share, fee and length of the months.            *)
THEOREM OwnersArePaidOnce == ContractsSpec => []PayoutsAddUp
  BY AllInit, AllStep, AllSound, PTL DEF ContractsSpec, ContractsStep

(* The imported events of a feed are whole fetches of the other site's     *)
(* calendar, of more than one only where a sync committed while the DELETE *)
(* of another had started: for any number of syncs, in every order of      *)
(* their statements.  And an event is listed as a conflict exactly if it   *)
(* shares a night with a stay here (_sync_single_feed, detect_conflicts).  *)
THEOREM FeedsAreCopied == ContractsSpec => []CalendarIsCopied
  BY AllInit, AllStep, AllSound, PTL DEF ContractsSpec, ContractsStep

(* A maintenance request's unit is of its property, through stale forms    *)
(* and edits of single fields (update_maintenance_request), and the wizard *)
(* books a unit on free nights, whatever two windows do to the session     *)
(* (create_reservation_from_wizard).                                       *)
THEOREM UnitsAlwaysFit == ContractsSpec => []UnitsFit
  BY AllInit, AllStep, AllSound, PTL DEF ContractsSpec, ContractsStep

(* One worker leaves at most one lease template as the default, over       *)
(* every order of creating, editing, choosing and deleting them            *)
(* (update_lease_template, set_default_lease_template).                    *)
THEOREM OneDefaultTemplate ==
  ASSUME OneWorker
  PROVE  ContractsSpec => []AtMostOneDefault
<1>1. TplInv /\ ContractsStep => TplInv'
  BY TplStep, StepOfAPart
<1>2. TplInv => AtMostOneDefault
  BY DEF TplInv, AtMostOneDefault
<1> QED
  BY <1>1, <1>2, AllInit, PTL DEF ContractsSpec, ContractsStep
=============================================================================
