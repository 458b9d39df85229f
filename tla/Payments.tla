------------------------------ MODULE Payments ------------------------------
(***************************************************************************)
(* Hosted payments of invoices: app/payments/services.py together with the *)
(* status changes of app/billing/services.py and the events that           *)
(* app/webhooks/routes.py hands to handle_webhook_event.                   *)
(*                                                                         *)
(* A web worker serves one request at a time and a scheduler thread runs   *)
(* one job at a time.  A request is a database transaction at PostgreSQL's *)
(* default READ COMMITTED level; it is split into one step per point where *)
(* other transactions can commit in between: what it has read, the row     *)
(* locks it took by flushing an UPDATE, the answer of the provider, and    *)
(* its commit.  A crash loses what was not committed.                      *)
(*                                                                         *)
(* The provider (Stripe) is external.  It delivers an event at least once, *)
(* in any order, and again after a 5xx answer.                             *)
(*                                                                         *)
(* Left out: organizations and permissions, currencies, e-mail, the audit  *)
(* log, and the expiry of idempotency keys (module Idempotency).           *)
(***************************************************************************)
EXTENDS Integers, FiniteSets

CONSTANTS
  Invoices,        \* ids of invoice rows
  Payments,        \* ids of payment rows
  InvoiceOf,       \* [Payments -> Invoices], Payment.invoice_id
  Amount,          \* [Payments -> 1..MaxAmount], Payment.amount in cents
  MaxAmount,       \* bound on the amounts
  MaxRefunds,      \* bound on the ids given to refund rows
  Keys,            \* Idempotency-Key values clients send with a refund
  NoKey,           \* a refund without the header: the key carries the time
  Workers,         \* web workers (gunicorn processes)
  Schedulers,      \* threads that run the overdue and the expiry jobs
  RefundResults,   \* what the provider may answer to a refund
  RetryAllowed,    \* whether the retry button of a failed refund is used
  ExternalRefunds  \* whether refunds are also made in the provider's own UI

ASSUME PaymentsAssumption ==
  /\ MaxAmount \in Nat /\ MaxRefunds \in Nat
  /\ InvoiceOf \in [Payments -> Invoices]
  /\ Amount \in [Payments -> 1..MaxAmount]
  /\ NoKey \notin Keys
  /\ RefundResults \subseteq {"succeeded", "pending", "failed", "error"}
  /\ RetryAllowed \in BOOLEAN /\ ExternalRefunds \in BOOLEAN
  /\ Workers \cap Schedulers = {}

VARIABLES
  invoice,    \* Invoice.status
  paidAt,     \* whether Invoice.paid_at is set
  payment,    \* Payment.status, "none" before the row exists
  refund,     \* the rows of payment_refunds, by id
  refundSeq,  \* ids given out so far
  captured,   \* payments whose money the provider has taken
  events,     \* webhook events the provider may deliver
  req         \* what each worker or scheduler thread is doing

vars == <<invoice, paidAt, payment, refund, refundSeq, captured, events, req>>
providerVars == <<captured, events>>
ledgerVars   == <<refund, refundSeq>>

Threads   == Workers \cup Schedulers
RefundIds == 1..MaxRefunds

InvoiceStatus == {"none", "draft", "open", "overdue", "paid", "cancelled"}
PaymentStatus == {"none", "pending", "succeeded", "failed", "expired",
                  "partially_refunded", "refunded"}

(* A refund row is "open" while the transaction that inserted it runs and  *)
(* "lost" once that transaction is gone; only the committed rows, those    *)
(* with a status of the table, are visible to the other requests.          *)
Committed    == {"pending", "succeeded", "failed"}
RefundStatus == {"free", "open", "lost"} \cup Committed

(* provider_refund_id: the "refund" id the provider answered, or the id of *)
(* the payment's "charge", which is what a refund event carries.           *)
RefundRow ==
  [st  : RefundStatus, pay : Payments, amt : 1..MaxAmount,
   key : Keys \cup {NoKey}, ref : {"none", "refund", "charge"}]
FreeRow == [st |-> "free"]

Event == [type : {"payment.succeeded", "payment.failed", "refund.succeeded"},
          pay  : Payments]
Succeeded(p) == [type |-> "payment.succeeded", pay |-> p]
Failed(p)    == [type |-> "payment.failed",    pay |-> p]
Refunded(p)  == [type |-> "refund.succeeded",  pay |-> p]

Idle == [op |-> "idle"]
Request ==
  {Idle}
    \cup [op : {"settle"}, pay : Payments, locked : BOOLEAN]
    \cup [op : {"fail"}, pay : Payments]
    \cup [op : {"credit"}, pay : Payments, row : 0..MaxRefunds,
          seen : PaymentStatus]
    \cup [op : {"credited"}, pay : Payments, row : 0..MaxRefunds,
          seen : PaymentStatus, new : PaymentStatus]
    \cup [op : {"refund"}, pay : Payments, amt : 1..MaxAmount,
          key : Keys \cup {NoKey}]
    \cup [op : {"answered"}, row : RefundIds, result : RefundResults]
    \cup [op : {"markPaid", "cancel"}, inv : Invoices]
    \cup [op : {"overdue"}, invs : SUBSET Invoices]
    \cup [op : {"expire"}, pays : SUBSET Payments]

TypeOK ==
  /\ invoice   \in [Invoices -> InvoiceStatus]
  /\ paidAt    \in [Invoices -> BOOLEAN]
  /\ payment   \in [Payments -> PaymentStatus]
  /\ refund    \in [RefundIds -> RefundRow \cup {FreeRow}]
  /\ refundSeq \in 0..MaxRefunds
  /\ captured  \subseteq Payments
  /\ events    \subseteq Event
  /\ req       \in [Threads -> Request]

Init ==
  /\ invoice   = [i \in Invoices |-> "none"]
  /\ paidAt    = [i \in Invoices |-> FALSE]
  /\ payment   = [p \in Payments |-> "none"]
  /\ refund    = [r \in RefundIds |-> FreeRow]
  /\ refundSeq = 0
  /\ captured  = {}
  /\ events    = {}
  /\ req       = [t \in Threads |-> Idle]

-----------------------------------------------------------------------------
(* Reading the refund ledger.                                              *)

RowsOf(p, statuses) ==
  {r \in RefundIds : refund[r].st \in statuses /\ refund[r].pay = p}

(* The sum of the amounts of some rows, as the number of their cents.      *)
Cents(rows) ==
  {c \in RefundIds \X (1..MaxAmount) : c[1] \in rows /\ c[2] <= refund[c[1]].amt}
Total(rows) == Cardinality(Cents(rows))

(* Seeded fault: refunds that are still pending are not reserved.          *)
OutstandingIgnoresPending(p) == Amount[p] - Total(RowsOf(p, {"succeeded"}))

Outstanding(p) == Amount[p] - Total(RowsOf(p, {"succeeded"}))
                            - Total(RowsOf(p, {"pending"}))

StatusForRefunds(p, total) ==
  IF total <= 0 THEN "succeeded"
  ELSE IF total < Amount[p] THEN "partially_refunded"
  ELSE "refunded"

(* Another transaction has flushed an UPDATE of payment p.                 *)
Locked(p, t) ==
  \E u \in Threads \ {t} :
    /\ req[u].op = "settle"
    /\ req[u].pay = p
    /\ req[u].locked

(* A 200 answer acknowledges the event; the provider may still repeat it.  *)
Acknowledge(e) == events' \in {events, events \ {e}}

Start(t, q) == req[t] = Idle /\ req' = [req EXCEPT ![t] = q]
Finish(t)   == req' = [req EXCEPT ![t] = Idle]

-----------------------------------------------------------------------------
(* The customer and the provider (external).                               *)

Pay(p) ==
  /\ payment[p] # "none" /\ p \notin captured
  /\ captured' = captured \cup {p}
  /\ events' = events \cup {Succeeded(p)}
  /\ UNCHANGED <<invoice, paidAt, payment, ledgerVars, req>>

(* An attempt is declined; the customer may try again on the same page.    *)
Decline(p) ==
  /\ payment[p] # "none" /\ p \notin captured
  /\ events' = events \cup {Failed(p)}
  /\ UNCHANGED <<invoice, paidAt, payment, ledgerVars, captured, req>>

(* A refund that reached the provider completes, whether or not its row    *)
(* survived here.                                                          *)
ProviderRefunds(p) ==
  /\ \/ RowsOf(p, {"open", "lost", "pending", "succeeded"}) # {}
     \/ ExternalRefunds /\ p \in captured
  /\ events' = events \cup {Refunded(p)}
  /\ UNCHANGED <<invoice, paidAt, payment, ledgerVars, captured, req>>

-----------------------------------------------------------------------------
(* Invoices.                                                               *)

CreateInvoice(i, status) ==
  /\ invoice[i] = "none" /\ status \in {"draft", "open"}
  /\ invoice' = [invoice EXCEPT ![i] = status]
  /\ UNCHANGED <<paidAt, payment, ledgerVars, providerVars, req>>

(* Seeded faults: the refusal of drafts, or of paid invoices, is missing.  *)
DraftMayBePaid(i) == invoice[i] \in {"draft", "open", "overdue"}
PaidMayBePaid(i)  == invoice[i] \in {"paid", "open", "overdue"}

MayBePaid(i) == invoice[i] \in {"open", "overdue"}

MarkPaidRead(w, i) ==
  /\ MayBePaid(i)
  /\ Start(w, [op |-> "markPaid", inv |-> i])
  /\ UNCHANGED <<invoice, paidAt, payment, ledgerVars, providerVars>>

MarkPaidCommit(w) ==
  /\ req[w].op = "markPaid"
  /\ invoice' = [invoice EXCEPT ![req[w].inv] = "paid"]
  /\ paidAt' = [paidAt EXCEPT ![req[w].inv] = TRUE]
  /\ Finish(w)
  /\ UNCHANGED <<payment, ledgerVars, providerVars>>

CancelRead(w, i) ==
  /\ invoice[i] \notin {"none", "paid", "cancelled"}
  /\ Start(w, [op |-> "cancel", inv |-> i])
  /\ UNCHANGED <<invoice, paidAt, payment, ledgerVars, providerVars>>

CancelCommit(w) ==
  /\ req[w].op = "cancel"
  /\ invoice' = [invoice EXCEPT ![req[w].inv] = "cancelled"]
  /\ Finish(w)
  /\ UNCHANGED <<paidAt, payment, ledgerVars, providerVars>>

(* The job loads every open invoice whose due date has passed; which ones  *)
(* those are depends on the calendar.                                      *)
OverdueRead(s) ==
  \E due \in SUBSET {i \in Invoices : invoice[i] = "open"} \ {{}} :
    /\ Start(s, [op |-> "overdue", invs |-> due])
    /\ UNCHANGED <<invoice, paidAt, payment, ledgerVars, providerVars>>

OverdueCommit(s) ==
  /\ req[s].op = "overdue"
  /\ invoice' = [i \in Invoices |->
                   IF i \in req[s].invs THEN "overdue" ELSE invoice[i]]
  /\ Finish(s)
  /\ UNCHANGED <<paidAt, payment, ledgerVars, providerVars>>

-----------------------------------------------------------------------------
(* Payments.                                                               *)

(* create_checkout looks at the invoice's amount only.  The customer gets  *)
(* the payment page after the commit, so nothing can happen in between.    *)
CreateCheckout(p) ==
  /\ payment[p] = "none" /\ invoice[InvoiceOf[p]] # "none"
  /\ payment' = [payment EXCEPT ![p] = "pending"]
  /\ UNCHANGED <<invoice, paidAt, ledgerVars, providerVars, req>>

ExpireRead(s) ==
  \E old \in SUBSET {p \in Payments : payment[p] = "pending"} \ {{}} :
    /\ Start(s, [op |-> "expire", pays |-> old])
    /\ UNCHANGED <<invoice, paidAt, payment, ledgerVars, providerVars>>

ExpireCommit(s) ==
  /\ req[s].op = "expire"
  /\ \A p \in req[s].pays : ~Locked(p, s)
  /\ payment' = [p \in Payments |->
                   IF p \in req[s].pays THEN "expired" ELSE payment[p]]
  /\ Finish(s)
  /\ UNCHANGED <<invoice, paidAt, ledgerVars, providerVars>>

(* Seeded fault: the event is taken for a duplicate whenever the payment   *)
(* is no longer pending, also when it has failed or expired.               *)
SettleAgainUnlessPending(w, p) ==
  /\ Succeeded(p) \in events /\ req[w] = Idle
  /\ payment[p] # "pending"
  /\ Acknowledge(Succeeded(p))
  /\ UNCHANGED <<invoice, paidAt, payment, ledgerVars, captured, req>>

(* payment.succeeded: nothing to do for a payment that has succeeded.      *)
SettleAgain(w, p) ==
  /\ Succeeded(p) \in events /\ req[w] = Idle
  /\ payment[p] = "succeeded"
  /\ Acknowledge(Succeeded(p))
  /\ UNCHANGED <<invoice, paidAt, payment, ledgerVars, captured, req>>

SettleRead(w, p) ==
  /\ Succeeded(p) \in events
  /\ payment[p] # "succeeded"
  /\ Start(w, [op |-> "settle", pay |-> p, locked |-> FALSE])
  /\ UNCHANGED <<invoice, paidAt, payment, ledgerVars, providerVars>>

(* Loading the invoice flushes the new status of the payment first, which  *)
(* waits for the row.  An invoice that may not be paid makes               *)
(* mark_invoice_paid raise: the transaction is rolled back, the provider   *)
(* gets a 500 and will deliver the event again.                            *)
SettleLock(w) ==
  /\ req[w].op = "settle" /\ ~req[w].locked
  /\ ~Locked(req[w].pay, w)
  /\ IF MayBePaid(InvoiceOf[req[w].pay])
     THEN req' = [req EXCEPT ![w].locked = TRUE]
     ELSE Finish(w)
  /\ UNCHANGED <<invoice, paidAt, payment, ledgerVars, providerVars>>

(* Seeded fault: the payment is committed on its own, before the invoice.  *)
SettleCommitPaymentOnly(w) ==
  /\ req[w].op = "settle" /\ req[w].locked
  /\ payment' = [payment EXCEPT ![req[w].pay] = "succeeded"]
  /\ Finish(w)
  /\ UNCHANGED <<invoice, paidAt, ledgerVars, providerVars>>

SettleCommit(w) ==
  /\ req[w].op = "settle" /\ req[w].locked
  /\ LET p == req[w].pay IN
       /\ payment' = [payment EXCEPT ![p] = "succeeded"]
       /\ invoice' = [invoice EXCEPT ![InvoiceOf[p]] = "paid"]
       /\ paidAt'  = [paidAt EXCEPT ![InvoiceOf[p]] = TRUE]
       /\ Acknowledge(Succeeded(p))
  /\ Finish(w)
  /\ UNCHANGED <<ledgerVars, captured>>

(* payment.failed: overwrites any other status.                            *)
FailAgain(w, p) ==
  /\ Failed(p) \in events /\ req[w] = Idle
  /\ payment[p] = "failed"
  /\ Acknowledge(Failed(p))
  /\ UNCHANGED <<invoice, paidAt, payment, ledgerVars, captured, req>>

FailRead(w, p) ==
  /\ Failed(p) \in events
  /\ payment[p] # "failed"
  /\ Start(w, [op |-> "fail", pay |-> p])
  /\ UNCHANGED <<invoice, paidAt, payment, ledgerVars, providerVars>>

FailCommit(w) ==
  /\ req[w].op = "fail"
  /\ ~Locked(req[w].pay, w)
  /\ payment' = [payment EXCEPT ![req[w].pay] = "failed"]
  /\ Acknowledge(Failed(req[w].pay))
  /\ Finish(w)
  /\ UNCHANGED <<invoice, paidAt, ledgerVars, captured>>

-----------------------------------------------------------------------------
(* refund.succeeded.                                                       *)

(* The row the event is about: one that carries its id, else the oldest    *)
(* pending one, else none (0).                                             *)
RowsForEvent(p) ==
  LET known == {r \in RowsOf(p, Committed) : refund[r].ref = "charge"}
      open  == RowsOf(p, {"pending"})
  IN  IF known # {} THEN known
      ELSE IF open # {} THEN {r \in open : \A q \in open : r <= q}
      ELSE {0}

CreditRead(w, p) ==
  /\ Refunded(p) \in events
  /\ \E r \in RowsForEvent(p) :
       Start(w, [op |-> "credit", pay |-> p, row |-> r, seen |-> payment[p]])
  /\ UNCHANGED <<invoice, paidAt, payment, ledgerVars, providerVars>>

(* Seeded fault: pending refunds are counted as if they had succeeded.     *)
CreditSumWithPending(w) ==
  /\ req[w].op = "credit"
  /\ LET q == req[w]
         sum == Total(RowsOf(q.pay, {"succeeded", "pending"}))
     IN  req' = [req EXCEPT ![w] =
                   [op |-> "credited", pay |-> q.pay, row |-> q.row,
                    seen |-> q.seen, new |-> StatusForRefunds(q.pay, sum)]]
  /\ UNCHANGED <<invoice, paidAt, payment, ledgerVars, providerVars>>

(* Summing flushes the row's new status first, which waits for the row;    *)
(* the sum sees it and what the others have committed.                     *)
CreditSum(w) ==
  /\ req[w].op = "credit"
  /\ LET q == req[w]
         sum == Total(RowsOf(q.pay, {"succeeded"}) \cup ({q.row} \ {0}))
     IN
       /\ \A u \in Threads : req[u].op = "credited" /\ req[u].pay = q.pay
                               => req[u].row # q.row \/ q.row = 0
       /\ req' = [req EXCEPT ![w] =
                    [op |-> "credited", pay |-> q.pay, row |-> q.row,
                     seen |-> q.seen, new |-> StatusForRefunds(q.pay, sum)]]
  /\ UNCHANGED <<invoice, paidAt, payment, ledgerVars, providerVars>>

(* The payment's row is written only if its status differs from the one    *)
(* that was loaded.                                                        *)
CreditCommit(w) ==
  /\ req[w].op = "credited"
  /\ LET q == req[w] IN
       /\ q.new # q.seen => ~Locked(q.pay, w)
       /\ payment' = IF q.new = q.seen THEN payment
                     ELSE [payment EXCEPT ![q.pay] = q.new]
       /\ refund' = IF q.row = 0 THEN refund
                    ELSE [refund EXCEPT ![q.row].st = "succeeded",
                                        ![q.row].ref = "charge"]
       /\ Acknowledge(Refunded(q.pay))
  /\ Finish(w)
  /\ UNCHANGED <<invoice, paidAt, refundSeq, captured>>

-----------------------------------------------------------------------------
(* Refunds asked for by an administrator.                                  *)

(* Bound of the model: every refund that begins finds an id.               *)
IdsLeft ==
  refundSeq + Cardinality({t \in Threads : req[t].op = "refund"}) < MaxRefunds

Refund(w, p, a, k) ==
  /\ IdsLeft
  /\ payment[p] \in {"succeeded", "partially_refunded"}
  /\ k # NoKey => \A r \in RefundIds : refund[r].st \in Committed
                                         => refund[r].key # k
  /\ a <= Outstanding(p)
  /\ Start(w, [op |-> "refund", pay |-> p, amt |-> a, key |-> k])
  /\ UNCHANGED <<invoice, paidAt, payment, ledgerVars, providerVars>>

RetryRefund(w, r) ==
  /\ IdsLeft
  /\ RetryAllowed /\ refund[r].st = "failed"
  /\ Start(w, [op |-> "refund", pay |-> refund[r].pay, amt |-> refund[r].amt,
               key |-> NoKey])
  /\ UNCHANGED <<invoice, paidAt, payment, ledgerVars, providerVars>>

(* Seeded fault: the table has no unique constraint on the key.            *)
KeyNeverTaken(k, statuses) == FALSE

(* Inserting a row waits for an uncommitted row with the same key, and     *)
(* fails if there is a committed one: the request ends in a 500.           *)
KeyTaken(k, statuses) ==
  k # NoKey /\ \E r \in RefundIds : refund[r].st \in statuses /\ refund[r].key = k

RefundRejected(w) ==
  /\ req[w].op = "refund"
  /\ KeyTaken(req[w].key, Committed)
  /\ Finish(w)
  /\ UNCHANGED <<invoice, paidAt, payment, ledgerVars, providerVars>>

(* The row is inserted and the provider called.  An "error" is an answer   *)
(* that did not arrive: the provider may have made the refund or not.      *)
RefundCall(w) ==
  /\ req[w].op = "refund" /\ refundSeq < MaxRefunds
  /\ ~KeyTaken(req[w].key, Committed \cup {"open"})
  /\ refundSeq' = refundSeq + 1
  /\ refund' = [refund EXCEPT ![refundSeq + 1] =
                  [st |-> "open", pay |-> req[w].pay, amt |-> req[w].amt,
                   key |-> req[w].key, ref |-> "none"]]
  /\ \E result \in RefundResults :
       /\ req' = [req EXCEPT ![w] = [op |-> "answered", row |-> refundSeq + 1,
                                     result |-> result]]
       /\ \/ events' = events
          \/ /\ result = "error"
             /\ events' = events \cup {Refunded(req[w].pay)}
  /\ UNCHANGED <<invoice, paidAt, payment, captured>>

(* Seeded fault: the provider's answer is stored as it came.               *)
RefundCommitRaw(w) ==
  /\ req[w].op = "answered"
  /\ refund' = [refund EXCEPT ![req[w].row].st = req[w].result,
                              ![req[w].row].ref = "refund"]
  /\ Finish(w)
  /\ UNCHANGED <<invoice, paidAt, payment, refundSeq, providerVars>>

RefundCommit(w) ==
  /\ req[w].op = "answered"
  /\ LET r == req[w].row IN
       refund' = [refund EXCEPT
         ![r].st  = IF req[w].result = "error" THEN "failed" ELSE req[w].result,
         ![r].ref = IF req[w].result = "error" THEN "none" ELSE "refund"]
  /\ Finish(w)
  /\ UNCHANGED <<invoice, paidAt, payment, refundSeq, providerVars>>

-----------------------------------------------------------------------------
(* A worker or scheduler stops in the middle of a request; its transaction *)
(* is rolled back, what it asked of the provider is not.                   *)
Crash(t) ==
  /\ req[t] # Idle
  /\ refund' = IF req[t].op = "answered"
               THEN [refund EXCEPT ![req[t].row].st = "lost"]
               ELSE refund
  /\ Finish(t)
  /\ UNCHANGED <<invoice, paidAt, payment, refundSeq, providerVars>>

Next ==
  \/ \E p \in Payments : Pay(p) \/ Decline(p) \/ ProviderRefunds(p)
                           \/ CreateCheckout(p)
  \/ \E i \in Invoices, status \in {"draft", "open"} : CreateInvoice(i, status)
  \/ \E w \in Workers, i \in Invoices : MarkPaidRead(w, i) \/ CancelRead(w, i)
  \/ \E w \in Workers, p \in Payments :
       \/ SettleAgain(w, p) \/ SettleRead(w, p)
       \/ FailAgain(w, p) \/ FailRead(w, p)
       \/ CreditRead(w, p)
  \/ \E w \in Workers, p \in Payments, a \in 1..MaxAmount,
        k \in Keys \cup {NoKey} : Refund(w, p, a, k)
  \/ \E w \in Workers, r \in RefundIds : RetryRefund(w, r)
  \/ \E w \in Workers :
       \/ MarkPaidCommit(w) \/ CancelCommit(w)
       \/ SettleLock(w) \/ SettleCommit(w) \/ FailCommit(w)
       \/ CreditSum(w) \/ CreditCommit(w)
       \/ RefundRejected(w) \/ RefundCall(w) \/ RefundCommit(w)
  \/ \E s \in Schedulers :
       \/ OverdueRead(s) \/ OverdueCommit(s)
       \/ ExpireRead(s) \/ ExpireCommit(s)
  \/ \E t \in Threads : Crash(t)

Spec == Init /\ [][Next]_vars

(* What thread t does next in the request it has begun.                    *)
Advance(t) ==
  \/ MarkPaidCommit(t) \/ CancelCommit(t)
  \/ SettleLock(t) \/ SettleCommit(t) \/ FailCommit(t)
  \/ CreditSum(t) \/ CreditCommit(t)
  \/ RefundRejected(t) \/ RefundCall(t) \/ RefundCommit(t)
  \/ OverdueCommit(t) \/ ExpireCommit(t)

(* A request that has begun ends.  The provider repeats an event until it  *)
(* is acknowledged, and not every delivery meets a busy or a crashing      *)
(* worker: strong fairness.                                                *)
SettlementFairness ==
  /\ \A t \in Threads : WF_vars(Advance(t))
  /\ \A p \in Payments :
       /\ SF_vars(\E w \in Workers : SettleAgain(w, p) \/ SettleRead(w, p))
       /\ SF_vars(\E w \in Workers : SettleLock(w) /\ req[w].pay = p)
       /\ SF_vars(\E w \in Workers : SettleCommit(w) /\ req[w].pay = p)

(* The same of the refunds the provider has accepted and of their events.  *)
RefundFairness ==
  /\ \A t \in Threads : WF_vars(Advance(t))
  /\ \A p \in Payments :
       /\ SF_vars(ProviderRefunds(p))
       /\ SF_vars(\E w \in Workers : CreditRead(w, p))
       /\ SF_vars(\E w \in Workers : CreditSum(w) /\ req[w].pay = p)
       /\ SF_vars(\E w \in Workers : CreditCommit(w) /\ req[w].pay = p)

FairSpec == Spec /\ SettlementFairness
FairRefundSpec == Spec /\ RefundFairness

-----------------------------------------------------------------------------
(* Properties.                                                             *)

Settled == {"succeeded", "partially_refunded", "refunded"}

(* A payment only counts as received, wholly or after refunds, if its      *)
(* invoice was marked paid: mark_invoice_paid commits both rows at once,   *)
(* and no crash, duplicate, late event or concurrent job separates them.   *)
SettledInvoiceWasPaid ==
  \A p \in Payments : payment[p] \in Settled => paidAt[InvoiceOf[p]]

(* A payment is called refunded, or partially refunded, only if refunds    *)
(* that have succeeded account for it, whatever requests computed their    *)
(* sums at the same time (_payment_status_for_refunds).                    *)
RefundStatusIsEarned ==
  \A p \in Payments :
    LET sum == Total(RowsOf(p, {"succeeded"})) IN
      /\ payment[p] = "refunded" => sum >= Amount[p]
      /\ payment[p] = "partially_refunded" => sum > 0

(* However often and however concurrently a client repeats a refund with   *)
(* the same Idempotency-Key, and wherever a worker crashes, there is one   *)
(* row for the key (uq idempotency_key and the replay in refund).          *)
OneRowPerKey ==
  \A k \in Keys :
    Cardinality({r \in RefundIds : /\ refund[r].st \in Committed
                                   /\ refund[r].key = k}) <= 1

(* The refunds of a payment that succeeded or may still succeed never      *)
(* exceed the payment (refundable_outstanding_amount, refund).             *)
RefundsWithinPayment ==
  \A p \in Payments : Total(RowsOf(p, {"succeeded", "pending"})) <= Amount[p]

(* Of several payments started for one invoice at most one is ever booked  *)
(* as received: mark_invoice_paid refuses the others.  One worker; a job   *)
(* that writes "overdue" over "paid" in between makes room for another.    *)
OneSettlementPerInvoice ==
  \A i \in Invoices :
    Cardinality({p \in Payments : InvoiceOf[p] = i /\ payment[p] \in Settled}) <= 1

(* The invoices that a run of the overdue job has loaded and not written.  *)
Loaded == UNION {req[s].invs : s \in {t \in Schedulers : req[t].op = "overdue"}}

Lifecycle == INSTANCE InvoiceLifecycle WITH loaded <- Loaded

(* Beside one web worker and the scheduled jobs, which INVOICE_OVERDUE_    *)
(* SCHEDULER_ENABLED starts by default, the invoices follow their life     *)
(* cycle, but for those a job had loaded before (billing/services.py).     *)
ImplementsInvoiceLifecycle == Lifecycle!Spec

(* An invoice that is paid stays paid: the job is to "Mark open invoices   *)
(* overdue" (mark_overdue_invoices), "Paid invoices cannot be cancelled."  *)
(* (cancel_invoice).  One worker and one job are enough to violate it.     *)
PaidIsFinal ==
  [][\A i \in Invoices : invoice[i] = "paid" => invoice'[i] = "paid"]_invoice

(* Money the provider has taken for an invoice is eventually booked on it, *)
(* through crashes, repeated and late events, unless the invoice may not   *)
(* be paid (mark_invoice_paid answers 409 and the provider repeats).       *)
CapturedIsRecorded ==
  \A p \in Payments :
    p \in captured ~> \/ paidAt[InvoiceOf[p]]
                      \/ invoice[InvoiceOf[p]] \in {"draft", "cancelled"}

(* A refund the provider has accepted and keeps reporting does not stay    *)
(* pending for ever (handle_webhook_event, refund.succeeded).              *)
PendingRefundsComplete ==
  \A r \in RefundIds : refund[r].st = "pending" ~> refund[r].st = "succeeded"
=============================================================================
