--------------------------- MODULE PaymentsProofs ---------------------------
(***************************************************************************)
(* What holds of Payments for every set of invoices, payments, workers and *)
(* schedulers and for all bounds.                                          *)
(*                                                                         *)
(* The type invariant is not inductive by itself: a request remembers the  *)
(* id of a refund row across its steps, and what it later writes is well   *)
(* typed only because that row is still there.  RowInv says so, and every  *)
(* other theorem rests on it.                                              *)
(*                                                                         *)
(* The last part is about requests that run one at a time: then what was   *)
(* validated is what is committed.  Payments has findings for two threads. *)
(***************************************************************************)
EXTENDS Payments, FiniteSetTheorems, TLAPS

(* The row a request refers to is the one it means: its own uncommitted    *)
(* row, or a committed row of the payment of its event.                    *)
RequestRows ==
  /\ \A t \in Threads : req[t].op = "answered" => refund[req[t].row].st = "open"
  /\ \A t, u \in Threads :
       req[t].op = "answered" /\ req[u].op = "answered" /\ req[t].row = req[u].row
         => t = u
  /\ \A t \in Threads :
       req[t].op \in {"credit", "credited"} /\ req[t].row # 0
         => /\ refund[req[t].row].st \in Committed
            /\ refund[req[t].row].pay = req[t].pay

(* Ids that were not given out have no row.                                *)
FreshRows == \A r \in RefundIds : r > refundSeq => refund[r] = FreeRow

RowInv == TypeOK /\ RequestRows /\ FreshRows

-----------------------------------------------------------------------------
(* The fields of a request, by its kind.                                   *)
LEMMA RequestFields ==
  ASSUME NEW q \in Request
  PROVE  /\ q.op = "settle" => q.pay \in Payments /\ q.locked \in BOOLEAN
         /\ q.op = "fail" => q.pay \in Payments
         /\ q.op = "credit" => /\ q.pay \in Payments /\ q.row \in 0..MaxRefunds
                               /\ q.seen \in PaymentStatus
         /\ q.op = "credited" => /\ q.pay \in Payments /\ q.row \in 0..MaxRefunds
                                 /\ q.seen \in PaymentStatus
                                 /\ q.new \in PaymentStatus
         /\ q.op = "refund" => /\ q.pay \in Payments /\ q.amt \in 1..MaxAmount
                               /\ q.key \in Keys \cup {NoKey}
         /\ q.op = "answered" => q.row \in RefundIds /\ q.result \in RefundResults
         /\ q.op \in {"markPaid", "cancel"} => q.inv \in Invoices
         /\ q.op = "overdue" => q.invs \in SUBSET Invoices
         /\ q.op = "expire" => q.pays \in SUBSET Payments
  BY DEF Request, Idle

(* A thread that takes up a request, or ends one, stays well typed.        *)
LEMMA NewRequest ==
  ASSUME TypeOK, NEW t \in Threads, NEW q \in Request, req' = [req EXCEPT ![t] = q]
  PROVE  req' \in [Threads -> Request]
  BY DEF TypeOK

LEMMA Finished ==
  ASSUME TypeOK, NEW t \in Threads, Finish(t)
  PROVE  req' \in [Threads -> Request]
  BY NewRequest DEF Finish, Request

(* A row that is in use has all its fields.                                *)
LEMMA RowFields ==
  ASSUME TypeOK, NEW r \in RefundIds, refund[r].st # "free"
  PROVE  refund[r] \in RefundRow
  BY DEF TypeOK, FreeRow, RefundRow

(* A step that leaves the ledger alone, and puts no row into a request.    *)
LEMMA QuietStep ==
  ASSUME RowInv, UNCHANGED ledgerVars,
         NEW t \in Threads, NEW q, q.op \notin {"answered", "credit", "credited"},
         req' = [req EXCEPT ![t] = q] \/ req' = req
  PROVE  RequestRows' /\ FreshRows'
  BY DEF RowInv, TypeOK, RequestRows, FreshRows, ledgerVars

(* The row that a refund event picks is a committed row of its payment.    *)
LEMMA RowsForEventType ==
  ASSUME NEW p \in Payments, NEW r \in RowsForEvent(p)
  PROVE  /\ r \in 0..MaxRefunds
         /\ r # 0 => refund[r].st \in Committed /\ refund[r].pay = p
  BY PaymentsAssumption DEF RowsForEvent, RowsOf, RefundIds, Committed

-----------------------------------------------------------------------------
(* Every step keeps the state well typed.                                  *)
LEMMA TypeStep == RowInv /\ [Next]_vars => TypeOK'
<1> SUFFICES ASSUME RowInv, [Next]_vars PROVE TypeOK'
  OBVIOUS
<1> USE PaymentsAssumption DEF RowInv, ledgerVars, providerVars
<1>1. ASSUME NEW p \in Payments,
             Pay(p) \/ Decline(p) \/ ProviderRefunds(p) \/ CreateCheckout(p)
      PROVE  TypeOK'
  BY <1>1 DEF TypeOK, Pay, Decline, ProviderRefunds, CreateCheckout, Event,
              Succeeded, Failed, Refunded, PaymentStatus
<1>2. ASSUME NEW i \in Invoices, NEW status \in {"draft", "open"},
             CreateInvoice(i, status)
      PROVE  TypeOK'
  BY <1>2 DEF TypeOK, CreateInvoice, InvoiceStatus
<1>3. ASSUME NEW w \in Workers, NEW i \in Invoices,
             MarkPaidRead(w, i) \/ CancelRead(w, i)
      PROVE  TypeOK'
  BY <1>3 DEF TypeOK, MarkPaidRead, CancelRead, Start, Request
<1>4. ASSUME NEW w \in Workers, NEW p \in Payments,
             SettleAgain(w, p) \/ FailAgain(w, p)
      PROVE  TypeOK'
  BY <1>4 DEF TypeOK, SettleAgain, FailAgain, Acknowledge
<1>5. ASSUME NEW w \in Workers, NEW p \in Payments,
             SettleRead(w, p) \/ FailRead(w, p)
      PROVE  TypeOK'
  <2>1. /\ [op |-> "settle", pay |-> p, locked |-> FALSE] \in Request
        /\ [op |-> "fail", pay |-> p] \in Request
    BY DEF Request
  <2>2. req' \in [Threads -> Request]
    BY <1>5, <2>1, NewRequest DEF SettleRead, FailRead, Start, Threads
  <2>3. QED
    BY <1>5, <2>2 DEF TypeOK, SettleRead, FailRead
<1>6. ASSUME NEW w \in Workers, NEW p \in Payments, CreditRead(w, p)
      PROVE  TypeOK'
  <2>1. PICK r \in RowsForEvent(p) :
          req' = [req EXCEPT ![w] = [op |-> "credit", pay |-> p, row |-> r,
                                     seen |-> payment[p]]]
    BY <1>6 DEF CreditRead, Start
  <2>2. [op |-> "credit", pay |-> p, row |-> r, seen |-> payment[p]] \in Request
    BY RowsForEventType DEF Request, TypeOK
  <2>3. req' \in [Threads -> Request]
    BY <2>1, <2>2, NewRequest DEF Threads
  <2>4. QED
    BY <1>6, <2>3 DEF TypeOK, CreditRead
<1>7. ASSUME NEW w \in Workers, NEW p \in Payments, NEW a \in 1..MaxAmount,
             NEW k \in Keys \cup {NoKey}, Refund(w, p, a, k)
      PROVE  TypeOK'
  BY <1>7 DEF TypeOK, Refund, Start, Request
<1>8. ASSUME NEW w \in Workers, NEW r \in RefundIds, RetryRefund(w, r)
      PROVE  TypeOK'
  <2>1. refund[r] \in RefundRow
    BY <1>8, RowFields DEF RetryRefund
  <2>2. QED
    BY <1>8, <2>1 DEF TypeOK, RetryRefund, Start, Request, RefundRow
<1>9. ASSUME NEW w \in Workers, MarkPaidCommit(w) \/ CancelCommit(w)
      PROVE  TypeOK'
  <2>1. req[w] \in Request /\ req' \in [Threads -> Request]
    BY <1>9, Finished DEF TypeOK, Threads, MarkPaidCommit, CancelCommit
  <2>2. req[w].inv \in Invoices
    BY <1>9, <2>1, RequestFields DEF MarkPaidCommit, CancelCommit
  <2>3. CASE MarkPaidCommit(w)
    BY <2>1, <2>2, <2>3 DEF TypeOK, MarkPaidCommit, InvoiceStatus
  <2>4. CASE CancelCommit(w)
    BY <2>1, <2>2, <2>4 DEF TypeOK, CancelCommit, InvoiceStatus
  <2>5. QED
    BY <1>9, <2>3, <2>4
<1>10. ASSUME NEW w \in Workers, SettleLock(w) PROVE TypeOK'
  <2>1. req[w] \in Request /\ req[w].op = "settle"
    BY <1>10 DEF TypeOK, Threads, SettleLock
  <2>2. [req[w] EXCEPT !.locked = TRUE] \in Request
    BY <2>1 DEF Request, Idle
  <2>3. \/ req' = [req EXCEPT ![w] = [req[w] EXCEPT !.locked = TRUE]]
        \/ Finish(w)
    BY <1>10 DEF SettleLock
  <2>4. req' \in [Threads -> Request]
    BY <2>2, <2>3, NewRequest, Finished DEF Threads
  <2>5. QED
    BY <1>10, <2>4 DEF TypeOK, SettleLock
<1>11. ASSUME NEW w \in Workers, SettleCommit(w) \/ FailCommit(w) PROVE TypeOK'
  <2>1. req[w] \in Request /\ req' \in [Threads -> Request]
    BY <1>11, Finished DEF TypeOK, Threads, SettleCommit, FailCommit
  <2>2. req[w].pay \in Payments /\ InvoiceOf[req[w].pay] \in Invoices
    BY <1>11, <2>1, RequestFields DEF SettleCommit, FailCommit
  <2>3. CASE SettleCommit(w)
    BY <2>1, <2>2, <2>3 DEF TypeOK, SettleCommit, Acknowledge, InvoiceStatus,
                            PaymentStatus
  <2>4. CASE FailCommit(w)
    BY <2>1, <2>2, <2>4 DEF TypeOK, FailCommit, Acknowledge, PaymentStatus
  <2>5. QED
    BY <1>11, <2>3, <2>4
<1>12. ASSUME NEW w \in Workers, CreditSum(w) PROVE TypeOK'
  <2>1. req[w] \in Request
    BY DEF TypeOK, Threads
  <2>2. /\ req[w].pay \in Payments /\ req[w].row \in 0..MaxRefunds
        /\ req[w].seen \in PaymentStatus
    BY <1>12, <2>1, RequestFields DEF CreditSum
  <2>3. \A n : StatusForRefunds(req[w].pay, n) \in PaymentStatus
    BY DEF StatusForRefunds, PaymentStatus
  <2>4. QED
    BY <1>12, <2>2, <2>3 DEF TypeOK, CreditSum, Request
<1>13. ASSUME NEW w \in Workers, CreditCommit(w) PROVE TypeOK'
  <2> DEFINE q == req[w]
  <2>1. q \in Request /\ q.op = "credited"
    BY <1>13 DEF TypeOK, Threads, CreditCommit
  <2>2. q.pay \in Payments /\ q.row \in 0..MaxRefunds /\ q.new \in PaymentStatus
    BY <2>1, RequestFields
  <2>3. refund' \in [RefundIds -> RefundRow \cup {FreeRow}]
    <3>1. CASE q.row = 0
      BY <1>13, <3>1 DEF CreditCommit, TypeOK
    <3>2. CASE q.row # 0
      <4>1. q.row \in RefundIds /\ refund[q.row].st # "free"
        BY <2>1, <2>2, <3>2 DEF RequestRows, Threads, Committed, RefundIds
      <4>2. refund[q.row] \in RefundRow
        BY <4>1, RowFields
      <4>3. [refund[q.row] EXCEPT !.st = "succeeded", !.ref = "charge"] \in RefundRow
        BY <4>2 DEF RefundRow, RefundStatus, Committed
      <4>4. refund' = [refund EXCEPT
                ![q.row] = [refund[q.row] EXCEPT !.st = "succeeded", !.ref = "charge"]]
        BY <1>13, <3>2, <4>1 DEF CreditCommit, TypeOK
      <4>5. QED
        BY <4>1, <4>3, <4>4 DEF TypeOK
    <3>3. QED
      BY <3>1, <3>2
  <2>4. QED
    BY <1>13, <2>2, <2>3 DEF TypeOK, CreditCommit, Acknowledge, Finish, Request
<1>14. ASSUME NEW w \in Workers, RefundRejected(w) PROVE TypeOK'
  BY <1>14 DEF TypeOK, RefundRejected, Finish, Request
<1>15. ASSUME NEW w \in Workers, RefundCall(w) PROVE TypeOK'
  <2>1. req[w] \in Request /\ req[w].op = "refund"
    BY <1>15 DEF TypeOK, Threads, RefundCall
  <2>2. /\ req[w].pay \in Payments /\ req[w].amt \in 1..MaxAmount
        /\ req[w].key \in Keys \cup {NoKey}
    BY <2>1, RequestFields
  <2>3. refundSeq + 1 \in RefundIds
    BY <1>15 DEF TypeOK, RefundCall, RefundIds
  <2>4. refund' \in [RefundIds -> RefundRow \cup {FreeRow}]
    BY <1>15, <2>2, <2>3 DEF TypeOK, RefundCall, RefundRow, RefundStatus
  <2>5. refundSeq' \in 0..MaxRefunds
    BY <1>15, <2>3 DEF RefundCall, RefundIds, TypeOK
  <2>6. events' \subseteq Event
    BY <1>15, <2>2 DEF RefundCall, TypeOK, Event, Refunded
  <2>7. req' \in [Threads -> Request]
    <3>1. PICK result \in RefundResults :
            req' = [req EXCEPT ![w] = [op |-> "answered", row |-> refundSeq + 1,
                                       result |-> result]]
      BY <1>15 DEF RefundCall
    <3>2. [op |-> "answered", row |-> refundSeq + 1, result |-> result] \in Request
      BY <2>3 DEF Request
    <3>3. QED
      BY <3>1, <3>2, NewRequest DEF Threads
  <2>8. QED
    BY <1>15, <2>4, <2>5, <2>6, <2>7 DEF RefundCall, TypeOK
<1>16. ASSUME NEW w \in Workers, RefundCommit(w) PROVE TypeOK'
  <2> DEFINE r == req[w].row
             st == IF req[w].result = "error" THEN "failed" ELSE req[w].result
             ref == IF req[w].result = "error" THEN "none" ELSE "refund"
  <2>1. req[w] \in Request /\ req[w].op = "answered"
    BY <1>16 DEF TypeOK, Threads, RefundCommit
  <2>2. r \in RefundIds /\ req[w].result \in RefundResults
    BY <2>1, RequestFields
  <2>3. refund[r] \in RefundRow
    BY <2>1, <2>2, RowFields DEF RequestRows, Threads
  <2>4. [refund[r] EXCEPT !.st = st, !.ref = ref] \in RefundRow
    BY <2>2, <2>3 DEF RefundRow, RefundStatus, Committed
  <2>5. refund' = [refund EXCEPT ![r] = [refund[r] EXCEPT !.st = st, !.ref = ref]]
    BY <1>16, <2>2 DEF RefundCommit, TypeOK
  <2>6. refund' \in [RefundIds -> RefundRow \cup {FreeRow}]
    BY <2>2, <2>4, <2>5 DEF TypeOK
  <2>7. req' \in [Threads -> Request]
    BY <1>16, Finished DEF RefundCommit, Threads
  <2>8. QED
    BY <1>16, <2>6, <2>7 DEF RefundCommit, TypeOK
<1>17. ASSUME NEW s \in Schedulers,
              OverdueRead(s) \/ OverdueCommit(s) \/ ExpireRead(s) \/ ExpireCommit(s)
       PROVE  TypeOK'
  <2>1. CASE OverdueRead(s) \/ ExpireRead(s)
    BY <2>1 DEF TypeOK, OverdueRead, ExpireRead, Start, Request
  <2>2. CASE OverdueCommit(s) \/ ExpireCommit(s)
    BY <2>2 DEF TypeOK, OverdueCommit, ExpireCommit, Finish, Request,
                InvoiceStatus, PaymentStatus
  <2>3. QED
    BY <1>17, <2>1, <2>2
<1>18. ASSUME NEW t \in Threads, Crash(t) PROVE TypeOK'
  <2>1. req' \in [Threads -> Request]
    BY <1>18 DEF Crash, Finish, TypeOK, Request
  <2>2. refund' \in [RefundIds -> RefundRow \cup {FreeRow}]
    <3>1. CASE req[t].op # "answered"
      BY <1>18, <3>1 DEF Crash, TypeOK
    <3>2. CASE req[t].op = "answered"
      <4>1. req[t] \in Request
        BY DEF TypeOK
      <4>2. req[t].row \in RefundIds
        BY <3>2, <4>1, RequestFields
      <4>3. refund[req[t].row] \in RefundRow
        BY <3>2, <4>2, RowFields DEF RequestRows
      <4>4. [refund[req[t].row] EXCEPT !.st = "lost"] \in RefundRow
        BY <4>3 DEF RefundRow, RefundStatus
      <4>5. QED
        BY <1>18, <3>2, <4>2, <4>4 DEF Crash, TypeOK
    <3>3. QED
      BY <3>1, <3>2
  <2>3. QED
    BY <1>18, <2>1, <2>2 DEF Crash, TypeOK
<1>19. CASE UNCHANGED vars
  BY <1>19 DEF vars, TypeOK
<1>20. QED
  BY <1>1, <1>2, <1>3, <1>4, <1>5, <1>6, <1>7, <1>8, <1>9, <1>10, <1>11, <1>12,
     <1>13, <1>14, <1>15, <1>16, <1>17, <1>18, <1>19 DEF Next

(* Every step keeps the rows of the requests, and the unused ids, as they  *)
(* should be.                                                              *)
LEMMA RowStep == RowInv /\ [Next]_vars => RequestRows' /\ FreshRows'
<1> SUFFICES ASSUME RowInv, [Next]_vars PROVE RequestRows' /\ FreshRows'
  OBVIOUS
<1> USE PaymentsAssumption DEF RowInv, ledgerVars, providerVars, Threads
<1>1. ASSUME NEW p \in Payments,
             Pay(p) \/ Decline(p) \/ ProviderRefunds(p) \/ CreateCheckout(p)
      PROVE  RequestRows' /\ FreshRows'
  BY <1>1 DEF Pay, Decline, ProviderRefunds, CreateCheckout, RequestRows, FreshRows
<1>2. ASSUME NEW i \in Invoices, NEW status \in {"draft", "open"},
             CreateInvoice(i, status)
      PROVE  RequestRows' /\ FreshRows'
  BY <1>2 DEF CreateInvoice, RequestRows, FreshRows
<1>3. ASSUME NEW w \in Workers, NEW i \in Invoices,
             MarkPaidRead(w, i) \/ CancelRead(w, i)
      PROVE  RequestRows' /\ FreshRows'
  <2>1. CASE MarkPaidRead(w, i)
    BY <2>1, QuietStep DEF MarkPaidRead, Start
  <2>2. CASE CancelRead(w, i)
    BY <2>2, QuietStep DEF CancelRead, Start
  <2>3. QED
    BY <1>3, <2>1, <2>2
<1>4. ASSUME NEW w \in Workers, NEW p \in Payments,
             SettleAgain(w, p) \/ FailAgain(w, p)
      PROVE  RequestRows' /\ FreshRows'
  BY <1>4 DEF SettleAgain, FailAgain, RequestRows, FreshRows
<1>5. ASSUME NEW w \in Workers, NEW p \in Payments,
             SettleRead(w, p) \/ FailRead(w, p)
      PROVE  RequestRows' /\ FreshRows'
  <2>1. CASE SettleRead(w, p)
    BY <2>1, QuietStep DEF SettleRead, Start
  <2>2. CASE FailRead(w, p)
    BY <2>2, QuietStep DEF FailRead, Start
  <2>3. QED
    BY <1>5, <2>1, <2>2
<1>6. ASSUME NEW w \in Workers, NEW p \in Payments, CreditRead(w, p)
      PROVE  RequestRows' /\ FreshRows'
  <2>1. PICK r \in RowsForEvent(p) :
          req' = [req EXCEPT ![w] = [op |-> "credit", pay |-> p, row |-> r,
                                     seen |-> payment[p]]]
    BY <1>6 DEF CreditRead, Start
  <2>2. r # 0 => refund[r].st \in Committed /\ refund[r].pay = p
    BY RowsForEventType
  <2>3. QED
    BY <1>6, <2>1, <2>2 DEF CreditRead, RequestRows, FreshRows, TypeOK
<1>7. ASSUME NEW w \in Workers, NEW p \in Payments, NEW a \in 1..MaxAmount,
             NEW k \in Keys \cup {NoKey}, Refund(w, p, a, k)
      PROVE  RequestRows' /\ FreshRows'
  BY <1>7, QuietStep DEF Refund, Start
<1>8. ASSUME NEW w \in Workers, NEW r \in RefundIds, RetryRefund(w, r)
      PROVE  RequestRows' /\ FreshRows'
  BY <1>8, QuietStep DEF RetryRefund, Start
<1>9. ASSUME NEW w \in Workers,
             \/ MarkPaidCommit(w) \/ CancelCommit(w) \/ SettleCommit(w)
             \/ FailCommit(w) \/ RefundRejected(w)
      PROVE  RequestRows' /\ FreshRows'
  <2>1. UNCHANGED ledgerVars /\ req' = [req EXCEPT ![w] = Idle]
    BY <1>9 DEF MarkPaidCommit, CancelCommit, SettleCommit, FailCommit,
                RefundRejected, Finish
  <2>2. QED
    BY <2>1, QuietStep DEF Idle
<1>10. ASSUME NEW w \in Workers, SettleLock(w)
       PROVE  RequestRows' /\ FreshRows'
  <2>1. req[w] \in Request /\ req[w].op = "settle"
    BY <1>10 DEF TypeOK, SettleLock
  <2>2. [req[w] EXCEPT !.locked = TRUE].op = "settle"
    BY <2>1 DEF Request, Idle
  <2>3. CASE Finish(w)
    BY <1>10, <2>3, QuietStep DEF SettleLock, Finish, Idle
  <2>4. CASE req' = [req EXCEPT ![w] = [req[w] EXCEPT !.locked = TRUE]]
    BY <1>10, <2>2, <2>4, QuietStep DEF SettleLock
  <2>5. QED
    BY <1>10, <2>3, <2>4 DEF SettleLock
<1>11. ASSUME NEW w \in Workers, CreditSum(w)
       PROVE  RequestRows' /\ FreshRows'
  BY <1>11 DEF CreditSum, RequestRows, FreshRows, TypeOK
<1>12. ASSUME NEW w \in Workers, CreditCommit(w)
       PROVE  RequestRows' /\ FreshRows'
  <2> DEFINE q == req[w]
  <2>1. CASE q.row = 0
    BY <1>12, <2>1, QuietStep DEF CreditCommit, Finish, Idle
  <2>2. CASE q.row # 0
    <3>1. /\ q.row \in RefundIds /\ refund[q.row].st \in Committed
          /\ refund[q.row] \in RefundRow
      <4>1. q \in Request /\ q.op = "credited"
        BY <1>12 DEF CreditCommit, TypeOK
      <4>2. q.row \in RefundIds
        BY <2>2, <4>1, RequestFields DEF RefundIds
      <4>3. refund[q.row].st \in Committed
        BY <2>2, <4>1 DEF RequestRows
      <4>4. QED
        BY <4>2, <4>3, RowFields DEF Committed
    <3>2. \A r \in RefundIds :
            /\ r # q.row => refund'[r] = refund[r]
            /\ refund'[q.row].st = "succeeded" /\ refund'[q.row].pay = refund[q.row].pay
      BY <1>12, <2>2, <3>1 DEF CreditCommit, TypeOK, RefundRow
    <3>3. FreshRows'
      <4>1. ~(q.row > refundSeq)
        BY <3>1 DEF FreshRows, FreeRow, Committed
      <4>2. refundSeq' = refundSeq
        BY <1>12 DEF CreditCommit
      <4>3. QED
        BY <3>2, <4>1, <4>2 DEF FreshRows
    <3>4. RequestRows'
      <4>1. \A t \in Threads : req'[t] = IF t = w THEN Idle ELSE req[t]
        BY <1>12 DEF CreditCommit, Finish, TypeOK
      <4>2. \A t \in Threads : /\ req[t].op = "answered" => req[t].row \in RefundIds
                               /\ req[t].op \in {"credit", "credited"} /\ req[t].row # 0
                                    => req[t].row \in RefundIds
        BY RequestFields DEF TypeOK, RefundIds
      <4>3. QED
        BY <3>1, <3>2, <4>1, <4>2 DEF RequestRows, Committed, Idle
    <3>5. QED
      BY <3>3, <3>4
  <2>3. QED
    BY <2>1, <2>2
<1>13. ASSUME NEW w \in Workers, RefundCall(w)
       PROVE  RequestRows' /\ FreshRows'
  <2> DEFINE n == refundSeq + 1
  <2>1. n \in RefundIds /\ refund[n].st = "free" /\ refundSeq' = n
    BY <1>13 DEF RefundCall, TypeOK, RefundIds, FreshRows, FreeRow
  <2>2. /\ refund'[n].st = "open"
        /\ \A r \in RefundIds : r # n => refund'[r] = refund[r]
    BY <1>13, <2>1 DEF RefundCall, TypeOK
  <2>3. PICK result \in RefundResults :
          req' = [req EXCEPT ![w] = [op |-> "answered", row |-> n, result |-> result]]
    BY <1>13 DEF RefundCall
  <2>4. \A t \in Threads : /\ req[t].op = "answered" => req[t].row \in RefundIds
                           /\ req[t].op \in {"credit", "credited"} /\ req[t].row # 0
                                => req[t].row \in RefundIds
    BY RequestFields DEF TypeOK, RefundIds
  <2>5. RequestRows'
    BY <2>1, <2>2, <2>3, <2>4 DEF RequestRows, Committed, TypeOK
  <2>6. FreshRows'
    BY <2>1, <2>2 DEF FreshRows, TypeOK, RefundIds
  <2>7. QED
    BY <2>5, <2>6
<1>14. ASSUME NEW t \in Threads,
              \/ t \in Workers /\ RefundCommit(t)
              \/ Crash(t) /\ req[t].op = "answered"
       PROVE  RequestRows' /\ FreshRows'
  <2> DEFINE r == req[t].row
  <2>1. req[t] \in Request /\ req[t].op = "answered" /\ req' = [req EXCEPT ![t] = Idle]
    BY <1>14 DEF TypeOK, RefundCommit, Crash, Finish
  <2>2. r \in RefundIds /\ refund[r].st = "open" /\ refundSeq' = refundSeq
    BY <1>14, <2>1, RequestFields DEF RequestRows, RefundCommit, Crash
  <2>3. \A i \in RefundIds : i # r => refund'[i] = refund[i]
    BY <1>14, <2>2 DEF RefundCommit, Crash, TypeOK
  <2>4. \A u \in Threads : /\ req[u].op = "answered" => req[u].row \in RefundIds
                           /\ req[u].op \in {"credit", "credited"} /\ req[u].row # 0
                                => req[u].row \in RefundIds
    BY RequestFields DEF TypeOK, RefundIds
  <2>5. RequestRows'
    BY <2>1, <2>2, <2>3, <2>4 DEF RequestRows, Committed, Idle, TypeOK
  <2>6. FreshRows'
    BY <2>2, <2>3 DEF FreshRows, FreeRow
  <2>7. QED
    BY <2>5, <2>6
<1>15. ASSUME NEW t \in Threads, Crash(t), req[t].op # "answered"
       PROVE  RequestRows' /\ FreshRows'
  BY <1>15, QuietStep DEF Crash, Finish, Idle
<1>16. ASSUME NEW s \in Schedulers,
              OverdueRead(s) \/ OverdueCommit(s) \/ ExpireRead(s) \/ ExpireCommit(s)
       PROVE  RequestRows' /\ FreshRows'
  <2>1. CASE OverdueRead(s)
    BY <2>1, QuietStep DEF OverdueRead, Start
  <2>2. CASE ExpireRead(s)
    BY <2>2, QuietStep DEF ExpireRead, Start
  <2>3. CASE OverdueCommit(s) \/ ExpireCommit(s)
    BY <2>3, QuietStep DEF OverdueCommit, ExpireCommit, Finish, Idle
  <2>4. QED
    BY <1>16, <2>1, <2>2, <2>3
<1>17. CASE UNCHANGED vars
  BY <1>17 DEF vars, RequestRows, FreshRows
<1>18. QED
  BY <1>1, <1>2, <1>3, <1>4, <1>5, <1>6, <1>7, <1>8, <1>9, <1>10, <1>11, <1>12,
     <1>13, <1>14, <1>15, <1>16, <1>17 DEF Next

LEMMA RowInit == Init => RowInv
  BY PaymentsAssumption
  DEF Init, RowInv, TypeOK, RequestRows, FreshRows, InvoiceStatus, PaymentStatus,
      FreeRow, Request, Idle

LEMMA RowInvariance == Spec => []RowInv
<1>1. RowInv /\ [Next]_vars => RowInv'
  BY TypeStep, RowStep DEF RowInv
<1>2. QED
  BY RowInit, <1>1, PTL DEF Spec

(* Type correctness: whatever the requests, crashes and events, every row  *)
(* has a status of its table, every refund row a payment and an amount.    *)
THEOREM TypeCorrect == Spec => []TypeOK
<1>1. RowInv => TypeOK
  BY DEF RowInv
<1>2. QED
  BY RowInvariance, <1>1, PTL

-----------------------------------------------------------------------------
(* SettledInvoiceWasPaid.  A payment becomes "succeeded" again through the *)
(* refund events too, so the invariant has to follow a refund back to the  *)
(* payment it was asked for: a payment leaves a trace when it is settled,  *)
(* and every row, event and request of a refund is such a trace.  With     *)
(* refunds made in the provider's own interface this does not hold.        *)
Crediting == {"credit", "credited", "refund"}

Traced(p) ==
  \/ payment[p] \in Settled
  \/ \E r \in RefundIds : refund[r].st # "free" /\ refund[r].pay = p
  \/ Refunded(p) \in events
  \/ \E t \in Threads : req[t].op \in Crediting /\ req[t].pay = p

Booked(p) == paidAt[InvoiceOf[p]]

PaidInv == \A p \in Payments : Traced(p) => Booked(p)

(* Nothing ever takes back that an invoice was paid.                       *)
LEMMA PaidAtGrows ==
  ASSUME RowInv, [Next]_vars, NEW i \in Invoices, paidAt[i]
  PROVE  paidAt'[i]
<1>1. ASSUME NEW w \in Workers, MarkPaidCommit(w) \/ SettleCommit(w)
      PROVE  paidAt'[i]
  BY <1>1 DEF MarkPaidCommit, SettleCommit, RowInv, TypeOK
<1>2. UNCHANGED paidAt
        \/ \E w \in Workers : MarkPaidCommit(w) \/ SettleCommit(w)
  BY DEF Next, vars, ledgerVars, providerVars, Pay, Decline, ProviderRefunds,
         CreateCheckout, CreateInvoice, MarkPaidRead, CancelRead, SettleAgain,
         SettleRead, FailAgain, FailRead, CreditRead, Refund, RetryRefund,
         CancelCommit, SettleLock, FailCommit, CreditSum, CreditCommit,
         RefundRejected, RefundCall, RefundCommit, OverdueRead, OverdueCommit,
         ExpireRead, ExpireCommit, Crash
<1>3. QED
  BY <1>1, <1>2

(* A payment without a trace stays so if the step adds no request, refund  *)
(* row, refund event or settled status for it.                             *)
LEMMA NoTraceAdded ==
  ASSUME RowInv, NEW p \in Payments, ~Traced(p),
         NEW t \in Threads, NEW q, req' = [req EXCEPT ![t] = q],
         q.op \in Crediting => q.pay # p,
         \A r \in RefundIds : refund'[r].st # "free" =>
            \/ refund[r].st # "free" /\ refund'[r].pay = refund[r].pay
            \/ refund'[r].pay # p,
         Refunded(p) \in events' => Refunded(p) \in events,
         payment'[p] \in Settled => payment[p] \in Settled
  PROVE  ~Traced(p)'
<1>1. \A u \in Threads : req'[u] = IF u = t THEN q ELSE req[u]
  BY DEF RowInv, TypeOK
<1>2. ~\E u \in Threads : req'[u].op \in Crediting /\ req'[u].pay = p
  BY <1>1 DEF Traced
<1>3. ~\E r \in RefundIds : refund'[r].st # "free" /\ refund'[r].pay = p
  BY DEF Traced
<1>4. Refunded(p) \notin events' /\ payment'[p] \notin Settled
  BY DEF Traced
<1>5. QED
  BY <1>2, <1>3, <1>4 DEF Traced, Refunded

(* A payment leaves its first trace when it is settled.                    *)
LEMMA TraceStep ==
  ASSUME ~ExternalRefunds, RowInv, [Next]_vars, NEW p \in Payments, ~Traced(p),
         ~\E w \in Workers : SettleCommit(w) /\ req[w].pay = p
  PROVE  ~Traced(p)'
<1> USE PaymentsAssumption DEF ledgerVars, providerVars, Threads, Crediting
<1>1. TypeOK
  BY DEF RowInv
<1>2. ASSUME NEW o \in Payments,
             Pay(o) \/ Decline(o) \/ ProviderRefunds(o) \/ CreateCheckout(o)
      PROVE  ~Traced(p)'
  <2>1. CASE Pay(o) \/ Decline(o)
    BY <2>1 DEF Pay, Decline, Traced, Succeeded, Failed, Refunded
  <2>2. CASE ProviderRefunds(o)
    <3>1. o # p
      BY <2>2 DEF ProviderRefunds, RowsOf, Traced
    <3>2. QED
      BY <2>2, <3>1 DEF ProviderRefunds, Traced, Refunded
  <2>3. CASE CreateCheckout(o)
    BY <1>1, <2>3 DEF CreateCheckout, Traced, TypeOK, Settled, Refunded
  <2>4. QED
    BY <1>2, <2>1, <2>2, <2>3
<1>3. ASSUME NEW i \in Invoices, NEW status \in {"draft", "open"},
             CreateInvoice(i, status)
      PROVE  ~Traced(p)'
  BY <1>3 DEF CreateInvoice, Traced, Refunded
<1>4. ASSUME NEW w \in Workers, NEW i \in Invoices,
             MarkPaidRead(w, i) \/ CancelRead(w, i)
      PROVE  ~Traced(p)'
  <2>1. CASE MarkPaidRead(w, i)
    BY <2>1, NoTraceAdded DEF MarkPaidRead, Start
  <2>2. CASE CancelRead(w, i)
    BY <2>2, NoTraceAdded DEF CancelRead, Start
  <2>3. QED
    BY <1>4, <2>1, <2>2
<1>5. ASSUME NEW w \in Workers, NEW o \in Payments,
             SettleAgain(w, o) \/ FailAgain(w, o)
      PROVE  ~Traced(p)'
  BY <1>5 DEF SettleAgain, FailAgain, Acknowledge, Traced, Refunded
<1>6. ASSUME NEW w \in Workers, NEW o \in Payments,
             SettleRead(w, o) \/ FailRead(w, o)
      PROVE  ~Traced(p)'
  <2>1. CASE SettleRead(w, o)
    BY <2>1, NoTraceAdded DEF SettleRead, Start
  <2>2. CASE FailRead(w, o)
    BY <2>2, NoTraceAdded DEF FailRead, Start
  <2>3. QED
    BY <1>6, <2>1, <2>2
<1>7. ASSUME NEW w \in Workers, NEW o \in Payments, CreditRead(w, o)
      PROVE  ~Traced(p)'
  <2>1. PICK r \in RowsForEvent(o) :
          req' = [req EXCEPT ![w] = [op |-> "credit", pay |-> o, row |-> r,
                                     seen |-> payment[o]]]
    BY <1>7 DEF CreditRead, Start
  <2>2. o # p
    BY <1>7 DEF CreditRead, Traced
  <2>3. QED
    BY <1>7, <2>1, <2>2, NoTraceAdded DEF CreditRead
<1>8. ASSUME NEW w \in Workers, NEW o \in Payments, NEW a \in 1..MaxAmount,
             NEW k \in Keys \cup {NoKey}, Refund(w, o, a, k)
      PROVE  ~Traced(p)'
  <2>1. o # p
    BY <1>8 DEF Refund, Traced, Settled
  <2>2. QED
    BY <1>8, <2>1, NoTraceAdded DEF Refund, Start
<1>9. ASSUME NEW w \in Workers, NEW r \in RefundIds, RetryRefund(w, r)
      PROVE  ~Traced(p)'
  <2>1. refund[r].pay # p
    BY <1>9 DEF RetryRefund, Traced
  <2>2. QED
    BY <1>9, <2>1, NoTraceAdded DEF RetryRefund, Start
<1>10. ASSUME NEW w \in Workers,
              MarkPaidCommit(w) \/ CancelCommit(w) \/ RefundRejected(w) \/ FailCommit(w)
       PROVE  ~Traced(p)'
  <2>1. /\ UNCHANGED refund /\ req' = [req EXCEPT ![w] = Idle]
        /\ Refunded(p) \in events' => Refunded(p) \in events
        /\ payment'[p] \in Settled => payment[p] \in Settled
    BY <1>1, <1>10 DEF MarkPaidCommit, CancelCommit, RefundRejected, FailCommit, Finish,
                       Acknowledge, TypeOK, Settled
  <2>2. QED
    BY <2>1, NoTraceAdded DEF Idle
<1>11. ASSUME NEW w \in Workers, SettleLock(w) PROVE ~Traced(p)'
  <2>1. req[w] \in Request /\ req[w].op = "settle"
    BY <1>1, <1>11 DEF TypeOK, SettleLock
  <2>2. [req[w] EXCEPT !.locked = TRUE].op = "settle"
    BY <2>1 DEF Request, Idle
  <2>3. CASE Finish(w)
    BY <1>11, <2>3, NoTraceAdded DEF SettleLock, Finish, Idle
  <2>4. CASE req' = [req EXCEPT ![w] = [req[w] EXCEPT !.locked = TRUE]]
    BY <1>11, <2>2, <2>4, NoTraceAdded DEF SettleLock
  <2>5. QED
    BY <1>11, <2>3, <2>4 DEF SettleLock
<1>12. ASSUME NEW w \in Workers, SettleCommit(w) PROVE ~Traced(p)'
  <2>1. req[w].pay # p
    BY <1>12
  <2>2. /\ UNCHANGED refund /\ req' = [req EXCEPT ![w] = Idle]
        /\ Refunded(p) \in events' => Refunded(p) \in events
        /\ payment'[p] \in Settled => payment[p] \in Settled
    BY <1>1, <1>12, <2>1 DEF SettleCommit, Finish, Acknowledge, TypeOK
  <2>3. QED
    BY <2>2, NoTraceAdded DEF Idle
<1>13. ASSUME NEW w \in Workers, CreditSum(w) PROVE ~Traced(p)'
  <2>1. req[w].pay # p
    BY <1>13 DEF CreditSum, Traced
  <2>2. PICK n : req' = [req EXCEPT ![w] =
                   [op |-> "credited", pay |-> req[w].pay, row |-> req[w].row,
                    seen |-> req[w].seen, new |-> n]]
    BY <1>13 DEF CreditSum
  <2>3. QED
    BY <1>13, <2>1, <2>2, NoTraceAdded DEF CreditSum
<1>14. ASSUME NEW w \in Workers, CreditCommit(w) PROVE ~Traced(p)'
  <2> DEFINE q == req[w]
  <2>1. q.pay # p /\ q.row \in 0..MaxRefunds
    BY <1>1, <1>14, RequestFields DEF TypeOK, CreditCommit, Traced
  <2>2. /\ req' = [req EXCEPT ![w] = Idle]
        /\ Refunded(p) \in events' => Refunded(p) \in events
    BY <1>14 DEF CreditCommit, Finish, Acknowledge
  <2>3. payment'[p] \in Settled => payment[p] \in Settled
    BY <1>1, <1>14, <2>1 DEF CreditCommit, TypeOK
  <2>4. \A r \in RefundIds : refund'[r].st # "free" =>
          refund[r].st # "free" /\ refund'[r].pay = refund[r].pay
    <3>1. CASE q.row = 0
      BY <1>14, <3>1 DEF CreditCommit
    <3>2. CASE q.row # 0
      <4>1. q.row \in RefundIds /\ refund[q.row].st # "free"
        BY <1>14, <2>1, <3>2 DEF RowInv, RequestRows, CreditCommit, Committed, RefundIds
      <4>2. refund[q.row] \in RefundRow
        BY <1>1, <4>1, RowFields
      <4>3. /\ \A r \in RefundIds : r # q.row => refund'[r] = refund[r]
            /\ refund'[q.row].pay = refund[q.row].pay
        BY <1>1, <1>14, <3>2, <4>1, <4>2 DEF CreditCommit, TypeOK, RefundRow
      <4>4. QED
        BY <4>1, <4>3
    <3>3. QED
      BY <3>1, <3>2
  <2>5. QED
    BY <2>2, <2>3, <2>4, NoTraceAdded DEF Idle
<1>15. ASSUME NEW w \in Workers, RefundCall(w) PROVE ~Traced(p)'
  <2>1. req[w].pay # p
    BY <1>15 DEF RefundCall, Traced
  <2>2. PICK result \in RefundResults :
          req' = [req EXCEPT ![w] = [op |-> "answered", row |-> refundSeq + 1,
                                     result |-> result]]
    BY <1>15 DEF RefundCall
  <2>3. \A r \in RefundIds : refund'[r].st # "free" =>
          \/ refund[r].st # "free" /\ refund'[r].pay = refund[r].pay
          \/ refund'[r].pay # p
    BY <1>1, <1>15, <2>1 DEF RefundCall, TypeOK
  <2>4. /\ Refunded(p) \in events' => Refunded(p) \in events
        /\ UNCHANGED payment
    BY <1>15, <2>1 DEF RefundCall, Refunded
  <2>5. QED
    BY <2>2, <2>3, <2>4, NoTraceAdded
<1>16. ASSUME NEW t \in Threads, (t \in Workers /\ RefundCommit(t)) \/ Crash(t)
       PROVE  ~Traced(p)'
  <2>1. /\ req' = [req EXCEPT ![t] = Idle]
        /\ UNCHANGED <<events, payment>>
    BY <1>16 DEF RefundCommit, Crash, Finish
  <2>2. \A r \in RefundIds : refund'[r].st # "free" =>
          refund[r].st # "free" /\ refund'[r].pay = refund[r].pay
    <3>1. CASE req[t].op = "answered"
      <4>1. req[t].row \in RefundIds /\ refund[req[t].row].st # "free"
        BY <1>1, <3>1, RequestFields DEF TypeOK, RowInv, RequestRows
      <4>2. refund[req[t].row] \in RefundRow
        BY <1>1, <4>1, RowFields
      <4>3. /\ \A r \in RefundIds : r # req[t].row => refund'[r] = refund[r]
            /\ refund'[req[t].row].pay = refund[req[t].row].pay
        BY <1>1, <1>16, <3>1, <4>1, <4>2 DEF RefundCommit, Crash, TypeOK, RefundRow
      <4>4. QED
        BY <4>1, <4>3
    <3>2. CASE req[t].op # "answered"
      BY <1>16, <3>2 DEF RefundCommit, Crash
    <3>3. QED
      BY <3>1, <3>2
  <2>3. QED
    BY <2>1, <2>2, NoTraceAdded DEF Idle
<1>17. ASSUME NEW s \in Schedulers,
              OverdueRead(s) \/ OverdueCommit(s) \/ ExpireRead(s) \/ ExpireCommit(s)
       PROVE  ~Traced(p)'
  <2>1. CASE OverdueRead(s)
    BY <2>1, NoTraceAdded DEF OverdueRead, Start
  <2>2. CASE ExpireRead(s)
    BY <2>2, NoTraceAdded DEF ExpireRead, Start
  <2>3. CASE OverdueCommit(s)
    BY <2>3, NoTraceAdded DEF OverdueCommit, Finish, Idle
  <2>4. CASE ExpireCommit(s)
    <3>1. payment'[p] \in Settled => payment[p] \in Settled
      BY <2>4 DEF ExpireCommit, Settled
    <3>2. QED
      BY <2>4, <3>1, NoTraceAdded DEF ExpireCommit, Finish, Idle
  <2>5. QED
    BY <1>17, <2>1, <2>2, <2>3, <2>4
<1>18. CASE UNCHANGED vars
  BY <1>18 DEF vars, Traced, Refunded
<1>19. QED
  BY <1>2, <1>3, <1>4, <1>5, <1>6, <1>7, <1>8, <1>9, <1>10, <1>11, <1>12, <1>13,
     <1>14, <1>15, <1>16, <1>17, <1>18 DEF Next

LEMMA PaidStep ==
  ASSUME ~ExternalRefunds, RowInv, PaidInv, [Next]_vars
  PROVE  PaidInv'
<1> SUFFICES ASSUME NEW p \in Payments, Traced(p)' PROVE paidAt'[InvoiceOf[p]]
  BY DEF PaidInv, Booked
<1>1. InvoiceOf[p] \in Invoices
  BY PaymentsAssumption
<1>2. CASE Traced(p)
  BY <1>1, <1>2, PaidAtGrows DEF PaidInv, Booked
<1>3. ASSUME NEW w \in Workers, SettleCommit(w), req[w].pay = p
      PROVE  paidAt'[InvoiceOf[p]]
  BY <1>1, <1>3 DEF SettleCommit, RowInv, TypeOK
<1>4. QED
  BY <1>2, <1>3, TraceStep

(* A payment that counts as received, or as refunded, is for an invoice    *)
(* that was marked paid, if refunds are only made here.                    *)
THEOREM SettledOnPaidInvoices ==
  ASSUME ~ExternalRefunds
  PROVE  Spec => []SettledInvoiceWasPaid
<1>1. Init => PaidInv
  BY DEF Init, PaidInv, Traced, Crediting, Settled, FreeRow, Idle, Refunded
<1>2. RowInv /\ PaidInv /\ [Next]_vars => PaidInv'
  BY PaidStep
<1>3. PaidInv => SettledInvoiceWasPaid
  BY DEF PaidInv, Traced, Booked, SettledInvoiceWasPaid
<1>4. QED
  BY <1>1, <1>2, <1>3, RowInvariance, PTL DEF Spec

-----------------------------------------------------------------------------
(* What a step may do to a refund row: what it was asked for never changes,*)
(* a lost row is never revived, and a refund that succeeded stays so.      *)
Live == Committed \cup {"open"}

LEMMA LedgerStep ==
  ASSUME RowInv, [Next]_vars, NEW r \in RefundIds, refund[r].st # "free"
  PROVE  /\ refund'[r].pay = refund[r].pay
         /\ refund'[r].amt = refund[r].amt
         /\ refund'[r].key = refund[r].key
         /\ refund[r].st = "succeeded" => refund'[r].st = "succeeded"
         /\ refund'[r].st \in Live => refund[r].st \in Live
<1> USE DEF Threads
<1>1. TypeOK /\ refund[r] \in RefundRow
  BY RowFields DEF RowInv
<1>2. ASSUME NEW w \in Workers, RefundCall(w)
      PROVE  refund'[r] = refund[r]
  <2>1. refundSeq + 1 \in RefundIds /\ r # refundSeq + 1
    BY <1>1, <1>2, PaymentsAssumption
    DEF RefundCall, RowInv, FreshRows, FreeRow, TypeOK, RefundIds
  <2>2. QED
    BY <1>1, <1>2, <2>1 DEF RefundCall, TypeOK
<1>3. ASSUME NEW w \in Workers, CreditCommit(w)
      PROVE  \/ refund'[r] = refund[r]
             \/ /\ refund[r].st \in Live
                /\ refund'[r] = [refund[r] EXCEPT !.st = "succeeded", !.ref = "charge"]
  <2>1. CASE req[w].row = 0
    BY <1>3, <2>1 DEF CreditCommit
  <2>2. CASE req[w].row # 0
    <3>1. refund' = [refund EXCEPT ![req[w].row].st = "succeeded",
                                   ![req[w].row].ref = "charge"]
      BY <1>3, <2>2 DEF CreditCommit
    <3>2. refund[req[w].row].st \in Committed
      BY <1>3, <2>2 DEF CreditCommit, RowInv, RequestRows
    <3>3. QED
      BY <1>1, <3>1, <3>2 DEF TypeOK, Live
  <2>3. QED
    BY <2>1, <2>2
<1>4. ASSUME NEW w \in Workers, RefundCommit(w)
      PROVE  \/ refund'[r] = refund[r]
             \/ /\ refund[r].st = "open"
                /\ \E st, ref : refund'[r] = [refund[r] EXCEPT !.st = st, !.ref = ref]
  BY <1>1, <1>4 DEF RefundCommit, TypeOK, RowInv, RequestRows
<1>5. ASSUME NEW t \in Threads, Crash(t)
      PROVE  \/ refund'[r] = refund[r]
             \/ /\ refund[r].st = "open"
                /\ refund'[r] = [refund[r] EXCEPT !.st = "lost"]
  BY <1>1, <1>5 DEF Crash, TypeOK, RowInv, RequestRows
<1>6. \/ UNCHANGED refund
      \/ \E w \in Workers : RefundCall(w) \/ CreditCommit(w) \/ RefundCommit(w)
      \/ \E t \in Threads : Crash(t)
  BY DEF Next, vars, ledgerVars, providerVars, Pay, Decline, ProviderRefunds,
         CreateCheckout, CreateInvoice, MarkPaidRead, CancelRead, SettleAgain,
         SettleRead, FailAgain, FailRead, CreditRead, Refund, RetryRefund,
         MarkPaidCommit, SettleCommit, CancelCommit, SettleLock, FailCommit, CreditSum,
         RefundRejected, OverdueRead, OverdueCommit, ExpireRead, ExpireCommit
<1>7. CASE refund'[r] = refund[r]
  BY <1>7
<1>8. CASE /\ refund[r].st \in Live
           /\ refund'[r] = [refund[r] EXCEPT !.st = "succeeded", !.ref = "charge"]
  BY <1>1, <1>8 DEF RefundRow
<1>9. CASE /\ refund[r].st = "open"
           /\ \E st, ref : refund'[r] = [refund[r] EXCEPT !.st = st, !.ref = ref]
  BY <1>1, <1>9 DEF RefundRow, Live
<1>10. CASE /\ refund[r].st = "open"
            /\ refund'[r] = [refund[r] EXCEPT !.st = "lost"]
  BY <1>1, <1>10 DEF RefundRow, Live, Committed
<1>11. QED
  BY <1>2, <1>3, <1>4, <1>5, <1>6, <1>7, <1>8, <1>9, <1>10

-----------------------------------------------------------------------------
(* OneRowPerKey.  Inserting looks for the key among the uncommitted rows   *)
(* too, so the invariant has to speak of those as well.                    *)
KeyInv ==
  \A r, q \in RefundIds :
    /\ refund[r].st \in Live /\ refund[q].st \in Live
    /\ refund[r].key = refund[q].key /\ refund[r].key # NoKey
    => r = q

LEMMA KeyStep ==
  ASSUME RowInv, KeyInv, [Next]_vars
  PROVE  KeyInv'
<1>1. \A r \in RefundIds : refund[r].st # "free" =>
        /\ refund'[r].key = refund[r].key
        /\ refund'[r].st \in Live => refund[r].st \in Live
  BY LedgerStep
<1>2. CASE \A r \in RefundIds : refund[r].st = "free" => refund'[r].st = "free"
  BY <1>1, <1>2 DEF KeyInv, Live, Committed
<1>3. ASSUME NEW w \in Workers, RefundCall(w)
      PROVE  KeyInv'
  <2> DEFINE n == refundSeq + 1
  <2>1. n \in RefundIds /\ refund[n].st = "free"
    BY <1>3, PaymentsAssumption
    DEF RefundCall, RowInv, TypeOK, RefundIds, FreshRows, FreeRow
  <2>2. /\ \A r \in RefundIds : r # n => refund'[r] = refund[r]
        /\ refund'[n].key = req[w].key
    BY <1>3, <2>1 DEF RefundCall, RowInv, TypeOK
  <2>3. \A r \in RefundIds : refund[r].st \in Live /\ req[w].key # NoKey
                               => refund[r].key # req[w].key
    BY <1>3 DEF RefundCall, KeyTaken, Live
  <2>4. QED
    BY <2>1, <2>2, <2>3 DEF KeyInv
<1>4. ASSUME NEW w \in Workers, CreditCommit(w) \/ RefundCommit(w)
      PROVE  \A r \in RefundIds : refund[r].st = "free" => refund'[r].st = "free"
  <2>1. req[w] \in Request
    BY DEF RowInv, TypeOK, Threads
  <2>2. CASE CreditCommit(w)
    BY <2>2 DEF CreditCommit, RowInv, RequestRows, TypeOK, Threads, Committed
  <2>3. CASE RefundCommit(w)
    BY <2>3 DEF RefundCommit, RowInv, RequestRows, TypeOK, Threads
  <2>4. QED
    BY <1>4, <2>2, <2>3
<1>5. ASSUME NEW t \in Threads, Crash(t)
      PROVE  \A r \in RefundIds : refund[r].st = "free" => refund'[r].st = "free"
  BY <1>5 DEF Crash, RowInv, RequestRows, TypeOK
<1>6. \/ UNCHANGED refund
      \/ \E w \in Workers : RefundCall(w) \/ CreditCommit(w) \/ RefundCommit(w)
      \/ \E t \in Threads : Crash(t)
  BY DEF Next, vars, ledgerVars, providerVars, Pay, Decline, ProviderRefunds,
         CreateCheckout, CreateInvoice, MarkPaidRead, CancelRead, SettleAgain,
         SettleRead, FailAgain, FailRead, CreditRead, Refund, RetryRefund,
         MarkPaidCommit, SettleCommit, CancelCommit, SettleLock, FailCommit, CreditSum,
         RefundRejected, OverdueRead, OverdueCommit, ExpireRead, ExpireCommit
<1>7. QED
  BY <1>2, <1>3, <1>4, <1>5, <1>6

(* A refund that is repeated with its Idempotency-Key, by any number of    *)
(* clients and through any crashes, has one row.                           *)
THEOREM IdempotentRefunds == Spec => []OneRowPerKey
<1>1. Init => KeyInv
  BY DEF Init, KeyInv, FreeRow, Live, Committed
<1>2. RowInv /\ KeyInv /\ [Next]_vars => KeyInv'
  BY KeyStep
<1>3. KeyInv => OneRowPerKey
  <2> SUFFICES ASSUME KeyInv, NEW k \in Keys
               PROVE  Cardinality({r \in RefundIds : refund[r].st \in Committed
                                                     /\ refund[r].key = k}) <= 1
    BY DEF OneRowPerKey
  <2> DEFINE S == {r \in RefundIds : refund[r].st \in Committed /\ refund[r].key = k}
  <2>1. \A r, q \in S : r = q
    BY PaymentsAssumption DEF KeyInv, Live
  <2>2. S = {} \/ \E r : S = {r}
    BY <2>1
  <2> HIDE DEF S
  <2>3. Cardinality(S) = 0 \/ Cardinality(S) = 1
    BY <2>2, FS_EmptySet, FS_Singleton, Zenon
  <2>4. Cardinality(S) <= 1
    BY <2>3
  <2>5. QED
    BY <2>4 DEF S
<1>4. QED
  BY <1>1, <1>2, <1>3, RowInvariance, PTL DEF Spec

-----------------------------------------------------------------------------
(* RefundStatusIsEarned.  The sum behind a payment's status is taken before*)
(* the commit that writes the status, so a request that has summed up must *)
(* stay right while others go on: the rows it counted can only grow.       *)
Earned(p, status, total) ==
  /\ status = "refunded" => total >= Amount[p]
  /\ status = "partially_refunded" => total > 0

SucceededRows(p) == RowsOf(p, {"succeeded"})
CountedRows(q)   == SucceededRows(q.pay) \cup ({q.row} \ {0})

EarnedInv ==
  /\ RefundStatusIsEarned
  /\ \A t \in Threads :
       req[t].op = "credited"
         => Earned(req[t].pay, req[t].new, Total(CountedRows(req[t])))

(* More rows do not have fewer cents.                                      *)
LEMMA CentsFinite ==
  ASSUME NEW S, S \subseteq RefundIds \X (1..MaxAmount)
  PROVE  IsFiniteSet(S)
<1>1. IsFiniteSet(RefundIds) /\ IsFiniteSet(1..MaxAmount)
  BY FS_Interval, PaymentsAssumption DEF RefundIds
<1>2. IsFiniteSet(RefundIds \X (1..MaxAmount))
  BY <1>1, FS_Product
<1>3. QED
  BY <1>2, FS_Subset

LEMMA EarnedByMore ==
  ASSUME NEW p \in Payments, NEW status, NEW S, NEW T,
         IsFiniteSet(S), IsFiniteSet(T), S \subseteq T,
         Earned(p, status, Cardinality(S))
  PROVE  Earned(p, status, Cardinality(T))
<1>1. Cardinality(S) <= Cardinality(T)
  BY FS_Subset
<1>2. Cardinality(S) \in Nat /\ Cardinality(T) \in Nat /\ Amount[p] \in Nat
  BY FS_CardinalityType, PaymentsAssumption
<1>3. QED
  BY <1>1, <1>2 DEF Earned

(* Refunds that have succeeded only become more.                           *)
LEMMA SucceededGrow ==
  ASSUME RowInv, [Next]_vars, NEW p \in Payments
  PROVE  /\ SucceededRows(p) \subseteq SucceededRows(p)'
         /\ \A r \in SucceededRows(p) : refund[r].st # "free"
BY LedgerStep DEF SucceededRows, RowsOf

(* What a sum says of a payment's status it says by definition.            *)
LEMMA StatusIsEarned ==
  ASSUME NEW p \in Payments, NEW S, IsFiniteSet(S)
  PROVE  Earned(p, StatusForRefunds(p, Cardinality(S)), Cardinality(S))
<1>1. Cardinality(S) \in Nat /\ Amount[p] \in Nat
  BY FS_CardinalityType, PaymentsAssumption
<1>2. QED
  BY <1>1 DEF Earned, StatusForRefunds

(* A request only comes to have summed up by CreditSum.                    *)
LEMMA CreditedBySum ==
  ASSUME TypeOK, [Next]_vars, NEW t \in Threads, req'[t].op = "credited"
  PROVE  req'[t] = req[t] \/ CreditSum(t)
<1> USE DEF ledgerVars, providerVars, Threads
<1>1. ASSUME NEW u \in Threads, NEW q, q.op # "credited", req' = [req EXCEPT ![u] = q]
      PROVE  req'[t] = req[t]
  BY <1>1 DEF TypeOK
<1>2. ASSUME NEW u \in Threads, Finish(u) PROVE req'[t] = req[t]
  BY <1>1, <1>2 DEF Finish, Idle
<1>3. ASSUME NEW p \in Payments,
             Pay(p) \/ Decline(p) \/ ProviderRefunds(p) \/ CreateCheckout(p)
      PROVE  req'[t] = req[t]
  BY <1>3 DEF Pay, Decline, ProviderRefunds, CreateCheckout
<1>4. ASSUME NEW i \in Invoices, NEW status \in {"draft", "open"}, CreateInvoice(i, status)
      PROVE  req'[t] = req[t]
  BY <1>4 DEF CreateInvoice
<1>5. ASSUME NEW w \in Workers, NEW i \in Invoices, MarkPaidRead(w, i) \/ CancelRead(w, i)
      PROVE  req'[t] = req[t]
  BY <1>1, <1>5 DEF MarkPaidRead, CancelRead, Start
<1>6. ASSUME NEW w \in Workers, NEW p \in Payments,
             \/ SettleAgain(w, p) \/ SettleRead(w, p) \/ FailAgain(w, p)
             \/ FailRead(w, p) \/ CreditRead(w, p)
      PROVE  req'[t] = req[t]
  BY <1>1, <1>6 DEF SettleAgain, SettleRead, FailAgain, FailRead, CreditRead, Start
<1>7. ASSUME NEW w \in Workers, NEW p \in Payments, NEW a \in 1..MaxAmount,
             NEW k \in Keys \cup {NoKey}, Refund(w, p, a, k)
      PROVE  req'[t] = req[t]
  BY <1>1, <1>7 DEF Refund, Start
<1>8. ASSUME NEW w \in Workers, NEW r \in RefundIds, RetryRefund(w, r)
      PROVE  req'[t] = req[t]
  BY <1>1, <1>8 DEF RetryRefund, Start
<1>9. ASSUME NEW w \in Workers,
             \/ MarkPaidCommit(w) \/ CancelCommit(w) \/ SettleCommit(w) \/ FailCommit(w)
             \/ CreditCommit(w) \/ RefundRejected(w) \/ RefundCommit(w)
      PROVE  req'[t] = req[t]
  BY <1>2, <1>9 DEF MarkPaidCommit, CancelCommit, SettleCommit, FailCommit, CreditCommit,
                    RefundRejected, RefundCommit
<1>10. ASSUME NEW w \in Workers, SettleLock(w) PROVE req'[t] = req[t]
  <2>1. req[w] \in Request /\ req[w].op = "settle"
    BY <1>10 DEF TypeOK, SettleLock
  <2>2. [req[w] EXCEPT !.locked = TRUE].op = "settle"
    BY <2>1 DEF Request, Idle
  <2>3. Finish(w) \/ req' = [req EXCEPT ![w] = [req[w] EXCEPT !.locked = TRUE]]
    BY <1>10 DEF SettleLock
  <2>4. QED
    BY <1>1, <1>2, <2>2, <2>3
<1>11. ASSUME NEW w \in Workers, CreditSum(w) PROVE req'[t] = req[t] \/ CreditSum(t)
  BY <1>11 DEF CreditSum, TypeOK
<1>12. ASSUME NEW w \in Workers, RefundCall(w) PROVE req'[t] = req[t]
  BY <1>1, <1>12 DEF RefundCall
<1>13. ASSUME NEW s \in Schedulers,
              OverdueRead(s) \/ OverdueCommit(s) \/ ExpireRead(s) \/ ExpireCommit(s)
       PROVE  req'[t] = req[t]
  BY <1>1, <1>2, <1>13 DEF OverdueRead, OverdueCommit, ExpireRead, ExpireCommit, Start
<1>14. ASSUME NEW u \in Threads, Crash(u) PROVE req'[t] = req[t]
  BY <1>2, <1>14 DEF Crash
<1>15. CASE UNCHANGED vars
  BY <1>15 DEF vars
<1>16. QED
  BY <1>3, <1>4, <1>5, <1>6, <1>7, <1>8, <1>9, <1>10, <1>11, <1>12, <1>13, <1>14, <1>15
  DEF Next

(* A request that has summed up stays right until it commits.              *)
LEMMA CountedStep ==
  ASSUME RowInv, EarnedInv, [Next]_vars, NEW t \in Threads, req'[t].op = "credited"
  PROVE  Earned(req'[t].pay, req'[t].new, Total(CountedRows(req[t]))')
<1> USE DEF Threads
<1>1. TypeOK /\ req[t] \in Request
  BY DEF RowInv, TypeOK
<1>2. ASSUME req'[t] = req[t]
      PROVE  Earned(req'[t].pay, req'[t].new, Total(CountedRows(req[t]))')
  <2> DEFINE q == req[t]
             R == CountedRows(q)
  <2>1. q.pay \in Payments /\ q.row \in 0..MaxRefunds
    BY <1>1, <1>2, RequestFields
  <2>2. R \subseteq RefundIds /\ \A r \in R : refund[r].st # "free"
    BY <1>2, <2>1, PaymentsAssumption
    DEF RowInv, RequestRows, CountedRows, SucceededRows, RowsOf, RefundIds, Committed
  <2>3. R \subseteq CountedRows(req[t])'
    BY <1>2, <2>1, SucceededGrow DEF CountedRows
  <2>4. CountedRows(req[t])' \subseteq RefundIds
    BY <1>2, <2>1, PaymentsAssumption DEF CountedRows, SucceededRows, RowsOf, RefundIds
  <2>5. Cents(R) \subseteq Cents(CountedRows(req[t]))'
    BY <2>2, <2>3, <2>4, LedgerStep DEF Cents
  <2>6. Earned(q.pay, q.new, Cardinality(Cents(R)))
    BY <1>2 DEF EarnedInv, Total
  <2>7. IsFiniteSet(Cents(R)) /\ IsFiniteSet(Cents(CountedRows(req[t]))')
    BY CentsFinite DEF Cents
  <2>8. QED
    BY <1>2, <2>1, <2>5, <2>6, <2>7, EarnedByMore DEF Total
<1>3. ASSUME CreditSum(t)
      PROVE  Earned(req'[t].pay, req'[t].new, Total(CountedRows(req[t]))')
  <2> DEFINE q == req[t]
             R == CountedRows(q)
  <2>1. q.pay \in Payments
    BY <1>1, <1>3, RequestFields DEF CreditSum
  <2>2. /\ req'[t].pay = q.pay /\ req'[t].row = q.row
        /\ req'[t].new = StatusForRefunds(q.pay, Total(R))
        /\ UNCHANGED refund
    BY <1>1, <1>3 DEF CreditSum, TypeOK, CountedRows, SucceededRows, ledgerVars
  <2>3. Total(CountedRows(req[t]))' = Cardinality(Cents(R))
    BY <2>2 DEF Total, Cents, CountedRows, SucceededRows, RowsOf
  <2>4. Earned(q.pay, StatusForRefunds(q.pay, Cardinality(Cents(R))), Cardinality(Cents(R)))
    BY <2>1, CentsFinite, StatusIsEarned DEF Cents
  <2>5. QED
    BY <2>2, <2>3, <2>4 DEF Total
<1>4. QED
  BY <1>1, <1>2, <1>3, CreditedBySum

LEMMA EarnedStep ==
  ASSUME RowInv, EarnedInv, [Next]_vars
  PROVE  EarnedInv'
<1> USE DEF Threads
<1>1. TypeOK /\ TypeOK'
  BY TypeStep DEF RowInv
<1>2. \A t \in Threads :
        req'[t].op = "credited"
          => Earned(req'[t].pay, req'[t].new, Total(CountedRows(req[t]))')
  BY CountedStep
<1>3. ASSUME NEW p \in Payments
      PROVE  Earned(p, payment'[p], Total(SucceededRows(p))')
  <2> DEFINE S == Cents(SucceededRows(p))
  <2>1. IsFiniteSet(S) /\ IsFiniteSet(S')
    BY CentsFinite DEF Cents
  <2>2. S \subseteq S'
    BY SucceededGrow, LedgerStep DEF Cents, SucceededRows, RowsOf
  <2>3. Earned(p, payment[p], Cardinality(S))
    BY DEF EarnedInv, RefundStatusIsEarned, Earned, Total, SucceededRows
  <2>4. Earned(p, payment[p], Cardinality(S'))
    BY <2>1, <2>2, <2>3, EarnedByMore
  <2>5. CASE payment'[p] = payment[p] \/ payment'[p] \notin {"refunded", "partially_refunded"}
    BY <2>4, <2>5 DEF Earned, Total
  <2>6. ASSUME NEW w \in Workers, CreditCommit(w), payment'[p] # payment[p]
        PROVE  Earned(p, payment'[p], Cardinality(S'))
    <3> DEFINE q == req[w]
               R == CountedRows(q)
    <3>1. q \in Request /\ q.op = "credited" /\ q.pay = p /\ payment'[p] = q.new
      BY <1>1, <2>6 DEF CreditCommit, TypeOK
    <3>2. q.row \in 0..MaxRefunds
      BY <3>1, RequestFields
    <3>3. /\ R \subseteq RefundIds
          /\ \A r \in R : refund[r].st # "free" /\ refund[r].pay = p
      BY <3>1, <3>2, PaymentsAssumption
      DEF RowInv, RequestRows, CountedRows, SucceededRows, RowsOf, RefundIds, Committed
    <3>4. q.row # 0 => q.row \in RefundIds /\ refund'[q.row].st = "succeeded"
      <4>1. CASE q.row = 0
        BY <4>1
      <4>2. CASE q.row # 0
        <5>1. q.row \in RefundIds /\ refund[q.row] \in RefundRow
          BY <3>1, <3>2, <4>2, <1>1, RowFields DEF RefundIds, RowInv, RequestRows, Committed
        <5>2. refund' = [refund EXCEPT ![q.row].st = "succeeded", ![q.row].ref = "charge"]
          BY <2>6, <4>2 DEF CreditCommit
        <5>3. QED
          BY <1>1, <5>1, <5>2 DEF TypeOK, RefundRow
      <4>3. QED
        BY <4>1, <4>2
    <3>5. \A r \in R : refund'[r].st = "succeeded" /\ refund'[r].pay = p
      BY <3>1, <3>3, <3>4, LedgerStep DEF CountedRows, SucceededRows, RowsOf
    <3>6. Cents(R) \subseteq S'
      BY <3>3, <3>5, LedgerStep DEF Cents, SucceededRows, RowsOf
    <3>7. Earned(p, q.new, Cardinality(Cents(R)))
      BY <3>1 DEF EarnedInv, Total
    <3>8. IsFiniteSet(Cents(R))
      BY CentsFinite DEF Cents
    <3>9. QED
      BY <2>1, <3>1, <3>6, <3>7, <3>8, EarnedByMore
  <2>7. \/ payment'[p] = payment[p] \/ payment'[p] \notin {"refunded", "partially_refunded"}
        \/ \E w \in Workers : CreditCommit(w)
    <3>1. \/ UNCHANGED payment
          \/ \E q \in Payments : CreateCheckout(q)
          \/ \E w \in Workers : SettleCommit(w) \/ FailCommit(w) \/ CreditCommit(w)
          \/ \E s \in Schedulers : ExpireCommit(s)
      BY DEF Next, vars, ledgerVars, providerVars, Pay, Decline, ProviderRefunds,
             CreateInvoice, MarkPaidRead, CancelRead, SettleAgain,
             SettleRead, FailAgain, FailRead, CreditRead, Refund, RetryRefund,
             MarkPaidCommit, CancelCommit, SettleLock, CreditSum, RefundRejected,
             RefundCall, RefundCommit, OverdueRead, OverdueCommit, ExpireRead, Crash
    <3>2. QED
      BY <1>1, <3>1 DEF CreateCheckout, SettleCommit, FailCommit, ExpireCommit, TypeOK
  <2>8. Total(SucceededRows(p))' = Cardinality(S')
    BY DEF Total
  <2>9. QED
    BY <2>4, <2>5, <2>6, <2>7, <2>8
<1>4. RefundStatusIsEarned'
  BY <1>3 DEF RefundStatusIsEarned, Earned, SucceededRows
<1>5. QED
  BY <1>2, <1>4 DEF EarnedInv

(* A payment is called refunded, or partially refunded, only if the        *)
(* refunds that succeeded account for it, at every moment.                 *)
THEOREM RefundStatusEarned == Spec => []RefundStatusIsEarned
<1>1. Init => EarnedInv
  BY DEF Init, EarnedInv, RefundStatusIsEarned, Idle
<1>2. RowInv /\ EarnedInv /\ [Next]_vars => EarnedInv'
  BY EarnedStep
<1>3. EarnedInv => RefundStatusIsEarned
  BY DEF EarnedInv
<1>4. QED
  BY <1>1, <1>2, <1>3, RowInvariance, PTL DEF Spec
-----------------------------------------------------------------------------
(* One request at a time.  The runs PaymentsSerial and RefundRetry have    *)
(* that no other request acts between the reads of a request and its       *)
(* commit: what a request has read then still holds when it commits.       *)
OneThread == \A t, u \in Threads : t = u

(* One web worker, as start.sh runs it, and any number of scheduled jobs.  *)
OneWorker == \A w, v \in Workers : w = v

(* What a step does to the request of a thread.                            *)
LEMMA NextRequest ==
  ASSUME TypeOK, [Next]_vars, NEW t \in Threads
  PROVE  \/ req'[t] = req[t] \/ req'[t] = Idle
         \/ \E i \in Invoices : MarkPaidRead(t, i) \/ CancelRead(t, i)
         \/ \E p \in Payments : SettleRead(t, p) \/ FailRead(t, p) \/ CreditRead(t, p)
         \/ \E p \in Payments, a \in 1..MaxAmount, k \in Keys \cup {NoKey} :
              Refund(t, p, a, k)
         \/ \E r \in RefundIds : RetryRefund(t, r)
         \/ SettleLock(t) \/ CreditSum(t) \/ RefundCall(t)
         \/ OverdueRead(t) \/ ExpireRead(t)
<1> USE DEF ledgerVars, providerVars, Threads
<1>1. ASSUME NEW u \in Threads, NEW q, req' = [req EXCEPT ![u] = q], u # t
      PROVE  req'[t] = req[t]
  BY <1>1 DEF TypeOK
<1>2. ASSUME NEW u \in Threads, Finish(u) PROVE req'[t] = req[t] \/ req'[t] = Idle
  BY <1>2 DEF Finish, TypeOK
<1>3. ASSUME NEW p \in Payments,
             Pay(p) \/ Decline(p) \/ ProviderRefunds(p) \/ CreateCheckout(p)
      PROVE  req'[t] = req[t]
  BY <1>3 DEF Pay, Decline, ProviderRefunds, CreateCheckout
<1>4. ASSUME NEW i \in Invoices, NEW status \in {"draft", "open"}, CreateInvoice(i, status)
      PROVE  req'[t] = req[t]
  BY <1>4 DEF CreateInvoice
<1>5. ASSUME NEW w \in Workers, NEW p \in Payments, SettleAgain(w, p) \/ FailAgain(w, p)
      PROVE  req'[t] = req[t]
  BY <1>5 DEF SettleAgain, FailAgain
<1>6. ASSUME NEW w \in Workers,
             \/ MarkPaidCommit(w) \/ CancelCommit(w) \/ SettleCommit(w) \/ FailCommit(w)
             \/ CreditCommit(w) \/ RefundRejected(w) \/ RefundCommit(w)
      PROVE  req'[t] = req[t] \/ req'[t] = Idle
  BY <1>2, <1>6 DEF MarkPaidCommit, CancelCommit, SettleCommit, FailCommit, CreditCommit,
                    RefundRejected, RefundCommit
<1>7. ASSUME NEW w \in Workers, NEW i \in Invoices,
             MarkPaidRead(w, i) \/ CancelRead(w, i), w # t
      PROVE  req'[t] = req[t]
  BY <1>1, <1>7 DEF MarkPaidRead, CancelRead, Start
<1>8. ASSUME NEW w \in Workers, NEW p \in Payments,
             SettleRead(w, p) \/ FailRead(w, p) \/ CreditRead(w, p), w # t
      PROVE  req'[t] = req[t]
  BY <1>1, <1>8 DEF SettleRead, FailRead, CreditRead, Start
<1>9. ASSUME NEW w \in Workers, NEW p \in Payments, NEW a \in 1..MaxAmount,
             NEW k \in Keys \cup {NoKey}, Refund(w, p, a, k), w # t
      PROVE  req'[t] = req[t]
  BY <1>1, <1>9 DEF Refund, Start
<1>10. ASSUME NEW w \in Workers, NEW r \in RefundIds, RetryRefund(w, r), w # t
       PROVE  req'[t] = req[t]
  BY <1>1, <1>10 DEF RetryRefund, Start
<1>11. ASSUME NEW w \in Workers, SettleLock(w), w # t PROVE req'[t] = req[t]
  BY <1>11 DEF SettleLock, Finish, TypeOK
<1>12. ASSUME NEW w \in Workers, CreditSum(w), w # t PROVE req'[t] = req[t]
  BY <1>1, <1>12 DEF CreditSum
<1>13. ASSUME NEW w \in Workers, RefundCall(w), w # t PROVE req'[t] = req[t]
  BY <1>1, <1>13 DEF RefundCall
<1>14. ASSUME NEW s \in Schedulers, OverdueRead(s) \/ ExpireRead(s), s # t
       PROVE  req'[t] = req[t]
  BY <1>1, <1>14 DEF OverdueRead, ExpireRead, Start
<1>15. ASSUME NEW s \in Schedulers, OverdueCommit(s) \/ ExpireCommit(s)
       PROVE  req'[t] = req[t] \/ req'[t] = Idle
  BY <1>2, <1>15 DEF OverdueCommit, ExpireCommit
<1>16. ASSUME NEW u \in Threads, Crash(u) PROVE req'[t] = req[t] \/ req'[t] = Idle
  BY <1>2, <1>16 DEF Crash
<1>17. CASE UNCHANGED vars
  BY <1>17 DEF vars
<1>18. QED
  BY <1>3, <1>4, <1>5, <1>6, <1>7, <1>8, <1>9, <1>10, <1>11, <1>12, <1>13, <1>14, <1>15,
     <1>16, <1>17 DEF Next

(* What a step does to the invoices.                                       *)
LEMMA InvoiceStep ==
  ASSUME [Next]_vars
  PROVE  \/ UNCHANGED invoice
         \/ \E i \in Invoices, status \in {"draft", "open"} : CreateInvoice(i, status)
         \/ \E w \in Workers : MarkPaidCommit(w) \/ CancelCommit(w) \/ SettleCommit(w)
         \/ \E s \in Schedulers : OverdueCommit(s)
  BY DEF Next, vars, ledgerVars, providerVars, Pay, Decline, ProviderRefunds,
         CreateCheckout, MarkPaidRead, CancelRead, SettleAgain, SettleRead, FailAgain,
         FailRead, CreditRead, Refund, RetryRefund, SettleLock, FailCommit, CreditSum,
         CreditCommit, RefundRejected, RefundCall, RefundCommit, OverdueRead,
         ExpireRead, ExpireCommit, Crash

(* What a worker's request has read of its invoices still holds, also when *)
(* a job has written "overdue" since.                                      *)
FreshRead(t) ==
  /\ req[t].op = "markPaid" => MayBePaid(req[t].inv)
  /\ req[t].op = "cancel" => invoice[req[t].inv] \notin {"none", "paid", "cancelled"}
  /\ req[t].op = "settle" => (req[t].locked => MayBePaid(InvoiceOf[req[t].pay]))

FreshInv == \A w \in Workers : FreshRead(w)

LEMMA FreshStep ==
  ASSUME OneWorker, RowInv, FreshInv, [Next]_vars
  PROVE  FreshInv'
<1> SUFFICES ASSUME NEW t \in Workers PROVE FreshRead(t)'
  BY DEF FreshInv
<1> USE DEF Threads
<1>1. TypeOK /\ req[t] \in Request /\ FreshRead(t)
  BY DEF RowInv, TypeOK, FreshInv
<1>2. CASE req'[t] = Idle
  BY <1>2 DEF FreshRead, Idle
<1>3. CASE req'[t] = req[t]
  <2>1. CASE UNCHANGED invoice
    BY <1>1, <1>3, <2>1 DEF FreshRead, MayBePaid
  <2>2. ASSUME NEW i \in Invoices, NEW status \in {"draft", "open"}, CreateInvoice(i, status)
        PROVE  FreshRead(t)'
    <3>1. \A j : invoice[j] # "none" => invoice'[j] = invoice[j]
      BY <2>2 DEF CreateInvoice
    <3>2. QED
      BY <1>1, <1>3, <3>1 DEF FreshRead, MayBePaid
  <2>3. ASSUME NEW u \in Workers, Finish(u) PROVE FreshRead(t)'
    <3>1. u = t
      BY DEF OneWorker
    <3>2. req'[t] = Idle
      BY <1>1, <2>3, <3>1 DEF Finish, TypeOK
    <3>3. QED
      BY <1>2, <3>2
  <2>4. ASSUME NEW s \in Schedulers, OverdueCommit(s) PROVE FreshRead(t)'
    <3>1. \A i \in Invoices : invoice'[i] \in {invoice[i], "overdue"}
      BY <2>4 DEF OverdueCommit
    <3>2. /\ req[t].op \in {"markPaid", "cancel"} => req[t].inv \in Invoices
          /\ req[t].op = "settle" => InvoiceOf[req[t].pay] \in Invoices
      BY <1>1, PaymentsAssumption DEF Request, Idle
    <3>3. QED
      BY <1>1, <1>3, <3>1, <3>2 DEF FreshRead, MayBePaid
  <2>5. QED
    BY <2>1, <2>2, <2>3, <2>4, InvoiceStep
    DEF MarkPaidCommit, CancelCommit, SettleCommit
<1>4. ASSUME NEW i \in Invoices, MarkPaidRead(t, i) \/ CancelRead(t, i)
      PROVE  FreshRead(t)'
  <2>1. CASE MarkPaidRead(t, i)
    <3>1. req'[t] = [op |-> "markPaid", inv |-> i] /\ MayBePaid(i) /\ UNCHANGED invoice
      BY <1>1, <2>1 DEF MarkPaidRead, Start, TypeOK
    <3>2. QED
      BY <3>1 DEF FreshRead, MayBePaid
  <2>2. CASE CancelRead(t, i)
    <3>1. /\ req'[t] = [op |-> "cancel", inv |-> i] /\ UNCHANGED invoice
          /\ invoice[i] \notin {"none", "paid", "cancelled"}
      BY <1>1, <2>2 DEF CancelRead, Start, TypeOK
    <3>2. QED
      BY <3>1 DEF FreshRead
  <2>3. QED
    BY <1>4, <2>1, <2>2
<1>5. ASSUME NEW q, req' = [req EXCEPT ![t] = q],
             q.op \notin {"markPaid", "cancel", "settle"}
      PROVE  FreshRead(t)'
  <2>1. req'[t] = q
    BY <1>1, <1>5 DEF TypeOK
  <2>2. QED
    BY <1>5, <2>1 DEF FreshRead
<1>6. ASSUME NEW p \in Payments, SettleRead(t, p) PROVE FreshRead(t)'
  <2>1. req'[t] = [op |-> "settle", pay |-> p, locked |-> FALSE]
    BY <1>1, <1>6 DEF SettleRead, Start, TypeOK
  <2>2. QED
    BY <2>1 DEF FreshRead
<1>7. ASSUME NEW p \in Payments, FailRead(t, p) \/ CreditRead(t, p) PROVE FreshRead(t)'
  BY <1>5, <1>7 DEF FailRead, CreditRead, Start
<1>8. ASSUME NEW p \in Payments, NEW a \in 1..MaxAmount, NEW k \in Keys \cup {NoKey},
             Refund(t, p, a, k)
      PROVE  FreshRead(t)'
  BY <1>5, <1>8 DEF Refund, Start
<1>9. ASSUME NEW r \in RefundIds, RetryRefund(t, r) PROVE FreshRead(t)'
  BY <1>5, <1>9 DEF RetryRefund, Start
<1>10. ASSUME SettleLock(t) PROVE FreshRead(t)'
  <2>1. CASE Finish(t)
    BY <1>1, <1>2, <2>1 DEF Finish, TypeOK
  <2>2. CASE ~Finish(t)
    <3>1. /\ req' = [req EXCEPT ![t].locked = TRUE] /\ UNCHANGED invoice
          /\ req[t].op = "settle" /\ MayBePaid(InvoiceOf[req[t].pay])
      BY <1>10, <2>2 DEF SettleLock
    <3>2. req'[t].op = "settle" /\ req'[t].pay = req[t].pay
      BY <1>1, <3>1 DEF TypeOK, Request, Idle
    <3>3. QED
      BY <3>1, <3>2 DEF FreshRead, MayBePaid
  <2>3. QED
    BY <2>1, <2>2
<1>11. ASSUME CreditSum(t) \/ RefundCall(t) PROVE FreshRead(t)'
  <2>1. CASE CreditSum(t)
    BY <1>5, <2>1 DEF CreditSum
  <2>2. CASE RefundCall(t)
    BY <1>5, <2>2 DEF RefundCall
  <2>3. QED
    BY <1>11, <2>1, <2>2
<1>12. ASSUME OverdueRead(t) PROVE FreshRead(t)'
  BY <1>5, <1>12 DEF OverdueRead, Start
<1>13. ASSUME ExpireRead(t) PROVE FreshRead(t)'
  BY <1>5, <1>13 DEF ExpireRead, Start
<1>14. QED
  BY <1>1, <1>2, <1>3, <1>4, <1>6, <1>7, <1>8, <1>9, <1>10, <1>11, <1>12, <1>13,
     NextRequest

LEMMA FreshInvariance ==
  ASSUME OneWorker
  PROVE  Spec => []FreshInv
<1>1. Init => FreshInv
  BY DEF Init, FreshInv, FreshRead, Idle, Threads
<1>2. RowInv /\ FreshInv /\ [Next]_vars => FreshInv'
  BY FreshStep
<1>3. QED
  BY <1>1, <1>2, RowInvariance, PTL DEF Spec

(* A job loads open invoices only.                                         *)
LEMMA LoadedStep ==
  ASSUME TypeOK, [Next]_vars
  PROVE  Loaded' \subseteq Loaded \cup {i \in Invoices : invoice[i] = "open"}
<1> USE DEF Threads
<1> SUFFICES ASSUME NEW i \in Loaded' PROVE i \in Loaded \/ (i \in Invoices /\ invoice[i] = "open")
  OBVIOUS
<1>1. PICK s \in Schedulers : req'[s].op = "overdue" /\ i \in req'[s].invs
  BY DEF Loaded
<1>2. s \notin Workers
  BY PaymentsAssumption
<1>3. CASE req'[s] = req[s]
  BY <1>1, <1>3 DEF Loaded
<1>4. CASE OverdueRead(s)
  <2>1. PICK due \in SUBSET {j \in Invoices : invoice[j] = "open"} :
          req'[s] = [op |-> "overdue", invs |-> due]
    BY <1>4 DEF OverdueRead, Start, TypeOK
  <2>2. QED
    BY <1>1, <2>1
<1>5. req'[s] = req[s] \/ OverdueRead(s)
  <2> DEFINE Other == req'[s].op # "overdue"
  <2>1. ASSUME NEW q, req' = [req EXCEPT ![s] = q], q.op \notin {"overdue"}
        PROVE  Other
    BY <2>1 DEF TypeOK
  <2> HIDE DEF Other
  <2>2. req'[s] # Idle
    BY <1>1 DEF Idle
  <2>3. ASSUME NEW j \in Invoices, MarkPaidRead(s, j) \/ CancelRead(s, j) PROVE Other
    BY <2>1, <2>3 DEF MarkPaidRead, CancelRead, Start
  <2>4. ASSUME NEW p \in Payments, SettleRead(s, p) \/ FailRead(s, p) \/ CreditRead(s, p)
        PROVE  Other
    BY <2>1, <2>4 DEF SettleRead, FailRead, CreditRead, Start
  <2>5. ASSUME NEW p \in Payments, NEW a \in 1..MaxAmount, NEW k \in Keys \cup {NoKey},
               Refund(s, p, a, k)
        PROVE  Other
    BY <2>1, <2>5 DEF Refund, Start
  <2>6. ASSUME NEW r \in RefundIds, RetryRefund(s, r) PROVE Other
    BY <2>1, <2>6 DEF RetryRefund, Start
  <2>7. ASSUME SettleLock(s) PROVE Other
    <3>1. CASE Finish(s)
      BY <2>1, <3>1 DEF Finish, Idle
    <3>2. CASE ~Finish(s)
      <4>1. req' = [req EXCEPT ![s].locked = TRUE] /\ req[s].op = "settle"
        BY <2>7, <3>2 DEF SettleLock
      <4>2. req[s] \in Request
        BY DEF TypeOK
      <4>3. req'[s].op = "settle"
        BY <4>1, <4>2 DEF TypeOK, Request, Idle
      <4>4. QED
        BY <4>3 DEF Other
    <3>3. QED
      BY <3>1, <3>2
  <2>8. ASSUME CreditSum(s) \/ RefundCall(s) \/ ExpireRead(s) PROVE Other
    BY <2>1, <2>8 DEF CreditSum, RefundCall, ExpireRead, Start
  <2>9. QED
    BY <1>1, <2>2, <2>3, <2>4, <2>5, <2>6, <2>7, <2>8, NextRequest DEF Other
<1>6. QED
  BY <1>3, <1>4, <1>5

(* The status changes of every step are the promised ones.                 *)
LEMMA LifecycleStep ==
  ASSUME RowInv, FreshInv, [Next]_vars
  PROVE  [Lifecycle!Next]_<<invoice, Loaded>>
<1> USE DEF Threads
<1>1. TypeOK /\ TypeOK'
  BY TypeStep DEF RowInv
<1>2. invoice' \in [Invoices -> Lifecycle!InvoiceStatus]
  BY <1>1 DEF TypeOK, InvoiceStatus, Lifecycle!InvoiceStatus
<1>3. Loaded' \subseteq Loaded \cup {i \in Invoices : invoice[i] = "open"}
  BY <1>1, LoadedStep
<1>4. ASSUME NEW i \in Invoices, invoice'[i] # invoice[i]
      PROVE  Lifecycle!MayBecome(i, invoice'[i])
  <2> DEFINE Moves(from, to) == invoice[i] \in from /\ invoice'[i] = to
  <2>1. ASSUME NEW j \in Invoices, NEW status \in {"draft", "open"},
               CreateInvoice(j, status)
        PROVE  Moves({"none"}, "draft") \/ Moves({"none"}, "open")
    BY <1>1, <1>4, <2>1 DEF CreateInvoice, TypeOK
  <2>2. ASSUME NEW w \in Workers, MarkPaidCommit(w)
        PROVE  Moves({"open", "overdue"}, "paid")
    BY <1>1, <1>4, <2>2 DEF MarkPaidCommit, FreshInv, FreshRead, MayBePaid, TypeOK
  <2>3. ASSUME NEW w \in Workers, SettleCommit(w)
        PROVE  Moves({"open", "overdue"}, "paid")
    BY <1>1, <1>4, <2>3 DEF SettleCommit, FreshInv, FreshRead, MayBePaid, TypeOK
  <2>4. ASSUME NEW w \in Workers, CancelCommit(w)
        PROVE  Moves({"draft", "open", "overdue"}, "cancelled")
    BY <1>1, <1>4, <2>4 DEF CancelCommit, FreshInv, FreshRead, TypeOK, InvoiceStatus
  <2>5. ASSUME NEW s \in Schedulers, OverdueCommit(s)
        PROVE  i \in Loaded /\ invoice'[i] = "overdue"
    <3>1. i \in req[s].invs /\ req[s].op = "overdue" /\ invoice'[i] = "overdue"
      BY <1>4, <2>5 DEF OverdueCommit
    <3>2. QED
      BY <3>1 DEF Loaded
  <2>6. \/ Moves({"none"}, "draft") \/ Moves({"none"}, "open")
        \/ Moves({"open", "overdue"}, "paid")
        \/ Moves({"draft", "open", "overdue"}, "cancelled")
        \/ i \in Loaded /\ invoice'[i] = "overdue"
    BY <1>4, <2>1, <2>2, <2>3, <2>4, <2>5, InvoiceStep
  <2>7. QED
    BY <2>6 DEF Lifecycle!MayBecome, Lifecycle!Successors
<1>5. QED
  BY <1>2, <1>3, <1>4 DEF Lifecycle!Next

(* Beside one worker and any number of jobs the invoices follow the        *)
(* promised life cycle, but for what a job had loaded before.              *)
THEOREM OneWorkerLifecycle ==
  ASSUME OneWorker
  PROVE  Spec => ImplementsInvoiceLifecycle
<1>1. Init => Lifecycle!Init
  BY DEF Init, Lifecycle!Init, Loaded, Idle, Threads
<1>2. RowInv /\ FreshInv /\ [Next]_vars => [Lifecycle!Next]_<<invoice, Loaded>>
  BY LifecycleStep
<1>3. QED
  BY <1>1, <1>2, RowInvariance, FreshInvariance, PTL
  DEF Spec, ImplementsInvoiceLifecycle, Lifecycle!Spec

(* Of the payments of an invoice only one ever leaves a trace: settling    *)
(* needs an invoice that was not paid yet, and one that was paid stays so. *)
SettledOnce ==
  /\ \A i \in Invoices : paidAt[i] => invoice[i] = "paid"
  /\ \A p, q \in Payments : Traced(p) /\ Traced(q) /\ InvoiceOf[p] = InvoiceOf[q] => p = q

LEMMA PaidStays ==
  ASSUME Schedulers = {}, RowInv, FreshInv, SettledOnce, [Next]_vars,
         NEW i \in Invoices, paidAt'[i]
  PROVE  invoice'[i] = "paid"
<1>1. TypeOK
  BY DEF RowInv
<1>2. CASE paidAt[i]
  <2>1. invoice[i] = "paid"
    BY <1>2 DEF SettledOnce
  <2>2. UNCHANGED invoice \/ invoice'[i] = invoice[i] \/ invoice'[i] \in Lifecycle!Successors["paid"]
    BY <2>1, LifecycleStep DEF Lifecycle!Next, Lifecycle!MayBecome, Loaded
  <2>3. QED
    BY <2>1, <2>2 DEF Lifecycle!Successors
<1>3. CASE ~paidAt[i]
  <2>1. ASSUME NEW w \in Workers, MarkPaidCommit(w) \/ SettleCommit(w)
        PROVE  invoice'[i] = "paid"
    BY <1>1, <1>3, <2>1 DEF MarkPaidCommit, SettleCommit, TypeOK
  <2>2. UNCHANGED paidAt \/ \E w \in Workers : MarkPaidCommit(w) \/ SettleCommit(w)
    BY DEF Next, vars, ledgerVars, providerVars, Pay, Decline, ProviderRefunds,
           CreateCheckout, CreateInvoice, MarkPaidRead, CancelRead, SettleAgain,
           SettleRead, FailAgain, FailRead, CreditRead, Refund, RetryRefund,
           CancelCommit, SettleLock, FailCommit, CreditSum, CreditCommit,
           RefundRejected, RefundCall, RefundCommit, OverdueRead, OverdueCommit,
           ExpireRead, ExpireCommit, Crash
  <2>3. QED
    BY <1>3, <2>1, <2>2
<1>4. QED
  BY <1>2, <1>3

LEMMA SettledOnceStep ==
  ASSUME OneWorker, Schedulers = {}, ~ExternalRefunds, RowInv, FreshInv, PaidInv,
         SettledOnce, [Next]_vars
  PROVE  SettledOnce'
<1> SUFFICES ASSUME NEW p \in Payments, NEW q \in Payments, Traced(p)', Traced(q)',
                    InvoiceOf[p] = InvoiceOf[q]
             PROVE  p = q
  BY PaidStays DEF SettledOnce
<1>1. InvoiceOf[p] \in Invoices
  BY PaymentsAssumption
<1>2. ASSUME NEW w \in Workers, SettleCommit(w), InvoiceOf[req[w].pay] = InvoiceOf[p]
      PROVE  ~Traced(p) /\ ~Traced(q)
  <2>1. invoice[InvoiceOf[p]] # "paid"
    BY <1>2 DEF SettleCommit, FreshInv, FreshRead, MayBePaid, Threads
  <2>2. ~paidAt[InvoiceOf[p]]
    BY <1>1, <2>1 DEF SettledOnce
  <2>3. QED
    BY <2>2 DEF PaidInv, Booked
<1>3. CASE Traced(p) /\ Traced(q)
  BY <1>3 DEF SettledOnce
<1>4. CASE ~Traced(p)
  <2>1. PICK w \in Workers : SettleCommit(w) /\ req[w].pay = p
    BY <1>4, TraceStep
  <2>2. PICK u \in Workers : SettleCommit(u) /\ req[u].pay = q
    BY <1>2, <2>1, TraceStep
  <2>3. QED
    BY <2>1, <2>2 DEF OneWorker
<1>5. CASE ~Traced(q)
  <2>1. PICK w \in Workers : SettleCommit(w) /\ req[w].pay = q
    BY <1>5, TraceStep
  <2>2. PICK u \in Workers : SettleCommit(u) /\ req[u].pay = p
    BY <1>2, <2>1, TraceStep
  <2>3. QED
    BY <2>1, <2>2 DEF OneWorker
<1>6. QED
  BY <1>3, <1>4, <1>5

(* With one worker, no job beside it, and refunds made only here, at most  *)
(* one of the payments of an invoice is ever booked as received.           *)
THEOREM SerialSettlement ==
  ASSUME OneWorker, Schedulers = {}, ~ExternalRefunds
  PROVE  Spec => []OneSettlementPerInvoice
<1>1. Init => PaidInv /\ SettledOnce
  BY DEF Init, PaidInv, SettledOnce, Traced, Crediting, Settled, FreeRow, Idle, Refunded
<1>2. RowInv /\ FreshInv /\ PaidInv /\ SettledOnce /\ [Next]_vars => PaidInv' /\ SettledOnce'
  BY PaidStep, SettledOnceStep
<1>3. SettledOnce => OneSettlementPerInvoice
  <2> SUFFICES ASSUME SettledOnce, NEW i \in Invoices
               PROVE  Cardinality({p \in Payments : InvoiceOf[p] = i
                                                    /\ payment[p] \in Settled}) <= 1
    BY DEF OneSettlementPerInvoice
  <2> DEFINE S == {p \in Payments : InvoiceOf[p] = i /\ payment[p] \in Settled}
  <2>1. \A p, q \in S : p = q
    BY DEF SettledOnce, Traced
  <2>2. S = {} \/ \E p : S = {p}
    BY <2>1
  <2> HIDE DEF S
  <2>3. Cardinality(S) = 0 \/ Cardinality(S) = 1
    BY <2>2, FS_EmptySet, FS_Singleton, Zenon
  <2>4. Cardinality(S) <= 1
    BY <2>3
  <2>5. QED
    BY <2>4 DEF S
<1>4. QED
  BY <1>1, <1>2, <1>3, RowInvariance, FreshInvariance, PTL DEF Spec

-----------------------------------------------------------------------------
(* RefundsWithinPayment.  What a refund was checked against must still be  *)
(* outstanding when its row is committed, so with one thread the amount    *)
(* that a request is about to refund counts as well.                       *)
ActiveRows(p) == RowsOf(p, {"succeeded", "pending"})

Reserved(t) ==
  /\ req[t].op = "refund" =>
       Total(ActiveRows(req[t].pay)) + req[t].amt <= Amount[req[t].pay]
  /\ req[t].op = "answered" =>
       LET r == refund[req[t].row] IN Total(ActiveRows(r.pay)) + r.amt <= Amount[r.pay]
  /\ req[t].op \in {"credit", "credited"} =>
       (req[t].row # 0 => refund[req[t].row].st \in {"succeeded", "pending"})

ReservedInv ==
  /\ RefundsWithinPayment
  /\ \A t \in Threads : Reserved(t)
  /\ \A r \in RefundIds :
       refund[r].st \in Live => (refund[r].ref = "charge" => refund[r].st = "succeeded")

(* The cents of rows that are no longer active, or never were, are gone.   *)
LEMMA TotalOfFewer ==
  ASSUME NEW p \in Payments,
         \A r \in ActiveRows(p)' : r \in ActiveRows(p) /\ refund'[r].amt = refund[r].amt
  PROVE  Total(ActiveRows(p))' <= Total(ActiveRows(p))
<1>1. Cents(ActiveRows(p))' \subseteq Cents(ActiveRows(p))
  BY DEF Cents
<1>2. IsFiniteSet(Cents(ActiveRows(p)))
  BY CentsFinite DEF Cents
<1>3. QED
  BY <1>1, <1>2, FS_Subset DEF Total

(* One more row adds at most its amount.                                   *)
LEMMA TotalOfOneMore ==
  ASSUME NEW p \in Payments, NEW r \in RefundIds, NEW a \in 1..MaxAmount,
         \A q \in ActiveRows(p)' :
           \/ q \in ActiveRows(p) /\ refund'[q].amt = refund[q].amt
           \/ q = r /\ refund'[q].amt = a
  PROVE  Total(ActiveRows(p))' <= Total(ActiveRows(p)) + a
<1> DEFINE S == Cents(ActiveRows(p))
           T == {r} \X (1..a)
<1>1. a \in Nat /\ a >= 1
  BY PaymentsAssumption
<1>2. IsFiniteSet(S) /\ IsFiniteSet(S')
  BY CentsFinite DEF Cents
<1>3. IsFiniteSet(1..a) /\ Cardinality(1..a) = a
  BY <1>1, FS_Interval
<1>4. IsFiniteSet({r}) /\ Cardinality({r}) = 1
  BY FS_Singleton
<1>5. IsFiniteSet(T) /\ Cardinality(T) = a
  <2>1. IsFiniteSet(T) /\ Cardinality(T) = Cardinality({r}) * Cardinality(1..a)
    BY <1>3, <1>4, FS_Product
  <2>2. QED
    BY <1>1, <1>3, <1>4, <2>1
<1>6. S' \subseteq S \cup T
  BY PaymentsAssumption DEF Cents
<1> HIDE DEF S, T
<1>7. /\ IsFiniteSet(S \cup T)
      /\ Cardinality(S \cup T) = Cardinality(S) + Cardinality(T) - Cardinality(S \cap T)
  BY <1>2, <1>5, FS_Union
<1>8. Cardinality(S') <= Cardinality(S \cup T)
  BY <1>6, <1>7, FS_Subset
<1>9. /\ Cardinality(S') \in Nat /\ Cardinality(S) \in Nat
      /\ Cardinality(S \cap T) \in Nat
  BY <1>2, FS_CardinalityType, FS_Intersection
<1>10. Cardinality(S') <= Cardinality(S) + a
  BY <1>1, <1>5, <1>7, <1>8, <1>9
<1>11. QED
  BY <1>10 DEF S, Total

(* What is outstanding is what the active rows leave.                      *)
LEMMA OutstandingLeft ==
  ASSUME NEW p \in Payments
  PROVE  Total(ActiveRows(p)) <= Amount[p] - Outstanding(p)
<1> DEFINE S == Cents(RowsOf(p, {"succeeded"}))
           T == Cents(RowsOf(p, {"pending"}))
           U == Cents(ActiveRows(p))
<1>1. IsFiniteSet(S) /\ IsFiniteSet(T) /\ IsFiniteSet(U)
  BY CentsFinite DEF Cents
<1>2. U \subseteq S \cup T
  BY DEF Cents, ActiveRows, RowsOf
<1>3. Outstanding(p) = Amount[p] - Cardinality(S) - Cardinality(T)
  BY DEF Outstanding, Total
<1>4. Total(ActiveRows(p)) = Cardinality(U)
  BY DEF Total
<1> HIDE DEF S, T, U
<1>5. /\ IsFiniteSet(S \cup T)
      /\ Cardinality(S \cup T) = Cardinality(S) + Cardinality(T) - Cardinality(S \cap T)
  BY <1>1, FS_Union
<1>6. Cardinality(U) <= Cardinality(S \cup T)
  BY <1>2, <1>5, FS_Subset
<1>7. /\ Cardinality(U) \in Nat /\ Cardinality(S) \in Nat /\ Cardinality(T) \in Nat
      /\ Cardinality(S \cap T) \in Nat
  BY <1>1, FS_CardinalityType, FS_Intersection
<1>8. Amount[p] \in Nat
  BY PaymentsAssumption
<1>9. QED
  BY <1>3, <1>4, <1>5, <1>6, <1>7, <1>8

(* Only an administrator's refund, when it commits, makes a row active.    *)
LEMMA ActiveStep ==
  ASSUME RowInv, ReservedInv, [Next]_vars, NEW p \in Payments,
         ~\E w \in Workers : RefundCommit(w)
  PROVE  \A r \in ActiveRows(p)' : r \in ActiveRows(p) /\ refund'[r].amt = refund[r].amt
<1> USE DEF Threads
<1>1. TypeOK
  BY DEF RowInv
<1>2. ASSUME NEW w \in Workers, RefundCall(w), NEW r \in ActiveRows(p)'
      PROVE  r \in ActiveRows(p) /\ refund'[r].amt = refund[r].amt
  <2>1. refundSeq + 1 \in RefundIds
    BY <1>1, <1>2, PaymentsAssumption DEF RefundCall, TypeOK, RefundIds
  <2>2. refund'[refundSeq + 1].st = "open"
    BY <1>1, <1>2, <2>1 DEF RefundCall, TypeOK
  <2>3. r \in RefundIds /\ r # refundSeq + 1
    BY <1>2, <2>2 DEF ActiveRows, RowsOf
  <2>4. refund'[r] = refund[r]
    BY <1>1, <1>2, <2>3 DEF RefundCall, TypeOK
  <2>5. QED
    BY <1>2, <2>3, <2>4 DEF ActiveRows, RowsOf
<1>3. ASSUME NEW w \in Workers, CreditCommit(w), NEW r \in ActiveRows(p)'
      PROVE  r \in ActiveRows(p) /\ refund'[r].amt = refund[r].amt
  <2>1. r \in RefundIds /\ refund'[r].pay = p /\ refund'[r].st \in {"succeeded", "pending"}
    BY <1>3 DEF ActiveRows, RowsOf
  <2>2. CASE refund'[r] = refund[r]
    BY <2>1, <2>2 DEF ActiveRows, RowsOf
  <2>3. CASE refund'[r] # refund[r]
    <3>1. /\ refund' = [refund EXCEPT ![req[w].row].st = "succeeded",
                                      ![req[w].row].ref = "charge"]
          /\ req[w].row # 0 /\ req[w].op = "credited"
      BY <1>3, <2>3 DEF CreditCommit
    <3>2. req[w].row = r
      BY <1>1, <2>1, <2>3, <3>1 DEF TypeOK
    <3>3. refund[r].st \in {"succeeded", "pending"}
      BY <3>1, <3>2 DEF ReservedInv, Reserved
    <3>4. refund[r] \in RefundRow
      BY <1>1, <2>1, <3>3, RowFields
    <3>5. refund'[r].pay = refund[r].pay /\ refund'[r].amt = refund[r].amt
      BY <1>1, <2>1, <3>1, <3>2, <3>4 DEF TypeOK, RefundRow
    <3>6. QED
      BY <2>1, <3>3, <3>5 DEF ActiveRows, RowsOf
  <2>4. QED
    BY <2>2, <2>3
<1>4. ASSUME NEW t \in Threads, Crash(t), NEW r \in ActiveRows(p)'
      PROVE  r \in ActiveRows(p) /\ refund'[r].amt = refund[r].amt
  <2>1. r \in RefundIds /\ refund'[r].st \in {"succeeded", "pending"}
    BY <1>4 DEF ActiveRows, RowsOf
  <2>2. refund'[r] = refund[r]
    BY <1>1, <1>4, <2>1 DEF Crash, TypeOK, RowInv, RequestRows, RefundRow
  <2>3. QED
    BY <1>4, <2>2 DEF ActiveRows, RowsOf
<1>5. CASE UNCHANGED refund
  BY <1>5 DEF ActiveRows, RowsOf
<1>6. \/ UNCHANGED refund
      \/ \E w \in Workers : RefundCall(w) \/ CreditCommit(w) \/ RefundCommit(w)
      \/ \E t \in Threads : Crash(t)
  BY DEF Next, vars, ledgerVars, providerVars, Pay, Decline, ProviderRefunds,
         CreateCheckout, CreateInvoice, MarkPaidRead, CancelRead, SettleAgain,
         SettleRead, FailAgain, FailRead, CreditRead, Refund, RetryRefund,
         MarkPaidCommit, SettleCommit, CancelCommit, SettleLock, FailCommit, CreditSum,
         RefundRejected, OverdueRead, OverdueCommit, ExpireRead, ExpireCommit
<1>7. QED
  BY <1>2, <1>3, <1>4, <1>5, <1>6

LEMMA TotalType ==
  ASSUME NEW p \in Payments
  PROVE  Total(ActiveRows(p)) \in Nat /\ Total(ActiveRows(p))' \in Nat
<1>1. IsFiniteSet(Cents(ActiveRows(p))) /\ IsFiniteSet(Cents(ActiveRows(p))')
  BY CentsFinite DEF Cents
<1>2. QED
  BY <1>1, FS_CardinalityType DEF Total

(* The step that commits a refund keeps within what was reserved for it.   *)
LEMMA RefundsWithinStep ==
  ASSUME RowInv, ReservedInv, [Next]_vars
  PROVE  RefundsWithinPayment'
<1> SUFFICES ASSUME NEW p \in Payments
             PROVE  Total(ActiveRows(p))' <= Amount[p]
  BY DEF RefundsWithinPayment, ActiveRows
<1> USE DEF Threads
<1>1. TypeOK
  BY DEF RowInv
<1>2. Total(ActiveRows(p)) <= Amount[p]
  BY DEF ReservedInv, RefundsWithinPayment, ActiveRows
<1>3. Amount[p] \in Nat
  BY PaymentsAssumption
<1>4. CASE Total(ActiveRows(p))' <= Total(ActiveRows(p))
  BY <1>2, <1>3, <1>4, TotalType
<1>5. CASE ~\E w \in Workers : RefundCommit(w)
  BY <1>4, <1>5, ActiveStep, TotalOfFewer
<1>6. ASSUME NEW w \in Workers, RefundCommit(w)
      PROVE  Total(ActiveRows(p))' <= Amount[p]
  <2> DEFINE r == req[w].row
  <2>1. req[w] \in Request /\ req[w].op = "answered"
    BY <1>1, <1>6 DEF RefundCommit, TypeOK
  <2>2. r \in RefundIds /\ refund[r].st = "open" /\ refund[r] \in RefundRow
    BY <1>1, <2>1, RequestFields, RowFields DEF RowInv, RequestRows
  <2>3. /\ \A q \in RefundIds : q # r => refund'[q] = refund[q]
        /\ refund'[r].pay = refund[r].pay /\ refund'[r].amt = refund[r].amt
    BY <1>1, <1>6, <2>2 DEF RefundCommit, TypeOK, RefundRow
  <2>4. CASE refund[r].pay = p
    <3>1. Total(ActiveRows(p)) + refund[r].amt <= Amount[p]
      BY <2>1, <2>4 DEF ReservedInv, Reserved
    <3>2. refund[r].amt \in 1..MaxAmount
      BY <2>2 DEF RefundRow
    <3>3. Total(ActiveRows(p))' <= Total(ActiveRows(p)) + refund[r].amt
      BY <2>2, <2>3, <3>2, TotalOfOneMore DEF ActiveRows, RowsOf
    <3>4. QED
      BY <1>3, <3>1, <3>2, <3>3, TotalType, PaymentsAssumption
  <2>5. CASE refund[r].pay # p
    BY <1>4, <2>3, <2>5, TotalOfFewer DEF ActiveRows, RowsOf
  <2>6. QED
    BY <2>4, <2>5
<1>7. QED
  BY <1>5, <1>6

(* What a request was checked against stays reserved for it.               *)
LEMMA ReservedStep ==
  ASSUME OneThread, ~RetryAllowed, RowInv, ReservedInv, [Next]_vars, NEW t \in Threads
  PROVE  Reserved(t)'
<1> USE DEF Threads, ledgerVars
<1>1. TypeOK /\ req[t] \in Request /\ Reserved(t)
  BY DEF RowInv, TypeOK, ReservedInv
<1>2. CASE req'[t] = Idle
  BY <1>2 DEF Reserved, Idle
<1>3. ASSUME NEW u \in Threads, Finish(u) PROVE req'[t] = Idle
  <2>1. u = t
    BY DEF OneThread
  <2>2. QED
    BY <1>1, <1>3, <2>1 DEF Finish, TypeOK
<1>4. CASE \E w \in Workers : RefundCommit(w)
  BY <1>2, <1>3, <1>4 DEF RefundCommit
<1> DEFINE NoMore == \A p \in Payments : Total(ActiveRows(p))' <= Total(ActiveRows(p))
<1>5. CASE req'[t] = req[t] /\ req'[t] # Idle /\ NoMore
  <2>1. UNCHANGED refund \/ \E w \in Workers : RefundCall(w)
    <3>1. \/ UNCHANGED refund
          \/ \E w \in Workers : RefundCall(w) \/ CreditCommit(w) \/ RefundCommit(w)
          \/ \E u \in Threads : Crash(u)
      BY DEF Next, vars, providerVars, Pay, Decline, ProviderRefunds,
             CreateCheckout, CreateInvoice, MarkPaidRead, CancelRead, SettleAgain,
             SettleRead, FailAgain, FailRead, CreditRead, Refund, RetryRefund,
             MarkPaidCommit, SettleCommit, CancelCommit, SettleLock, FailCommit, CreditSum,
             RefundRejected, OverdueRead, OverdueCommit, ExpireRead, ExpireCommit
    <3>2. QED
      BY <1>3, <1>5, <3>1 DEF CreditCommit, RefundCommit, Crash
  <2>2. \A r \in RefundIds : refund[r].st # "free" => refund'[r] = refund[r]
    <3>1. ASSUME NEW w \in Workers, RefundCall(w), NEW r \in RefundIds, refund[r].st # "free"
          PROVE  refund'[r] = refund[r]
      <4>1. refundSeq + 1 # r
        BY <1>1, <3>1 DEF RowInv, FreshRows, FreeRow, TypeOK, RefundIds
      <4>2. QED
        BY <1>1, <3>1, <4>1 DEF RefundCall, TypeOK
    <3>2. QED
      BY <2>1, <3>1
  <2>3. CASE req[t].op = "refund"
    <3>1. PICK p \in Payments, a \in 1..MaxAmount : p = req[t].pay /\ a = req[t].amt
      BY <1>1, <2>3, RequestFields
    <3>2. Total(ActiveRows(p))' <= Total(ActiveRows(p))
      BY <1>5
    <3>3. Total(ActiveRows(p)) + a <= Amount[p]
      BY <1>1, <2>3, <3>1 DEF Reserved
    <3>4. Total(ActiveRows(p))' + a <= Amount[p]
      BY <3>2, <3>3, TotalType, PaymentsAssumption
    <3>5. QED
      BY <1>5, <2>3, <3>1, <3>4 DEF Reserved, Total, Cents, ActiveRows, RowsOf
  <2>4. CASE req[t].op = "answered"
    <3>1. PICK r \in RefundIds : r = req[t].row
      BY <1>1, <2>4, RequestFields
    <3>2. refund[r].st = "open" /\ refund[r] \in RefundRow
      BY <1>1, <2>4, <3>1, RowFields DEF RowInv, RequestRows
    <3>3. PICK p \in Payments, a \in 1..MaxAmount : p = refund[r].pay /\ a = refund[r].amt
      BY <3>2 DEF RefundRow
    <3>4. Total(ActiveRows(p))' <= Total(ActiveRows(p))
      BY <1>5
    <3>5. Total(ActiveRows(p)) + a <= Amount[p]
      BY <1>1, <2>4, <3>1, <3>3 DEF Reserved
    <3>6. Total(ActiveRows(p))' + a <= Amount[p]
      BY <3>4, <3>5, TotalType, PaymentsAssumption
    <3>7. refund'[r] = refund[r]
      BY <2>2, <3>2
    <3>8. QED
      BY <1>5, <2>4, <3>1, <3>3, <3>6, <3>7 DEF Reserved, Total, Cents, ActiveRows, RowsOf
  <2>5. CASE req[t].op \in {"credit", "credited"}
    BY <1>1, <1>5, <2>2, <2>5, RequestFields, PaymentsAssumption DEF Reserved, RefundIds
  <2>6. QED
    BY <1>5, <2>3, <2>4, <2>5 DEF Reserved
<1>6. ASSUME NEW q, req' = [req EXCEPT ![t] = q],
             q.op \notin {"refund", "answered", "credit", "credited"}
      PROVE  Reserved(t)'
  <2>1. req'[t] = q
    BY <1>1, <1>6 DEF TypeOK
  <2>2. QED
    BY <1>6, <2>1 DEF Reserved
<1>7. ASSUME NEW i \in Invoices, MarkPaidRead(t, i) \/ CancelRead(t, i)
      PROVE  Reserved(t)'
  BY <1>6, <1>7 DEF MarkPaidRead, CancelRead, Start
<1>8. ASSUME NEW p \in Payments, SettleRead(t, p) \/ FailRead(t, p)
      PROVE  Reserved(t)'
  BY <1>6, <1>8 DEF SettleRead, FailRead, Start
<1>9. ASSUME OverdueRead(t) \/ ExpireRead(t) PROVE Reserved(t)'
  BY <1>6, <1>9 DEF OverdueRead, ExpireRead, Start
<1>10. ASSUME SettleLock(t) PROVE Reserved(t)'
  <2>1. [req[t] EXCEPT !.locked = TRUE].op = "settle"
    BY <1>1, <1>10 DEF SettleLock, Request, Idle
  <2>2. Finish(t) \/ req' = [req EXCEPT ![t] = [req[t] EXCEPT !.locked = TRUE]]
    BY <1>10 DEF SettleLock
  <2>3. QED
    BY <1>2, <1>3, <1>6, <2>1, <2>2
<1>11. ASSUME NEW p \in Payments, CreditRead(t, p) PROVE Reserved(t)'
  <2>1. PICK r \in RowsForEvent(p) :
          /\ req'[t] = [op |-> "credit", pay |-> p, row |-> r, seen |-> payment[p]]
          /\ UNCHANGED refund
    BY <1>1, <1>11 DEF CreditRead, Start, TypeOK
  <2>2. r # 0 => refund[r].st \in {"succeeded", "pending"}
    BY DEF RowsForEvent, RowsOf, ReservedInv, Live
  <2>3. QED
    BY <2>1, <2>2 DEF Reserved
<1>12. ASSUME CreditSum(t) PROVE Reserved(t)'
  <2>1. /\ req'[t].op = "credited" /\ req'[t].row = req[t].row /\ UNCHANGED refund
        /\ req[t].op = "credit"
    BY <1>1, <1>12 DEF CreditSum, TypeOK
  <2>2. QED
    BY <1>1, <2>1 DEF Reserved
<1>13. ASSUME NEW p \in Payments, NEW a \in 1..MaxAmount, NEW k \in Keys \cup {NoKey},
              Refund(t, p, a, k)
       PROVE  Reserved(t)'
  <2>1. /\ req'[t] = [op |-> "refund", pay |-> p, amt |-> a, key |-> k]
        /\ UNCHANGED refund /\ a <= Outstanding(p)
    BY <1>1, <1>13 DEF Refund, Start, TypeOK
  <2>2. Outstanding(p) \in Int /\ Amount[p] \in Nat /\ a \in Nat
    <3>1. IsFiniteSet(Cents(RowsOf(p, {"succeeded"}))) /\ IsFiniteSet(Cents(RowsOf(p, {"pending"})))
      BY CentsFinite DEF Cents
    <3>2. Total(RowsOf(p, {"succeeded"})) \in Nat /\ Total(RowsOf(p, {"pending"})) \in Nat
      BY <3>1, FS_CardinalityType DEF Total
    <3>3. QED
      BY <3>2, PaymentsAssumption DEF Outstanding
  <2>3. Total(ActiveRows(p)) + a <= Amount[p]
    BY <2>1, <2>2, OutstandingLeft, TotalType
  <2>4. Total(ActiveRows(p))' = Total(ActiveRows(p))
    BY <2>1 DEF Total, Cents, ActiveRows, RowsOf
  <2>5. QED
    BY <2>1, <2>3, <2>4 DEF Reserved, Total, Cents, ActiveRows, RowsOf
<1>14. ASSUME RefundCall(t), NoMore PROVE Reserved(t)'
  <2>1. PICK n \in RefundIds : n = refundSeq + 1
    BY <1>1, <1>14, PaymentsAssumption DEF RefundCall, TypeOK, RefundIds
  <2>2. PICK p \in Payments, a \in 1..MaxAmount : p = req[t].pay /\ a = req[t].amt
    BY <1>1, <1>14, RequestFields DEF RefundCall
  <2>3. /\ req'[t].op = "answered" /\ req'[t].row = n
        /\ refund'[n].pay = p /\ refund'[n].amt = a /\ req[t].op = "refund"
    BY <1>1, <1>14, <2>1, <2>2 DEF RefundCall, TypeOK
  <2>4. Total(ActiveRows(p)) + a <= Amount[p]
    BY <1>1, <2>2, <2>3 DEF Reserved
  <2>5. Total(ActiveRows(p))' <= Total(ActiveRows(p))
    BY <1>14
  <2>6. Total(ActiveRows(p))' + a <= Amount[p]
    BY <2>4, <2>5, TotalType, PaymentsAssumption
  <2>7. QED
    BY <2>3, <2>6 DEF Reserved, Total, Cents, ActiveRows, RowsOf
<1>15. ASSUME NEW r \in RefundIds PROVE ~RetryRefund(t, r)
  BY DEF RetryRefund
<1>16. CASE ~\E w \in Workers : RefundCommit(w)
  <2>1. NoMore
    BY <1>16, ActiveStep, TotalOfFewer
  <2>2. QED
    BY <1>1, <1>2, <1>5, <1>7, <1>8, <1>9, <1>10, <1>11, <1>12, <1>13, <1>14, <1>15,
       <2>1, NextRequest
<1>17. QED
  BY <1>4, <1>16

(* A row whose id came with a refund event has succeeded.                  *)
LEMMA ChargeStep ==
  ASSUME RowInv, ReservedInv, [Next]_vars, NEW r \in RefundIds,
         refund'[r].st \in Live, refund'[r].ref = "charge"
  PROVE  refund'[r].st = "succeeded"
<1> USE DEF Threads
<1>1. TypeOK
  BY DEF RowInv
<1>2. CASE refund'[r] = refund[r]
  BY <1>2 DEF ReservedInv
<1>3. ASSUME NEW w \in Workers, RefundCall(w), refund'[r] # refund[r] PROVE FALSE
  BY <1>1, <1>3 DEF RefundCall, TypeOK
<1>4. ASSUME NEW w \in Workers, CreditCommit(w), refund'[r] # refund[r]
      PROVE  refund'[r].st = "succeeded"
  <2>1. /\ refund' = [refund EXCEPT ![req[w].row].st = "succeeded",
                                    ![req[w].row].ref = "charge"]
        /\ req[w].row # 0 /\ req[w].op = "credited"
    BY <1>4 DEF CreditCommit
  <2>2. req[w].row = r /\ refund[r].st # "free"
    BY <1>1, <1>4, <2>1 DEF TypeOK, RowInv, RequestRows, Committed
  <2>3. refund[r] \in RefundRow
    BY <1>1, <2>2, RowFields
  <2>4. QED
    BY <1>1, <2>1, <2>2, <2>3 DEF TypeOK, RefundRow
<1>5. ASSUME NEW w \in Workers, RefundCommit(w), refund'[r] # refund[r] PROVE FALSE
  <2>1. req[w].row = r /\ req[w].op = "answered"
    BY <1>1, <1>5 DEF RefundCommit, TypeOK
  <2>2. refund[r].st # "free"
    BY <2>1 DEF RowInv, RequestRows
  <2>3. refund[r] \in RefundRow
    BY <1>1, <2>2, RowFields
  <2>4. refund'[r].ref \in {"none", "refund"}
    BY <1>1, <1>5, <2>1, <2>3 DEF RefundCommit, TypeOK, RefundRow
  <2>5. QED
    BY <2>4
<1>6. ASSUME NEW t \in Threads, Crash(t), refund'[r] # refund[r] PROVE FALSE
  <2>1. req[t].row = r /\ req[t].op = "answered"
    BY <1>1, <1>6 DEF Crash, TypeOK
  <2>2. refund[r].st # "free"
    BY <2>1 DEF RowInv, RequestRows
  <2>3. refund[r] \in RefundRow
    BY <1>1, <2>2, RowFields
  <2>4. refund'[r].st = "lost"
    BY <1>1, <1>6, <2>1, <2>3 DEF Crash, TypeOK, RefundRow
  <2>5. QED
    BY <2>4 DEF Live, Committed
<1>7. \/ UNCHANGED refund
      \/ \E w \in Workers : RefundCall(w) \/ CreditCommit(w) \/ RefundCommit(w)
      \/ \E t \in Threads : Crash(t)
  BY DEF Next, vars, ledgerVars, providerVars, Pay, Decline, ProviderRefunds,
         CreateCheckout, CreateInvoice, MarkPaidRead, CancelRead, SettleAgain,
         SettleRead, FailAgain, FailRead, CreditRead, Refund, RetryRefund,
         MarkPaidCommit, SettleCommit, CancelCommit, SettleLock, FailCommit, CreditSum,
         RefundRejected, OverdueRead, OverdueCommit, ExpireRead, ExpireCommit
<1>8. QED
  BY <1>2, <1>3, <1>4, <1>5, <1>6, <1>7

(* With one thread, and no failed refund tried again, the refunds of a     *)
(* payment that succeeded or may still succeed never exceed the payment.   *)
THEOREM SerialRefunds ==
  ASSUME OneThread, ~RetryAllowed
  PROVE  Spec => []RefundsWithinPayment
<1>1. Init => ReservedInv
  <2> SUFFICES ASSUME Init PROVE ReservedInv
    OBVIOUS
  <2>1. \A t \in Threads : Reserved(t)
    BY DEF Init, Reserved, Idle
  <2>2. \A r \in RefundIds : refund[r].st = "free"
    BY DEF Init, FreeRow
  <2>3. ASSUME NEW p \in Payments
        PROVE  Total(RowsOf(p, {"succeeded", "pending"})) <= Amount[p]
    <3>1. Cents(RowsOf(p, {"succeeded", "pending"})) = {}
      BY <2>2 DEF Cents, RowsOf
    <3>2. QED
      BY <3>1, FS_EmptySet, PaymentsAssumption DEF Total
  <2>4. QED
    BY <2>1, <2>2, <2>3 DEF ReservedInv, RefundsWithinPayment, Live, Committed
<1>2. RowInv /\ ReservedInv /\ [Next]_vars => ReservedInv'
  BY RefundsWithinStep, ReservedStep, ChargeStep DEF ReservedInv
<1>3. ReservedInv => RefundsWithinPayment
  BY DEF ReservedInv
<1>4. QED
  BY <1>1, <1>2, <1>3, RowInvariance, PTL DEF Spec
=============================================================================
