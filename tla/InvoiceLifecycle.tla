-------------------------- MODULE InvoiceLifecycle --------------------------
(***************************************************************************)
(* What the billing component promises about the status of an invoice when *)
(* one web worker serves the requests and any number of scheduled jobs run *)
(* beside it.  The promise is read off the guards of mark_invoice_paid,    *)
(* cancel_invoice and mark_overdue_invoices: "paid" and "cancelled" are    *)
(* final, a draft is never paid, and only an open invoice becomes overdue  *)
(* -- open when the job loaded it, which need not be so when the job       *)
(* commits.  The module Payments implements it.                            *)
(***************************************************************************)
CONSTANT Invoices

VARIABLES
  invoice,     \* [Invoices -> InvoiceStatus]
  loaded       \* invoices that some job has loaded and not committed yet

InvoiceStatus == {"none", "draft", "open", "overdue", "paid", "cancelled"}

(* The statuses an invoice may have next, from each status.                *)
Successors ==
  [ none      |-> {"draft", "open"},
    draft     |-> {"cancelled"},
    open      |-> {"overdue", "paid", "cancelled"},
    overdue   |-> {"paid", "cancelled"},
    paid      |-> {},
    cancelled |-> {} ]

Init ==
  /\ invoice = [i \in Invoices |-> "none"]
  /\ loaded = {}

(* The one exception to the life cycle: a job that loaded the invoice      *)
(* while it was open overwrites what has become of it.                     *)
MayBecome(i, status) ==
  \/ status \in Successors[invoice[i]]
  \/ i \in loaded /\ status = "overdue"

(* Any set of invoices may move together: the overdue job commits a batch. *)
Next ==
  /\ invoice' \in [Invoices -> InvoiceStatus]
  /\ \A i \in Invoices :
       invoice'[i] # invoice[i] => MayBecome(i, invoice'[i])
  /\ loaded' \subseteq loaded \cup {i \in Invoices : invoice[i] = "open"}

Spec == Init /\ [][Next]_<<invoice, loaded>>
=============================================================================
