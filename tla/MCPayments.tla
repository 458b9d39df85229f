----------------------------- MODULE MCPayments -----------------------------
(* Instances of Payments for TLC: every payment is for the same invoice    *)
(* and of the greatest amount.                                             *)
EXTENDS Payments, TLC

MCInvoiceOf == [p \in Payments |-> CHOOSE i \in Invoices : TRUE]
MCAmount    == [p \in Payments |-> MaxAmount]

(* Workers are interchangeable in the safety properties.                   *)
Symmetry == Permutations(Workers)
=============================================================================
