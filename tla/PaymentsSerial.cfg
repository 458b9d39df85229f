SPECIFICATION Spec
CONSTANTS
  Invoices = {i1}
  Payments = {p1, p2}
  InvoiceOf <- MCInvoiceOf
  Amount <- MCAmount
  MaxAmount = 2
  MaxRefunds = 2
  Keys = {k1}
  NoKey = NoKey
  Workers = {w1}
  Schedulers = {}
  RefundResults = {"succeeded", "pending", "failed", "error"}
  RetryAllowed = FALSE
  ExternalRefunds = FALSE
CHECK_DEADLOCK FALSE
INVARIANTS OneSettlementPerInvoice RefundsWithinPayment
