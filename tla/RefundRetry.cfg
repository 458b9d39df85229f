SPECIFICATION Spec
CONSTANTS
  Invoices = {i1}
  Payments = {p1}
  InvoiceOf <- MCInvoiceOf
  Amount <- MCAmount
  MaxAmount = 2
  MaxRefunds = 3
  Keys = {}
  NoKey = NoKey
  Workers = {w1}
  Schedulers = {}
  RefundResults = {"succeeded", "pending", "failed", "error"}
  RetryAllowed = TRUE
  ExternalRefunds = FALSE
CHECK_DEADLOCK FALSE
INVARIANT RefundsWithinPayment
