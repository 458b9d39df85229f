SPECIFICATION Spec
CONSTANTS
  Invoices = {i1}
  Payments = {p1}
  InvoiceOf <- MCInvoiceOf
  Amount <- MCAmount
  MaxAmount = 2
  MaxRefunds = 2
  Keys = {k1}
  NoKey = NoKey
  Workers = {w1, w2}
  Schedulers = {s1}
  RefundResults = {"succeeded", "pending", "failed", "error"}
  RetryAllowed = TRUE
  ExternalRefunds = FALSE
CHECK_DEADLOCK FALSE
SYMMETRY Symmetry
INVARIANTS TypeOK SettledInvoiceWasPaid RefundStatusIsEarned OneRowPerKey
