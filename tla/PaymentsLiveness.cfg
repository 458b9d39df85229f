SPECIFICATION FairSpec
CONSTANTS
  Invoices = {i1}
  Payments = {p1, p2}
  InvoiceOf <- MCInvoiceOf
  Amount <- MCAmount
  MaxAmount = 1
  MaxRefunds = 0
  Keys = {}
  NoKey = NoKey
  Workers = {w1}
  Schedulers = {s1}
  RefundResults = {"succeeded", "pending", "failed", "error"}
  RetryAllowed = FALSE
  ExternalRefunds = FALSE
CHECK_DEADLOCK FALSE
PROPERTIES CapturedIsRecorded ImplementsInvoiceLifecycle
