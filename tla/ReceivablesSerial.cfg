CONSTANTS
  Invoices = {i1}
  Payments = {p1, p2}
  Refunds = {r1}
  Credits = {c1}
  Workers = {w1}
  MaxAmount = 2
  MaxRefunded = 4
  MaxUse = 2
  Prepayments = TRUE
  InvoiceOps = {"send", "view", "edit", "void"}
  Editable = {p2}
  Events = {}
SPECIFICATION Spec
INVARIANT TypeOK
INVARIANT BalanceMatchesCollections
INVARIANT PaidMeansCovered
INVARIANT CreditConserved
INVARIANT RefundPaidOnce
PROPERTY RefundProgress
CHECK_DEADLOCK FALSE
