CONSTANTS
  Invoices = {i1}
  Payments = {p1}
  Refunds = {r1, r2}
  Credits = {c1}
  Workers = {w1, w2}
  MaxAmount = 2
  MaxRefunded = 4
  MaxUse = 0
  Prepayments = TRUE
  InvoiceOps = {}
  Editable = {}
  Events = {"crash", "delete_payment"}
SPECIFICATION Spec
SYMMETRY Symmetry
INVARIANT RefundsAccounted
INVARIANT CountedPaymentsPositive
CHECK_DEADLOCK FALSE
