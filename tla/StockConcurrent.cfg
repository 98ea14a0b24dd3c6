SPECIFICATION Spec
CONSTANTS
  Branches = {b1, b2}
  Parts = {p1}
  Transfers = {t1}
  Users = {u1, u2}
  Workers = {w1, w2}
  NoUser = NoUser
  Opening = 1
  MaxQty = 1
  MaxStock = 1
  MaxLedger = 1
  MoveKinds = {"damage"}
  DirectEdits = {}
INVARIANTS NeverNegative ReceiptsWithinShipment
SYMMETRY Symmetry
CHECK_DEADLOCK FALSE
