SPECIFICATION Spec
CONSTANTS
  Branches = {b1, b2}
  Parts = {p1}
  Transfers = {t1}
  Users = {u1, u2}
  Workers = {w1}
  NoUser = NoUser
  Opening = 1
  MaxQty = 1
  MaxStock = 1
  MaxLedger = 1
  MoveKinds = {"adjustment"}
  DirectEdits = {"stock_item", "transfer"}
INVARIANT GoodsConserved
SYMMETRY Symmetry
CHECK_DEADLOCK FALSE
