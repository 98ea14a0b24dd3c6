SPECIFICATION Spec
CONSTANTS
  Branches = {b1, b2}
  Parts = {p1, p2}
  Transfers = {t1}
  Users = {u1, u2, u3}
  Workers = {w1}
  NoUser = NoUser
  Opening = 2
  MaxQty = 2
  MaxStock = 2
  MaxLedger = 2
  MoveKinds = {"damage"}
  DirectEdits = {}
INVARIANTS LedgerExplainsStock TransferLedgerMatchesItems FullyReceivedIsClosed DecidedBeforeShipping
PROPERTY StatusProgress
SYMMETRY Symmetry
CHECK_DEADLOCK FALSE
