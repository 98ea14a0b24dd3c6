------------------------ MODULE StockTransfersProofs ------------------------
EXTENDS StockTransfers, SumTheorems, TLAPS

-----------------------------------------------------------------------------
(* Helpers.                                                                *)

LEMMA AppliedType ==
  ASSUME NEW kind, NEW row \in StockRow, NEW q \in Int
  PROVE  Applied(kind, row, q) \in StockRow
<1>1. CASE kind = "sale"
  BY <1>1 DEF Applied, StockRow, AtLeastZero
<1>2. CASE kind \in {"damage", "transfer_out"}
  BY <1>2 DEF Applied, StockRow
<1>3. CASE kind = "reserve"
  BY <1>3 DEF Applied, StockRow
<1>4. CASE kind = "release"
  BY <1>4 DEF Applied, StockRow, AtLeastZero
<1>5. CASE kind \notin {"sale", "damage", "transfer_out", "reserve", "release"}
  BY <1>5 DEF Applied, StockRow
<1> QED BY <1>1, <1>2, <1>3, <1>4, <1>5

LEMMA NewRowType ==
  ASSUME NEW op, NEW row \in StockRow, NEW q \in Int
  PROVE  NewRow(op, row, q) \in StockRow
BY AppliedType DEF NewRow

LEMMA PostedType ==
  ASSUME NEW kind, NEW q \in Int
  PROVE  Posted(kind, q) \in Int
BY DEF Posted

LEMMA IdleType == Idle \in Request
<1>1. /\ (CHOOSE t \in Transfers : TRUE) \in Transfers
      /\ (CHOOSE b \in Branches : TRUE) \in Branches
  BY SetsAssumption
<1>2. AbsentTransfer \in TransferRow
  BY <1>1 DEF AbsentTransfer, TransferRow, TransferStatus
<1>3. NoLines \in [Sku -> Int] /\ NoRows \in [Sku -> StockRow]
  BY DEF NoLines, NoRows, NoRow, StockRow
<1>4. NoApprovals \in [Users -> ApprovalStatus]
  BY DEF NoApprovals, ApprovalStatus
<1>5. [p \in Parts |-> NoItem] \in [Parts -> ItemRow]
  BY DEF NoItem, ItemRow
<1> QED
  BY <1>1, <1>2, <1>3, <1>4, <1>5 DEF Idle, Request, Stages, Ops, TransferOps

LEMMA SaveRowsType ==
  ASSUME NEW r \in Request, stock \in [Sku -> StockRow], SaveRows(r)
  PROVE  stock' \in [Sku -> StockRow]
BY NewRowType DEF SaveRows, Request

LEMMA PostType ==
  ASSUME NEW r \in Request, NEW total \in [Sku -> Int], NEW kind
  PROVE  Post(r, total, kind) \in [Sku -> Int]
BY PostedType DEF Post, Request

LEMMA LineType ==
  ASSUME NEW s \in Sku, NEW q \in Int
  PROVE  LineOf(s, q) \in [Sku -> Int]
BY DEF LineOf, NoLines

LEMMA RowsForType ==
  ASSUME stock \in [Sku -> StockRow], NEW lines \in [Sku -> Int]
  PROVE  RowsFor(lines) \in [Sku -> StockRow]
BY DEF RowsFor, NoRow, StockRow

LEMMA LinesType ==
  ASSUME NEW op, NEW row \in TransferRow, NEW its \in [Parts -> ItemRow],
         NEW got \in [Parts -> Quantity]
  PROVE  LinesOf(op, row, its, got) \in [Sku -> Int]
<1> SUFFICES ASSUME NEW s \in Sku
             PROVE  (CASE op \in {"approve", "ship"} /\ s[1] = row.src -> its[s[2]].req
                       [] op = "receive" /\ s[1] = row.dst             -> got[s[2]]
                       [] OTHER                                        -> 0) \in Int
  BY DEF LinesOf
<1>1. s[2] \in Parts
  BY DEF Sku
<1>2. its[s[2]].req \in Int /\ got[s[2]] \in Int
  BY <1>1, BoundsAssumption DEF ItemRow, Quantity
<1> QED BY <1>2

LEMMA DecideType ==
  ASSUME NEW states \in [Users -> ApprovalStatus], NEW u,
         NEW verdict \in {"approved", "rejected"}
  PROVE  Decide(states, u, verdict) \in [Users -> ApprovalStatus]
BY DEF Decide, ApprovalStatus

LEMMA HeaderType ==
  ASSUME TypeOK, NEW w \in Workers, NEW row \in TransferRow, SaveHeader(w, row)
  PROVE  transfers' \in [Transfers -> TransferRow]
BY DEF TypeOK, SaveHeader

LEMMA StageType ==
  ASSUME NEW r \in Request, NEW stage \in Stages
  PROVE  [r EXCEPT !.stage = stage] \in Request
BY DEF Request

LEMMA ReceivedItemType ==
  ASSUME NEW r \in Request, NEW p \in Parts, r.lines[<<r.row.dst, p>>] > 0
  PROVE  ReceivedItem(r, p) \in ItemRow
<1>1. r.its[p] \in ItemRow /\ <<r.row.dst, p>> \in Sku
  BY DEF Request, TransferRow, Sku
<1>2. r.lines[<<r.row.dst, p>>] \in Int
  BY <1>1 DEF Request
<1> QED BY <1>1, <1>2 DEF ReceivedItem, ItemRow

-----------------------------------------------------------------------------
(* Type correctness.                                                       *)

LEMMA TypeInit == Init => TypeOK
<1> SUFFICES ASSUME Init PROVE TypeOK
  OBVIOUS
<1>1. stock \in [Sku -> StockRow]
  BY BoundsAssumption DEF Init, StockRow
<1>2. transfers \in [Transfers -> TransferRow]
  BY IdleType DEF Init, Idle, Request
<1>3. items \in [Transfers -> [Parts -> ItemRow]]
  BY DEF Init, NoItem, ItemRow
<1>4. approvals \in [Transfers -> [Users -> ApprovalStatus]]
  BY DEF Init, NoApprovals, ApprovalStatus
<1>5. request \in [Workers -> Request]
  BY IdleType DEF Init
<1> QED BY <1>1, <1>2, <1>3, <1>4, <1>5 DEF Init, TypeOK

LEMMA TypeNext == TypeOK /\ [Next]_vars => TypeOK'
<1> SUFFICES ASSUME TypeOK, [Next]_vars PROVE TypeOK'
  OBVIOUS
<1> USE DEF TypeOK
<1>1. ASSUME NEW w \in Workers, NEW kind \in MoveKinds, NEW s \in Sku,
             NEW q \in -MaxQty .. MaxQty, ReadMove(w, kind, s, q)
      PROVE  TypeOK'
  <2>1. q \in Int
    BY BoundsAssumption
  <2>2. LineOf(s, q) \in [Sku -> Int] /\ RowsFor(LineOf(s, q)) \in [Sku -> StockRow]
    BY <2>1, LineType, RowsForType
  <2>3. kind \in Ops /\ "read" \in Stages
    BY SetsAssumption DEF Ops, Stages
  <2>4. request' \in [Workers -> Request]
    BY <1>1, <2>2, <2>3, IdleType DEF ReadMove, Request
  <2> QED BY <1>1, <2>4 DEF ReadMove
<1>2. ASSUME NEW w \in Workers, CommitMove(w) PROVE TypeOK'
  <2>1. request[w] \in Request
    OBVIOUS
  <2>2. stock' \in [Sku -> StockRow]
    BY <1>2, <2>1, SaveRowsType DEF CommitMove
  <2>3. external' \in [Sku -> Int]
    BY <1>2, <2>1, PostType DEF CommitMove
  <2> QED BY <1>2, <2>2, <2>3, IdleType DEF CommitMove, Done
<1>3. ASSUME NEW w \in Workers, NEW s \in Sku, NEW q \in Quantity, Allocate(w, s, q)
      PROVE  TypeOK'
  <2>1. q \in Int
    BY BoundsAssumption DEF Quantity
  <2>2. Applied("sale", stock[s], q) \in StockRow /\ Posted("sale", q) \in Int
    BY <2>1, AppliedType, PostedType
  <2> QED BY <1>3, <2>2 DEF Allocate
<1>4. ASSUME NEW w \in Workers, NEW s \in Sku, ReadPatch(w, s) PROVE TypeOK'
  <2>1. LineOf(s, 1) \in [Sku -> Int] /\ RowsFor(LineOf(s, 1)) \in [Sku -> StockRow]
    BY LineType, RowsForType
  <2>2. request' \in [Workers -> Request]
    BY <1>4, <2>1, IdleType DEF ReadPatch, Request, Ops, Stages
  <2> QED BY <1>4, <2>2 DEF ReadPatch
<1>5. ASSUME NEW w \in Workers, NEW s \in Sku, NEW n \in Quantity, CommitPatch(w, s, n)
      PROVE  TypeOK'
  <2>1. request[w].rows[s] \in StockRow /\ n \in Int
    BY BoundsAssumption DEF Request, Quantity
  <2>2. /\ [request[w].rows[s] EXCEPT !.inStock = n] \in StockRow
        /\ [request[w].rows[s] EXCEPT !.reserved = n] \in StockRow
    BY <2>1 DEF StockRow
  <2>3. stock' \in [Sku -> StockRow]
    BY <1>5, <2>1, <2>2 DEF CommitPatch
  <2> QED BY <1>5, <2>3, IdleType DEF CommitPatch, Done
<1>6. ASSUME NEW w \in Workers, NEW u \in Users, NEW t \in Transfers,
             NEW op \in TransferOps, NEW chosen \in SUBSET Users,
             NEW got \in [Parts -> Quantity], Load(w, u, t, op, chosen, got)
      PROVE  TypeOK'
  <2>1. LinesOf(op, transfers[t], items[t], got) \in [Sku -> Int]
    BY LinesType
  <2>2. op \in Ops /\ "loaded" \in Stages
    BY DEF Ops, Stages
  <2>3. (IF op \in {"submit", "approve", "reject"} THEN u ELSE NoUser) \in Users \cup {NoUser}
    OBVIOUS
  <2>4. request' \in [Workers -> Request]
    BY <1>6, <2>1, <2>2, <2>3, IdleType DEF Load, Request
  <2> QED BY <1>6, <2>4 DEF Load
<1>7. ASSUME NEW w \in Workers, SubmitHeader(w) PROVE TypeOK'
  <2>0. request[w] \in Request
    OBVIOUS
  <2>1. [request[w].row EXCEPT !.status = "pending_approval",
                               !.submitter = request[w].user] \in TransferRow
    BY <2>0 DEF Request, TransferRow, TransferStatus
  <2>2. transfers' \in [Transfers -> TransferRow]
    BY <1>7, <2>1, HeaderType DEF SubmitHeader
  <2>3. request' \in [Workers -> Request]
    BY <1>7, <2>0, StageType DEF SubmitHeader, Stages
  <2> QED BY <1>7, <2>2, <2>3 DEF SubmitHeader
<1>8. ASSUME NEW w \in Workers, SubmitApprovers(w) PROVE TypeOK'
  BY <1>8, IdleType DEF SubmitApprovers, Done, ApprovalStatus
<1>9. ASSUME NEW w \in Workers, RejectApprovals(w) PROVE TypeOK'
  <2>0. request[w] \in Request
    OBVIOUS
  <2>1. Decide(approvals[request[w].t], request[w].user, "rejected")
          \in [Users -> ApprovalStatus]
    BY <2>0, DecideType DEF Request
  <2>2. request' \in [Workers -> Request]
    BY <1>9, <2>0, StageType DEF RejectApprovals, Stages
  <2> QED BY <1>9, <2>1, <2>2 DEF RejectApprovals
<1>10. ASSUME NEW w \in Workers, RejectHeader(w) PROVE TypeOK'
  <2>0. request[w] \in Request
    OBVIOUS
  <2>1. [request[w].row EXCEPT !.status = "rejected"] \in TransferRow
    BY <2>0 DEF Request, TransferRow, TransferStatus
  <2> QED BY <1>10, <2>1, HeaderType, IdleType DEF RejectHeader, Done
<1>11. ASSUME NEW w \in Workers, ReadRows(w) PROVE TypeOK'
  <2>1. request[w] \in Request
    OBVIOUS
  <2>2. RowsFor(request[w].lines) \in [Sku -> StockRow]
    BY <2>1, RowsForType DEF Request
  <2>3. (IF request[w].op = "approve" THEN approvals[request[w].t] ELSE NoApprovals)
          \in [Users -> ApprovalStatus]
    BY <2>1 DEF Request, NoApprovals, ApprovalStatus
  <2>4. request' \in [Workers -> Request]
    BY <1>11, <2>1, <2>2, <2>3 DEF ReadRows, Request, Stages
  <2> QED BY <1>11, <2>4 DEF ReadRows
<1>12. ASSUME NEW w \in Workers, CommitApprove(w) PROVE TypeOK'
  <2>1. request[w] \in Request
    OBVIOUS
  <2>2. /\ Decide(approvals[request[w].t], request[w].user, "approved")
             \in [Users -> ApprovalStatus]
        /\ [approvals[request[w].t] EXCEPT ![request[w].user] = "approved"]
             \in [Users -> ApprovalStatus]
    BY <2>1, DecideType DEF Request, ApprovalStatus
  <2>3. approvals' \in [Transfers -> [Users -> ApprovalStatus]]
    BY <1>12, <2>2 DEF CommitApprove
  <2>4. stock' \in [Sku -> StockRow]
    BY <1>12, <2>1, SaveRowsType DEF CommitApprove
  <2>5. [request[w].row EXCEPT !.status = "approved", !.approver = request[w].user]
          \in TransferRow
    BY <2>1 DEF Request, TransferRow, TransferStatus
  <2>6. transfers' \in [Transfers -> TransferRow]
    BY <1>12, <2>5, HeaderType DEF CommitApprove
  <2> QED BY <1>12, <2>3, <2>4, <2>6, IdleType DEF CommitApprove, Done
<1>13. ASSUME NEW w \in Workers, CommitShip(w) PROVE TypeOK'
  <2>1. request[w] \in Request
    OBVIOUS
  <2>2. stock' \in [Sku -> StockRow] /\ moved' \in [Sku -> Int]
    BY <1>13, <2>1, SaveRowsType, PostType DEF CommitShip
  <2>3. transfers' \in [Transfers -> TransferRow]
    <3>1. [request[w].row EXCEPT !.status = "in_transit"] \in TransferRow
      BY <2>1 DEF Request, TransferRow, TransferStatus
    <3> QED BY <1>13, <3>1, HeaderType DEF CommitShip
  <2>4. items' \in [Transfers -> [Parts -> ItemRow]]
    <3>0. \A p \in Parts : request[w].its[p] \in ItemRow
      BY <2>1 DEF Request
    <3>1. \A p \in Parts : [request[w].its[p] EXCEPT !.sent = request[w].its[p].req]
                            \in ItemRow
      BY <3>0 DEF ItemRow
    <3>2. request[w].t \in Transfers
      BY <2>1 DEF Request
    <3> QED BY <1>13, <3>1, <3>2 DEF CommitShip
  <2> QED BY <1>13, <2>2, <2>3, <2>4, IdleType DEF CommitShip, Done
<1>14. ASSUME NEW w \in Workers, CommitReceive(w) PROVE TypeOK'
  <2>1. request[w] \in Request
    OBVIOUS
  <2>2. stock' \in [Sku -> StockRow] /\ moved' \in [Sku -> Int]
    BY <1>14, <2>1, SaveRowsType, PostType DEF CommitReceive
  <2>3. transfers' \in [Transfers -> TransferRow]
    <3>1. [request[w].row EXCEPT !.status = "received"] \in TransferRow
      BY <2>1 DEF Request, TransferRow, TransferStatus
    <3> QED BY <1>14, <3>1, HeaderType DEF CommitReceive
  <2>4. \A p \in Parts : request[w].lines[<<request[w].row.dst, p>>] > 0
                           => ReceivedItem(request[w], p) \in ItemRow
    BY <2>1, ReceivedItemType
  <2>5. items' \in [Transfers -> [Parts -> ItemRow]]
    BY <1>14, <2>1, <2>4 DEF CommitReceive, Request
  <2> QED BY <1>14, <2>2, <2>3, <2>5, IdleType DEF CommitReceive, Done
<1>15. ASSUME NEW w \in Workers, NEW src \in Branches, NEW dst \in Branches,
              CommitRedirect(w, src, dst)
       PROVE  TypeOK'
  <2>0. request[w] \in Request
    OBVIOUS
  <2>1. [request[w].row EXCEPT !.src = src, !.dst = dst] \in TransferRow
    BY <2>0 DEF Request, TransferRow
  <2> QED BY <1>15, <2>1, HeaderType, IdleType DEF CommitRedirect, Done
<1>16. ASSUME NEW w \in Workers, Abort(w) PROVE TypeOK'
  BY <1>16, IdleType DEF Abort, Done
<1>17. ASSUME NEW t \in Transfers, NEW src \in Branches, NEW dst \in Branches,
              NEW req \in [Parts -> Quantity], Create(t, src, dst, req)
       PROVE  TypeOK'
  <2>1. AbsentTransfer \in TransferRow
    BY IdleType DEF Idle, Request
  <2>2. [AbsentTransfer EXCEPT !.status = "draft", !.src = src, !.dst = dst] \in TransferRow
    BY <2>1 DEF TransferRow, TransferStatus
  <2>3. [p \in Parts |-> [NoItem EXCEPT !.req = req[p]]] \in [Parts -> ItemRow]
    BY BoundsAssumption DEF NoItem, ItemRow, Quantity
  <2> QED BY <1>17, <2>2, <2>3 DEF Create
<1>18. ASSUME NEW t \in Transfers, Destroy(t) PROVE TypeOK'
  BY <1>18, IdleType DEF Destroy, Idle, Request, NoApprovals, ApprovalStatus, NoItem, ItemRow
<1>19. CASE UNCHANGED vars
  BY <1>19 DEF vars
<1> QED
  BY <1>1, <1>2, <1>3, <1>4, <1>5, <1>6, <1>7, <1>8, <1>9, <1>10, <1>11, <1>12,
     <1>13, <1>14, <1>15, <1>16, <1>17, <1>18, <1>19 DEF Next

(* Every reachable state is well typed: the columns of the rows, and of    *)
(* the copies requests hold, keep their domains whatever the interleaving. *)
THEOREM TypeCorrect == Spec => []TypeOK
<1> QED BY TypeInit, TypeNext, PTL DEF Spec
-----------------------------------------------------------------------------
(* No row goes negative, whatever the interleaving.  The strengthening says *)
(* that the copies in memory are non-negative too and that only a signed    *)
(* adjustment carries a negative quantity.                                  *)

NonNegative(row) == row.inStock >= 0 /\ row.reserved >= 0

CopiesNonNegative ==
  \A w \in Workers, s \in Sku : NonNegative(request[w].rows[s])
LinesNonNegative ==
  \A w \in Workers, s \in Sku :
    request[w].op # "adjustment" => request[w].lines[s] >= 0

NonNegativeInv == TypeOK /\ NeverNegative /\ CopiesNonNegative /\ LinesNonNegative

LEMMA NewRowNonNegative ==
  ASSUME NEW op \in Ops, NEW row \in StockRow, NEW q \in Int,
         NonNegative(row), op # "adjustment" => q >= 0, Passes(op, row, q)
  PROVE  NonNegative(NewRow(op, row, q))
<1> USE DEF StockRow, NonNegative
<1>1. CASE op = "adjustment"
  BY <1>1 DEF NewRow, Passes, Allowed, Applied
<1>2. CASE op \in {"approve", "reserve"}
  BY <1>2 DEF NewRow, Applied
<1>3. CASE op = "ship"
  <2>1. row.reserved >= q /\ Applied("release", row, q).inStock >= q
    BY <1>3 DEF Passes, Allowed
  <2>2. Applied("release", row, q) = [row EXCEPT !.reserved = AtLeastZero(@ - q)]
    BY DEF Applied
  <2>3. row.inStock >= q
    BY <2>1, <2>2
  <2>4. NewRow(op, row, q) = [Applied("release", row, q) EXCEPT !.inStock = @ - q]
    BY <1>3 DEF NewRow, Applied
  <2> QED BY <2>2, <2>3, <2>4 DEF AtLeastZero
<1>4. CASE op = "damage"
  BY <1>4 DEF NewRow, Passes, Allowed, Applied
<1>5. CASE op = "release"
  BY <1>5 DEF NewRow, Applied, AtLeastZero
<1>6. CASE op \in {"receive", "purchase", "submit", "reject", "redirect", "patch"}
  BY <1>6 DEF NewRow, Applied
<1> QED BY <1>1, <1>2, <1>3, <1>4, <1>5, <1>6 DEF Ops, TransferOps, Kinds

LEMMA SaveRowsNonNegative ==
  ASSUME NonNegativeInv, NEW w \in Workers, SaveRows(request[w])
  PROVE  NeverNegative'
<1>1. request[w] \in Request
  BY DEF NonNegativeInv, TypeOK
<1> SUFFICES ASSUME NEW s \in Sku PROVE NonNegative(stock'[s])
  BY DEF NeverNegative, NonNegative
<1>2. CASE s \in Touched(request[w])
  <2>1. /\ request[w].op \in Ops /\ request[w].rows[s] \in StockRow
        /\ request[w].lines[s] \in Int
    BY <1>1 DEF Request
  <2>2. /\ NonNegative(request[w].rows[s])
        /\ request[w].op # "adjustment" => request[w].lines[s] >= 0
    BY DEF NonNegativeInv, CopiesNonNegative, LinesNonNegative
  <2>3. Passes(request[w].op, request[w].rows[s], request[w].lines[s])
    BY <1>2 DEF SaveRows
  <2>4. NonNegative(NewRow(request[w].op, request[w].rows[s], request[w].lines[s]))
    BY <2>1, <2>2, <2>3, NewRowNonNegative
  <2> QED BY <1>2, <2>4 DEF SaveRows
<1>3. CASE s \notin Touched(request[w])
  BY <1>3 DEF SaveRows, NonNegativeInv, NeverNegative, NonNegative
<1> QED BY <1>2, <1>3

(* What a step does to the copies of the other requests: nothing.          *)
LEMMA IdleNonNegative ==
  ASSUME NonNegativeInv, NEW w \in Workers, Done(w)
  PROVE  CopiesNonNegative' /\ LinesNonNegative'
BY DEF NonNegativeInv, TypeOK, CopiesNonNegative, LinesNonNegative, Done, Idle,
       NoRows, NoRow, NoLines, NonNegative

LEMMA RowsForNonNegative ==
  ASSUME NonNegativeInv, NEW lines \in [Sku -> Int], NEW s \in Sku
  PROVE  NonNegative(RowsFor(lines)[s])
BY DEF NonNegativeInv, NeverNegative, RowsFor, NoRow, NonNegative

LEMMA StagedNonNegative ==
  ASSUME NonNegativeInv, NEW w \in Workers, NEW stage,
         request' = [request EXCEPT ![w].stage = stage]
  PROVE  CopiesNonNegative' /\ LinesNonNegative'
<1>1. request \in [Workers -> Request]
  BY DEF NonNegativeInv, TypeOK
<1>2. \A v \in Workers : /\ request'[v].rows = request[v].rows
                         /\ request'[v].lines = request[v].lines
                         /\ request'[v].op = request[v].op
  BY <1>1 DEF Request
<1> QED BY <1>2 DEF NonNegativeInv, CopiesNonNegative, LinesNonNegative

LEMMA NonNegativeNext == NonNegativeInv /\ [Next]_vars => NonNegativeInv'
<1> SUFFICES ASSUME NonNegativeInv, [Next]_vars PROVE NonNegativeInv'
  OBVIOUS
<1>0. TypeOK /\ TypeOK'
  BY TypeNext DEF NonNegativeInv
<1>a. NeverNegative /\ CopiesNonNegative /\ LinesNonNegative
  BY DEF NonNegativeInv
<1>b. request \in [Workers -> Request]
  BY <1>0 DEF TypeOK
<1> SUFFICES NeverNegative' /\ CopiesNonNegative' /\ LinesNonNegative'
  BY <1>0 DEF NonNegativeInv
<1>1. ASSUME NEW w \in Workers, NEW kind \in MoveKinds, NEW s \in Sku,
             NEW q \in -MaxQty .. MaxQty, ReadMove(w, kind, s, q)
      PROVE  NeverNegative' /\ CopiesNonNegative' /\ LinesNonNegative'
  <2>1. q \in Int /\ LineOf(s, q) \in [Sku -> Int]
    BY LineType, BoundsAssumption
  <2>2. \A z \in Sku : NonNegative(RowsFor(LineOf(s, q))[z])
    BY <2>1, RowsForNonNegative
  <2>3. kind # "adjustment" => \A z \in Sku : LineOf(s, q)[z] >= 0
    BY <1>1, <2>1 DEF ReadMove, LineOf, NoLines
  <2>4. /\ request'[w].rows = RowsFor(LineOf(s, q))
        /\ request'[w].lines = LineOf(s, q) /\ request'[w].op = kind
        /\ \A v \in Workers : v # w => request'[v] = request[v]
    BY <1>1, <1>b DEF ReadMove, Idle
  <2>5. CopiesNonNegative' /\ LinesNonNegative'
    BY <1>a, <2>2, <2>3, <2>4 DEF CopiesNonNegative, LinesNonNegative
  <2> QED BY <1>1, <1>a, <2>5 DEF ReadMove, NeverNegative
<1>2. ASSUME NEW w \in Workers, CommitMove(w)
      PROVE  NeverNegative' /\ CopiesNonNegative' /\ LinesNonNegative'
  BY <1>2, SaveRowsNonNegative, IdleNonNegative DEF CommitMove
<1>3. ASSUME NEW w \in Workers, NEW s \in Sku, NEW q \in Quantity, Allocate(w, s, q)
      PROVE  NeverNegative' /\ CopiesNonNegative' /\ LinesNonNegative'
  <2>1. stock[s] \in StockRow /\ q \in Int
    BY <1>0, BoundsAssumption DEF TypeOK, Quantity
  <2>2. NonNegative(Applied("sale", stock[s], q))
    BY <1>3, <1>a, <2>1
       DEF Allocate, NeverNegative, NonNegative, Applied, Allowed, AtLeastZero, StockRow
  <2>3. NeverNegative'
    BY <1>0, <1>3, <1>a, <2>2 DEF Allocate, NeverNegative, NonNegative, TypeOK
  <2> QED BY <1>3, <1>a, <2>3 DEF Allocate, CopiesNonNegative, LinesNonNegative
<1>4. ASSUME NEW w \in Workers, NEW s \in Sku, ReadPatch(w, s)
      PROVE  NeverNegative' /\ CopiesNonNegative' /\ LinesNonNegative'
  <2>1. LineOf(s, 1) \in [Sku -> Int] /\ \A z \in Sku : LineOf(s, 1)[z] >= 0
    BY LineType DEF LineOf, NoLines
  <2>2. \A z \in Sku : NonNegative(RowsFor(LineOf(s, 1))[z])
    BY <2>1, RowsForNonNegative
  <2>3. /\ request'[w].rows = RowsFor(LineOf(s, 1))
        /\ request'[w].lines = LineOf(s, 1)
        /\ \A v \in Workers : v # w => request'[v] = request[v]
    BY <1>4, <1>b DEF ReadPatch, Idle
  <2>4. CopiesNonNegative' /\ LinesNonNegative'
    BY <1>a, <2>1, <2>2, <2>3 DEF CopiesNonNegative, LinesNonNegative
  <2> QED BY <1>4, <1>a, <2>4 DEF ReadPatch, NeverNegative
<1>5. ASSUME NEW w \in Workers, NEW s \in Sku, NEW n \in Quantity, CommitPatch(w, s, n)
      PROVE  NeverNegative' /\ CopiesNonNegative' /\ LinesNonNegative'
  <2>1. n \in Int /\ n >= 0 /\ request[w].rows[s] \in StockRow
    BY <1>b, BoundsAssumption DEF Quantity, Request
  <2>2. NonNegative(request[w].rows[s])
    BY <1>a DEF CopiesNonNegative
  <2>3. /\ NonNegative([request[w].rows[s] EXCEPT !.inStock = n])
        /\ NonNegative([request[w].rows[s] EXCEPT !.reserved = n])
    BY <2>1, <2>2 DEF NonNegative, StockRow
  <2>4. NeverNegative'
    BY <1>0, <1>5, <1>a, <2>2, <2>3 DEF CommitPatch, NeverNegative, NonNegative, TypeOK
  <2> QED BY <1>5, <2>4, IdleNonNegative DEF CommitPatch
<1>6. ASSUME NEW w \in Workers, NEW u \in Users, NEW t \in Transfers,
             NEW op \in TransferOps, NEW chosen \in SUBSET Users,
             NEW got \in [Parts -> Quantity], Load(w, u, t, op, chosen, got)
      PROVE  NeverNegative' /\ CopiesNonNegative' /\ LinesNonNegative'
  <2>1. /\ request'[w].rows = NoRows
        /\ request'[w].lines = LinesOf(op, transfers[t], items[t], got)
        /\ \A v \in Workers : v # w => request'[v] = request[v]
    BY <1>6, <1>b DEF Load, Idle
  <2>2. \A s \in Sku : LinesOf(op, transfers[t], items[t], got)[s] >= 0
    <3> SUFFICES ASSUME NEW s \in Sku
                 PROVE  LinesOf(op, transfers[t], items[t], got)[s] >= 0
      OBVIOUS
    <3>1. s[2] \in Parts
      BY DEF Sku
    <3>2. items[t][s[2]].req >= 0 /\ got[s[2]] >= 0
      BY <1>0, <3>1, BoundsAssumption DEF TypeOK, ItemRow, Quantity
    <3> QED BY <3>2 DEF LinesOf
  <2>3. CopiesNonNegative' /\ LinesNonNegative'
    BY <1>a, <2>1, <2>2 DEF CopiesNonNegative, LinesNonNegative, NoRows, NoRow, NonNegative
  <2> QED BY <1>6, <1>a, <2>3 DEF Load, NeverNegative
<1>7. ASSUME NEW w \in Workers, SubmitHeader(w) \/ RejectApprovals(w)
      PROVE  NeverNegative' /\ CopiesNonNegative' /\ LinesNonNegative'
  <2>1. PICK stage \in Stages : request' = [request EXCEPT ![w].stage = stage]
    BY <1>7 DEF SubmitHeader, RejectApprovals, Stages
  <2>2. CopiesNonNegative' /\ LinesNonNegative'
    BY <2>1, StagedNonNegative
  <2> QED BY <1>7, <1>a, <2>2 DEF SubmitHeader, RejectApprovals, NeverNegative
<1>8. ASSUME NEW w \in Workers, ReadRows(w)
      PROVE  NeverNegative' /\ CopiesNonNegative' /\ LinesNonNegative'
  <2>1. /\ request'[w].rows = RowsFor(request[w].lines)
        /\ request'[w].lines = request[w].lines /\ request'[w].op = request[w].op
        /\ \A v \in Workers : v # w => request'[v] = request[v]
    BY <1>8, <1>b DEF ReadRows, Request
  <2>2. \A z \in Sku : NonNegative(RowsFor(request[w].lines)[z])
    BY <1>b, RowsForNonNegative DEF Request
  <2>3. CopiesNonNegative' /\ LinesNonNegative'
    BY <1>a, <2>1, <2>2 DEF CopiesNonNegative, LinesNonNegative
  <2> QED BY <1>8, <1>a, <2>3 DEF ReadRows, NeverNegative
<1>9. ASSUME NEW w \in Workers, CommitApprove(w)
      PROVE  NeverNegative' /\ CopiesNonNegative' /\ LinesNonNegative'
  <2>1. NeverNegative'
    <3>1. CASE UNCHANGED stock
      BY <3>1, <1>a DEF NeverNegative
    <3>2. CASE SaveRows(request[w])
      BY <3>2, SaveRowsNonNegative
    <3> QED BY <1>9, <3>1, <3>2 DEF CommitApprove
  <2> QED BY <1>9, <2>1, IdleNonNegative DEF CommitApprove
<1>10. ASSUME NEW w \in Workers, CommitShip(w) \/ CommitReceive(w)
       PROVE  NeverNegative' /\ CopiesNonNegative' /\ LinesNonNegative'
  BY <1>10, SaveRowsNonNegative, IdleNonNegative DEF CommitShip, CommitReceive
<1>11. ASSUME NEW w \in Workers, NEW src \in Branches, NEW dst \in Branches,
              SubmitApprovers(w) \/ RejectHeader(w) \/ CommitRedirect(w, src, dst) \/ Abort(w)
       PROVE  NeverNegative' /\ CopiesNonNegative' /\ LinesNonNegative'
  <2>1. Done(w) /\ UNCHANGED stock
    BY <1>11 DEF SubmitApprovers, RejectHeader, CommitRedirect, Abort
  <2> QED BY <2>1, <1>a, IdleNonNegative DEF NeverNegative
<1>12. ASSUME UNCHANGED <<stock, request>>
       PROVE  NeverNegative' /\ CopiesNonNegative' /\ LinesNonNegative'
  BY <1>12, <1>a DEF NeverNegative, CopiesNonNegative, LinesNonNegative
<1>13. ASSUME NEW t \in Transfers, NEW src \in Branches, NEW dst \in Branches,
              NEW req \in [Parts -> Quantity], Create(t, src, dst, req) \/ Destroy(t)
       PROVE  UNCHANGED <<stock, request>>
  BY <1>13 DEF Create, Destroy
<1>14. CASE UNCHANGED vars
  BY <1>12, <1>14 DEF vars
<1>15. \E b \in Branches : TRUE
  BY SetsAssumption
<1>16. \E got \in [Parts -> Quantity] : TRUE
  <2>1. [p \in Parts |-> 0] \in [Parts -> Quantity]
    BY BoundsAssumption DEF Quantity
  <2> QED BY <2>1
<1> QED
  BY <1>1, <1>2, <1>3, <1>4, <1>5, <1>6, <1>7, <1>8, <1>9, <1>10, <1>11, <1>12,
     <1>13, <1>14, <1>15, <1>16 DEF Next

(* No quantity on hand or reserved is ever negative, for any number of     *)
(* concurrent requests and with the direct edits of rows included.         *)
THEOREM StockNeverNegative == Spec => []NeverNegative
<1>1. Init => NonNegativeInv
  BY TypeInit, BoundsAssumption
     DEF Init, NonNegativeInv, NeverNegative, CopiesNonNegative, LinesNonNegative,
         Idle, NoRows, NoRow, NoLines, NonNegative
<1>2. NonNegativeInv => NeverNegative
  BY DEF NonNegativeInv
<1> QED BY <1>1, <1>2, NonNegativeNext, PTL DEF Spec
-----------------------------------------------------------------------------
(* Receipts stay within the shipment, whatever the interleaving.  The copy  *)
(* of the items a request holds satisfies the same bounds, and a receive    *)
(* request asks for no more than its own copy leaves to be received.        *)

WithinShipment(it) == it.rcvd <= it.sent /\ it.sent <= it.req

CopiesWithinShipment ==
  \A w \in Workers, p \in Parts : WithinShipment(request[w].its[p])
ReceiptsFitCopies ==
  \A w \in Workers, p \in Parts :
    request[w].op = "receive" =>
      request[w].its[p].rcvd + request[w].lines[<<request[w].row.dst, p>>]
        <= request[w].its[p].sent

ShipmentInv ==
  TypeOK /\ ReceiptsWithinShipment /\ CopiesWithinShipment /\ ReceiptsFitCopies

LEMMA IdleShipment ==
  ASSUME ShipmentInv, NEW w \in Workers, Done(w)
  PROVE  CopiesWithinShipment' /\ ReceiptsFitCopies'
BY DEF ShipmentInv, TypeOK, CopiesWithinShipment, ReceiptsFitCopies, Done, Idle,
       NoItem, WithinShipment

(* A step that leaves the items, the op, the lines, the header copy and the *)
(* item copies of every request as they are keeps the invariant.            *)
LEMMA KeptShipment ==
  ASSUME ShipmentInv, UNCHANGED items,
         \A w \in Workers : /\ request'[w].op = request[w].op
                            /\ request'[w].lines = request[w].lines
                            /\ request'[w].row = request[w].row
                            /\ request'[w].its = request[w].its
  PROVE  ReceiptsWithinShipment' /\ CopiesWithinShipment' /\ ReceiptsFitCopies'
BY DEF ShipmentInv, ReceiptsWithinShipment, CopiesWithinShipment, ReceiptsFitCopies

(* So does a step that starts a request with no item copies.               *)
LEMMA FreshShipment ==
  ASSUME ShipmentInv, UNCHANGED items, NEW w \in Workers,
         NEW op, op # "receive", NEW lines, NEW rows,
         request' = [request EXCEPT ![w] =
           [Idle EXCEPT !.stage = "read", !.op = op, !.lines = lines, !.rows = rows]]
  PROVE  ReceiptsWithinShipment' /\ CopiesWithinShipment' /\ ReceiptsFitCopies'
<1> DEFINE r ==
      [Idle EXCEPT !.stage = "read", !.op = op, !.lines = lines, !.rows = rows]
<1>a. r.its = [p \in Parts |-> NoItem] /\ r.op = op
  BY DEF Idle
<1> HIDE DEF r
<1>0. /\ ReceiptsWithinShipment /\ CopiesWithinShipment /\ ReceiptsFitCopies
      /\ request \in [Workers -> Request]
  BY DEF ShipmentInv, TypeOK
<1>1. request'[w] = r /\ \A v \in Workers : v # w => request'[v] = request[v]
  BY <1>0 DEF r
<1>2. \A p \in Parts : WithinShipment(r.its[p])
  BY <1>a DEF WithinShipment, NoItem
<1>3. CopiesWithinShipment'
  BY <1>0, <1>1, <1>2 DEF CopiesWithinShipment
<1>4. ReceiptsFitCopies'
  BY <1>0, <1>1, <1>a DEF ReceiptsFitCopies
<1> QED BY <1>0, <1>3, <1>4 DEF ReceiptsWithinShipment

LEMMA ShipmentNext == ShipmentInv /\ [Next]_vars => ShipmentInv'
<1> SUFFICES ASSUME ShipmentInv, [Next]_vars PROVE ShipmentInv'
  OBVIOUS
<1>0. TypeOK /\ TypeOK'
  BY TypeNext DEF ShipmentInv
<1>a. ReceiptsWithinShipment /\ CopiesWithinShipment /\ ReceiptsFitCopies
  BY DEF ShipmentInv
<1>b. request \in [Workers -> Request] /\ items \in [Transfers -> [Parts -> ItemRow]]
  BY <1>0 DEF TypeOK
<1> DEFINE Kept == ReceiptsWithinShipment' /\ CopiesWithinShipment' /\ ReceiptsFitCopies'
<1> SUFFICES Kept
  BY <1>0 DEF ShipmentInv
<1>1. ASSUME NEW w \in Workers, NEW kind \in MoveKinds, NEW s \in Sku,
             NEW q \in -MaxQty .. MaxQty, ReadMove(w, kind, s, q)
      PROVE  Kept
  <2>0. kind # "receive"
    BY SetsAssumption DEF Kinds
  <2> QED BY <1>1, <1>b, <2>0, FreshShipment DEF ReadMove
<1>2. ASSUME NEW w \in Workers, Done(w), UNCHANGED items PROVE Kept
  BY <1>2, <1>a, IdleShipment DEF ReceiptsWithinShipment
<1>3. ASSUME NEW w \in Workers, NEW s \in Sku, NEW n \in Quantity,
             NEW src \in Branches, NEW dst \in Branches,
             \/ CommitMove(w) \/ CommitPatch(w, s, n) \/ SubmitApprovers(w)
             \/ RejectHeader(w) \/ CommitApprove(w) \/ CommitRedirect(w, src, dst)
             \/ Abort(w)
      PROVE  Kept
  <2>1. Done(w) /\ UNCHANGED items
    BY <1>3 DEF CommitMove, CommitPatch, SubmitApprovers, RejectHeader,
                CommitApprove, CommitRedirect, Abort
  <2> QED BY <1>2, <2>1
<1>4. ASSUME NEW w \in Workers, SubmitHeader(w) \/ RejectApprovals(w) \/ ReadRows(w)
      PROVE  Kept
  <2> DEFINE Same(v) == /\ request'[v].op = request[v].op
                        /\ request'[v].lines = request[v].lines
                        /\ request'[v].row = request[v].row
                        /\ request'[v].its = request[v].its
  <2>0. request[w] \in Request
    BY <1>b
  <2>1. \A v \in Workers : v # w => Same(v)
    BY <1>4, <1>b DEF SubmitHeader, RejectApprovals, ReadRows
  <2>2. CASE SubmitHeader(w)
    <3>1. request'[w] = [request[w] EXCEPT !.stage = "selecting"]
      BY <2>2, <1>b DEF SubmitHeader
    <3> QED BY <2>0, <2>1, <2>2, <3>1, KeptShipment DEF Request, SubmitHeader
  <2>3. CASE RejectApprovals(w)
    <3>1. request'[w] = [request[w] EXCEPT !.stage = "deciding"]
      BY <2>3, <1>b DEF RejectApprovals
    <3> QED BY <2>0, <2>1, <2>3, <3>1, KeptShipment DEF Request, RejectApprovals
  <2>4. CASE ReadRows(w)
    <3>1. PICK rows, seen :
            request'[w] = [request[w] EXCEPT !.stage = "read", !.rows = rows, !.seen = seen]
      BY <2>4, <1>b DEF ReadRows
    <3>2. Same(w)
      BY <2>0, <3>1 DEF Request
    <3> QED BY <2>1, <2>4, <3>2, KeptShipment DEF ReadRows
  <2> QED BY <1>4, <2>2, <2>3, <2>4
<1>5. ASSUME NEW w \in Workers, NEW u \in Users, NEW t \in Transfers,
             NEW op \in TransferOps, NEW chosen \in SUBSET Users,
             NEW got \in [Parts -> Quantity], Load(w, u, t, op, chosen, got)
      PROVE  Kept
  <2>1. /\ request'[w].its = items[t] /\ request'[w].op = op
        /\ request'[w].row = transfers[t]
        /\ request'[w].lines = LinesOf(op, transfers[t], items[t], got)
        /\ \A v \in Workers : v # w => request'[v] = request[v]
    BY <1>5, <1>b DEF Load, Idle
  <2>2. \A p \in Parts : WithinShipment(items[t][p])
    BY <1>a DEF ReceiptsWithinShipment, WithinShipment
  <2>3. ASSUME NEW p \in Parts, op = "receive"
        PROVE  items[t][p].rcvd + LinesOf(op, transfers[t], items[t], got)[<<transfers[t].dst, p>>]
                 <= items[t][p].sent
    <3>1. <<transfers[t].dst, p>> \in Sku
      BY <1>0 DEF TypeOK, TransferRow, Sku
    <3>2. LinesOf(op, transfers[t], items[t], got)[<<transfers[t].dst, p>>] = got[p]
      BY <2>3, <3>1 DEF LinesOf
    <3>3. /\ got[p] \in Nat /\ items[t][p].rcvd \in Nat /\ items[t][p].sent \in Nat
      BY <1>b, BoundsAssumption DEF Quantity, ItemRow
    <3>4. got[p] > 0 => items[t][p].rcvd + got[p] <= items[t][p].sent
      BY <1>5, <2>3 DEF Load
    <3> QED BY <2>2, <3>2, <3>3, <3>4 DEF WithinShipment
  <2>4. CopiesWithinShipment'
    BY <1>a, <2>1, <2>2 DEF CopiesWithinShipment
  <2>5. ReceiptsFitCopies'
    BY <1>a, <2>1, <2>3 DEF ReceiptsFitCopies
  <2> QED BY <1>5, <1>a, <2>4, <2>5 DEF Load, ReceiptsWithinShipment
<1>6. ASSUME NEW w \in Workers, CommitShip(w) PROVE Kept
  <2>1. request[w].t \in Transfers /\ \A p \in Parts : request[w].its[p] \in ItemRow
    BY <1>b DEF Request
  <2>2. \A p \in Parts : WithinShipment(request[w].its[p])
    BY <1>a DEF CopiesWithinShipment
  <2>3. \A p \in Parts :
          WithinShipment([request[w].its[p] EXCEPT !.sent = request[w].its[p].req])
    BY <2>1, <2>2 DEF WithinShipment, ItemRow
  <2>4. \A t \in Transfers, p \in Parts :
          \/ items'[t][p] = items[t][p]
          \/ items'[t][p] = [request[w].its[p] EXCEPT !.sent = request[w].its[p].req]
    BY <1>6, <1>b, <2>1 DEF CommitShip
  <2>5. ReceiptsWithinShipment'
    BY <1>a, <2>3, <2>4 DEF ReceiptsWithinShipment, WithinShipment
  <2> QED BY <1>6, <2>5, IdleShipment DEF CommitShip
<1>7. ASSUME NEW w \in Workers, CommitReceive(w) PROVE Kept
  <2>1. request[w].t \in Transfers /\ \A p \in Parts : request[w].its[p] \in ItemRow
    BY <1>b DEF Request
  <2>2. \A p \in Parts : request[w].lines[<<request[w].row.dst, p>>] \in Int
    <3>1. request[w].lines \in [Sku -> Int] /\ request[w].row.dst \in Branches
      BY <1>b DEF Request, TransferRow
    <3> QED BY <3>1 DEF Sku
  <2>3. ASSUME NEW p \in Parts PROVE WithinShipment(ReceivedItem(request[w], p))
    <3>1. request[w].its[p].rcvd + request[w].lines[<<request[w].row.dst, p>>]
            <= request[w].its[p].sent
      BY <1>7, <1>a DEF CommitReceive, ReceiptsFitCopies
    <3>2. WithinShipment(request[w].its[p])
      BY <1>a DEF CopiesWithinShipment
    <3> QED BY <2>1, <2>2, <3>1, <3>2 DEF ReceivedItem, WithinShipment, ItemRow
  <2>4. \A t \in Transfers, p \in Parts :
          items'[t][p] = items[t][p] \/ items'[t][p] = ReceivedItem(request[w], p)
    BY <1>7, <1>b, <2>1 DEF CommitReceive
  <2>5. ReceiptsWithinShipment'
    BY <1>a, <2>3, <2>4 DEF ReceiptsWithinShipment, WithinShipment
  <2> QED BY <1>7, <2>5, IdleShipment DEF CommitReceive
<1>8. ASSUME NEW w \in Workers, NEW s \in Sku, NEW q \in Quantity, Allocate(w, s, q)
      PROVE  Kept
  BY <1>8, KeptShipment DEF Allocate
<1>9. ASSUME NEW t \in Transfers, NEW src \in Branches, NEW dst \in Branches,
             NEW req \in [Parts -> Quantity], Create(t, src, dst, req)
      PROVE  Kept
  <2>1. \A p \in Parts : req[p] \in Nat
    BY BoundsAssumption DEF Quantity
  <2>2. ReceiptsWithinShipment'
    BY <1>9, <1>a, <1>b, <2>1 DEF Create, ReceiptsWithinShipment, NoItem
  <2> QED BY <1>9, <1>a, <2>2 DEF Create, CopiesWithinShipment, ReceiptsFitCopies
<1>10. ASSUME NEW t \in Transfers, Destroy(t) PROVE Kept
  <2>1. ReceiptsWithinShipment'
    BY <1>10, <1>a, <1>b DEF Destroy, ReceiptsWithinShipment, NoItem
  <2> QED BY <1>10, <1>a, <2>1 DEF Destroy, CopiesWithinShipment, ReceiptsFitCopies
<1>11. CASE UNCHANGED vars
  BY <1>11, KeptShipment DEF vars
<1>12. /\ \E b \in Branches : TRUE
       /\ \E n \in Quantity : TRUE
       /\ \E s \in Sku : TRUE
  <2>1. 0 \in Quantity
    BY BoundsAssumption DEF Quantity
  <2>2. PICK b \in Branches : TRUE
    BY SetsAssumption
  <2>3. PICK p \in Parts : TRUE
    BY SetsAssumption
  <2>4. <<b, p>> \in Sku
    BY <2>2, <2>3 DEF Sku
  <2> QED BY <2>1, <2>2, <2>4
<1>13. ASSUME NEW w \in Workers, NEW s \in Sku, ReadPatch(w, s) PROVE Kept
  BY <1>13, <1>b, FreshShipment DEF ReadPatch
<1> HIDE DEF Kept
<1> QED
  BY <1>1, <1>3, <1>4, <1>5, <1>6, <1>7, <1>8, <1>9, <1>10, <1>11, <1>12, <1>13 DEF Next

(* No transfer item is ever received beyond what was shipped or shipped     *)
(* beyond what was requested, however many requests save stale copies.      *)
THEOREM ReceiptsBounded == Spec => []ReceiptsWithinShipment
<1>1. Init => ShipmentInv
  BY TypeInit DEF Init, ShipmentInv, ReceiptsWithinShipment, CopiesWithinShipment,
     ReceiptsFitCopies, Idle, NoItem, WithinShipment
<1>2. ShipmentInv => ReceiptsWithinShipment
  BY DEF ShipmentInv
<1> QED BY <1>1, <1>2, ShipmentNext, PTL DEF Spec
-----------------------------------------------------------------------------
(* When the stock rows a request has read are not written by another before *)
(* its commit, and none is edited past the service, the ledger explains     *)
(* every balance.  The copies a request holds are then the rows themselves, *)
(* which the code, reading without a lock, does not see to.                 *)

RowsLocked ==
  \A w \in Workers :
    request[w].stage = "read" /\ request'[w] = request[w] =>
      \A s \in Touched(request[w]) : stock'[s] = stock[s]

CopiesCurrent ==
  \A w \in Workers :
    request[w].stage = "read" =>
      /\ request[w].op # "patch"
      /\ \A s \in Touched(request[w]) : request[w].rows[s] = stock[s]

LedgerInv == TypeOK /\ LedgerExplainsStock /\ CopiesCurrent

(* What NewRow changes on hand is what the ledger is told.                  *)
LEMMA MoveOnHand ==
  ASSUME NEW kind \in Kinds, NEW row \in StockRow, NEW q \in Int
  PROVE  NewRow(kind, row, q).inStock = row.inStock + Posted(kind, q)
BY DEF Kinds, NewRow, Applied, Posted, StockRow

LEMMA TransferOnHand ==
  ASSUME NEW row \in StockRow, NEW q \in Int
  PROVE  /\ NewRow("approve", row, q).inStock = row.inStock
         /\ NewRow("ship", row, q).inStock = row.inStock + Posted("transfer_out", q)
         /\ NewRow("receive", row, q).inStock = row.inStock + Posted("transfer_in", q)
<1>1. Applied("release", row, q) = [row EXCEPT !.reserved = AtLeastZero(row.reserved - q)]
  BY DEF Applied, StockRow
<1>2. Applied("release", row, q).inStock = row.inStock /\ Applied("release", row, q) \in StockRow
  BY <1>1 DEF StockRow, AtLeastZero
<1>3. Applied("transfer_out", Applied("release", row, q), q).inStock = row.inStock - q
  BY <1>2 DEF Applied, StockRow
<1> QED BY <1>3 DEF NewRow, Applied, Posted, StockRow

LEMMA NothingPosted == \A kind : Posted(kind, 0) = 0
<1>1. ASSUME NEW kind, NEW q \in Int, q = 0 PROVE Posted(kind, q) = 0
  <2>1. -q = 0
    <3>1. \A n \in Int : -n = 0 - n
      OBVIOUS
    <3>2. -q = 0 - q
      BY <3>1
    <3>3. 0 - q = 0
      BY <1>1
    <3> QED BY <3>2, <3>3
  <2>2. CASE kind \in {"damage", "transfer_out", "sale"}
    BY <1>1, <2>1, <2>2 DEF Posted
  <2>3. CASE kind \in {"reserve", "release"}
    BY <2>3 DEF Posted
  <2>4. CASE kind \notin {"damage", "transfer_out", "sale", "reserve", "release"}
    BY <1>1, <2>4 DEF Posted
  <2> QED BY <2>2, <2>3, <2>4
<1> QED BY <1>1

(* The saved row and the ledger total move together.                        *)
LEMMA SavedOnHand ==
  ASSUME LedgerInv, NEW w \in Workers, request[w].stage = "read", SaveRows(request[w]),
         NEW s \in Sku
  PROVE  LET r == request[w] IN
         IF s \in Touched(r)
         THEN stock'[s] = NewRow(r.op, stock[s], r.lines[s])
         ELSE stock'[s] = stock[s]
BY DEF LedgerInv, SaveRows, CopiesCurrent

LEMMA LedgerNext ==
  ASSUME "stock_item" \notin DirectEdits
  PROVE  LedgerInv /\ [RowsLocked]_vars /\ [Next]_vars => LedgerInv'
<1> SUFFICES ASSUME LedgerInv, [RowsLocked]_vars, [Next]_vars PROVE LedgerInv'
  OBVIOUS
<1>l. RowsLocked
  BY DEF RowsLocked, vars
<1>0. TypeOK /\ TypeOK' /\ LedgerExplainsStock /\ CopiesCurrent
  BY TypeNext DEF LedgerInv
<1>b. /\ request \in [Workers -> Request] /\ stock \in [Sku -> StockRow]
      /\ external \in [Sku -> Int] /\ moved \in [Sku -> Int]
  BY <1>0 DEF TypeOK
<1>q. \A w \in Workers, s \in Sku : request[w].lines[s] \in Int
  BY <1>b DEF Request
<1>r. \A s \in Sku : /\ stock[s] \in StockRow /\ stock[s].inStock \in Int
                     /\ external[s] \in Int /\ moved[s] \in Int
  BY <1>b DEF StockRow
<1> SUFFICES LedgerExplainsStock' /\ CopiesCurrent'
  BY <1>0 DEF LedgerInv
<1>c. ASSUME NEW w \in Workers, \A v \in Workers : v # w => request'[v] = request[v],
             request'[w].stage = "read" =>
               /\ request'[w].op # "patch"
               /\ \A s \in Touched(request'[w]) : request'[w].rows[s] = stock'[s]
      PROVE  CopiesCurrent'
  <2>1. ASSUME NEW v \in Workers, v # w, request'[v].stage = "read"
        PROVE  /\ request'[v].op # "patch"
               /\ \A s \in Touched(request'[v]) : request'[v].rows[s] = stock'[s]
    BY <1>0, <1>l, <1>c, <2>1 DEF CopiesCurrent, RowsLocked
  <2> QED BY <1>c, <2>1 DEF CopiesCurrent, Touched
(* Requests that end leave no copy behind.                                  *)
<1>d. ASSUME NEW w \in Workers, Done(w) PROVE CopiesCurrent'
  BY <1>b, <1>c, <1>d DEF Done, Idle
(* A step that leaves the rows and the ledger alone, and no request at the  *)
(* read stage that was not there.                                           *)
<1>e. ASSUME UNCHANGED <<stock, external, moved>> PROVE LedgerExplainsStock'
  BY <1>0, <1>e DEF LedgerExplainsStock
<1>f. ASSUME NEW w \in Workers, \A v \in Workers : v # w => request'[v] = request[v],
             request'[w].stage # "read"
      PROVE  CopiesCurrent'
  BY <1>c, <1>f
<1>1. ASSUME NEW w \in Workers, NEW kind \in MoveKinds, NEW s \in Sku,
             NEW q \in -MaxQty .. MaxQty, ReadMove(w, kind, s, q)
      PROVE  LedgerExplainsStock' /\ CopiesCurrent'
  <2>1. /\ request'[w] = [Idle EXCEPT !.stage = "read", !.op = kind, !.lines = LineOf(s, q),
                                      !.rows = RowsFor(LineOf(s, q))]
        /\ \A v \in Workers : v # w => request'[v] = request[v]
    BY <1>1, <1>b DEF ReadMove
  <2>2. /\ request'[w].op = kind /\ request'[w].lines = LineOf(s, q)
        /\ request'[w].rows = RowsFor(LineOf(s, q))
    BY <2>1 DEF Idle
  <2>3. kind # "patch"
    BY SetsAssumption DEF Kinds
  <2>4. UNCHANGED <<stock, external, moved>>
    BY <1>1 DEF ReadMove
  <2>5. \A z \in Touched(request'[w]) : request'[w].rows[z] = stock[z]
    BY <2>2 DEF Touched, RowsFor
  <2>6. CopiesCurrent'
    BY <1>c, <2>1, <2>2, <2>3, <2>4, <2>5
  <2> QED BY <1>e, <2>4, <2>6
<1>2. ASSUME NEW w \in Workers, CommitMove(w)
      PROVE  LedgerExplainsStock' /\ CopiesCurrent'
  <2>1. /\ request[w].op \in Kinds /\ SaveRows(request[w]) /\ request[w].stage = "read"
        /\ external' = Post(request[w], external, request[w].op) /\ UNCHANGED moved
        /\ Done(w)
    BY <1>2 DEF CommitMove
  <2>2. ASSUME NEW s \in Sku PROVE stock'[s].inStock = Opening + external'[s] + moved'[s]
    <3>1. external'[s] = external[s] + Posted(request[w].op, request[w].lines[s])
      BY <2>1 DEF Post
    <3>2. stock[s].inStock = Opening + external[s] + moved[s]
      BY <1>0 DEF LedgerExplainsStock
    <3>3. CASE s \in Touched(request[w])
      <4>1. stock'[s] = NewRow(request[w].op, stock[s], request[w].lines[s])
        BY <2>1, <3>3, SavedOnHand
      <4>2. stock'[s].inStock = stock[s].inStock + Posted(request[w].op, request[w].lines[s])
        BY <4>1, <2>1, <1>q, <1>r, MoveOnHand
      <4>3. Posted(request[w].op, request[w].lines[s]) \in Int
        BY <1>q DEF Posted
      <4> QED BY <2>1, <3>1, <3>2, <4>2, <4>3, <1>r, BoundsAssumption
    <3>4. CASE s \notin Touched(request[w])
      <4>1. stock'[s] = stock[s]
        BY <2>1, <3>4, SavedOnHand
      <4>2. request[w].lines[s] = 0
        BY <3>4 DEF Touched
      <4>3. Posted(request[w].op, 0) = 0
        BY NothingPosted
      <4> QED BY <2>1, <3>1, <3>2, <4>1, <4>2, <4>3, <1>r, BoundsAssumption
    <3> QED BY <3>3, <3>4
  <2> QED BY <2>1, <2>2, <1>d DEF LedgerExplainsStock
<1>3. ASSUME NEW w \in Workers, NEW s \in Sku, NEW q \in Quantity, Allocate(w, s, q)
      PROVE  LedgerExplainsStock' /\ CopiesCurrent'
  <2>1. UNCHANGED <<request, moved>>
    BY <1>3 DEF Allocate
  <2>2. CopiesCurrent'
    BY <1>0, <1>l, <2>1 DEF CopiesCurrent, RowsLocked
  <2>3. q \in Int
    BY BoundsAssumption DEF Quantity
  <2>4. /\ stock' = [stock EXCEPT ![s] = Applied("sale", stock[s], q)]
        /\ external' = [external EXCEPT ![s] = external[s] + Posted("sale", q)]
    BY <1>3 DEF Allocate
  <2>5. /\ Applied("sale", stock[s], q).inStock = stock[s].inStock - q
        /\ Posted("sale", q) = -q
    BY DEF Applied, Posted
  <2>6. /\ stock'[s].inStock = stock[s].inStock - q /\ external'[s] = external[s] - q
        /\ \A z \in Sku : z # s => stock'[z] = stock[z] /\ external'[z] = external[z]
    BY <2>3, <2>4, <2>5, <1>b, <1>r
  <2>7. LedgerExplainsStock'
    BY <1>0, <1>r, <2>1, <2>3, <2>6, BoundsAssumption DEF LedgerExplainsStock
  <2> QED BY <2>2, <2>7
<1>4. ASSUME NEW w \in Workers, NEW s \in Sku, ReadPatch(w, s) PROVE FALSE
  BY <1>4 DEF ReadPatch
<1>5. ASSUME NEW w \in Workers, NEW s \in Sku, NEW n \in Quantity, CommitPatch(w, s, n)
      PROVE  FALSE
  BY <1>0, <1>5 DEF CommitPatch, CopiesCurrent
<1>6. ASSUME NEW w \in Workers, NEW u \in Users, NEW t \in Transfers,
             NEW op \in TransferOps, NEW chosen \in SUBSET Users,
             NEW got \in [Parts -> Quantity], Load(w, u, t, op, chosen, got)
      PROVE  LedgerExplainsStock' /\ CopiesCurrent'
  <2>1. /\ request'[w].stage = "loaded" /\ UNCHANGED <<stock, external, moved>>
        /\ \A v \in Workers : v # w => request'[v] = request[v]
    BY <1>6, <1>b DEF Load, Idle
  <2> QED BY <2>1, <1>e, <1>f
<1>7. ASSUME NEW w \in Workers, NEW src \in Branches, NEW dst \in Branches,
             \/ SubmitApprovers(w) \/ RejectHeader(w) \/ CommitRedirect(w, src, dst)
             \/ Abort(w)
      PROVE  LedgerExplainsStock' /\ CopiesCurrent'
  <2>1. Done(w) /\ UNCHANGED <<stock, external, moved>>
    BY <1>7 DEF SubmitApprovers, RejectHeader, CommitRedirect, Abort
  <2> QED BY <2>1, <1>d, <1>e
<1>8. ASSUME NEW w \in Workers, SubmitHeader(w) \/ RejectApprovals(w)
      PROVE  LedgerExplainsStock' /\ CopiesCurrent'
  <2>1. request[w] \in Request
    BY <1>b
  <2>2. /\ request' = [request EXCEPT ![w].stage = "selecting"]
           \/ request' = [request EXCEPT ![w].stage = "deciding"]
        /\ UNCHANGED <<stock, external, moved>>
    BY <1>8 DEF SubmitHeader, RejectApprovals
  <2>3. \/ request'[w] = [request[w] EXCEPT !.stage = "selecting"]
        \/ request'[w] = [request[w] EXCEPT !.stage = "deciding"]
    BY <2>2, <1>b
  <2>5. \A v \in Workers : v # w => request'[v] = request[v]
    BY <2>2, <1>b
  <2>4. request'[w].stage # "read"
    BY <2>1, <2>3 DEF Request
  <2> QED BY <2>2, <2>4, <2>5, <1>e, <1>f
<1>9. ASSUME NEW w \in Workers, ReadRows(w)
      PROVE  LedgerExplainsStock' /\ CopiesCurrent'
  <2>1. PICK seen :
          /\ request'[w] =
               [request[w] EXCEPT !.stage = "read", !.rows = RowsFor(request[w].lines),
                                  !.seen = seen]
          /\ \A v \in Workers : v # w => request'[v] = request[v]
    BY <1>9, <1>b DEF ReadRows
  <2>2. request[w] \in Request /\ request[w].op \in {"approve", "ship", "receive"}
    BY <1>9, <1>b DEF ReadRows
  <2>3. /\ request'[w].op = request[w].op /\ request'[w].lines = request[w].lines
        /\ request'[w].rows = RowsFor(request[w].lines)
    BY <2>1, <2>2 DEF Request
  <2>4. UNCHANGED <<stock, external, moved>>
    BY <1>9 DEF ReadRows
  <2>5. \A z \in Touched(request'[w]) : request'[w].rows[z] = stock[z]
    BY <2>3 DEF Touched, RowsFor
  <2>6. CopiesCurrent'
    BY <1>c, <2>1, <2>2, <2>3, <2>4, <2>5
  <2> QED BY <1>e, <2>4, <2>6
<1>10. ASSUME NEW w \in Workers, CommitApprove(w)
       PROVE  LedgerExplainsStock' /\ CopiesCurrent'
  <2>1. Done(w) /\ request[w].stage = "read" /\ request[w].op = "approve"
        /\ UNCHANGED <<external, moved>>
    BY <1>10 DEF CommitApprove
  <2>2. CASE UNCHANGED stock
    BY <2>1, <2>2, <1>d, <1>e
  <2>3. CASE SaveRows(request[w])
    <3>1. ASSUME NEW s \in Sku PROVE stock'[s].inStock = stock[s].inStock
      BY <2>1, <2>3, <1>q, <1>r, SavedOnHand, TransferOnHand
    <3> QED BY <1>0, <2>1, <3>1, <1>d DEF LedgerExplainsStock
  <2> QED BY <1>10, <2>2, <2>3 DEF CommitApprove
<1>11. ASSUME NEW w \in Workers, CommitShip(w)
       PROVE  LedgerExplainsStock' /\ CopiesCurrent'
  <2>1. /\ request[w].op = "ship" /\ SaveRows(request[w]) /\ request[w].stage = "read"
        /\ moved' = Post(request[w], moved, "transfer_out") /\ UNCHANGED external
        /\ Done(w)
    BY <1>11 DEF CommitShip
  <2>2. ASSUME NEW s \in Sku PROVE stock'[s].inStock = Opening + external'[s] + moved'[s]
    <3>1. moved'[s] = moved[s] - request[w].lines[s]
      BY <2>1 DEF Post, Posted
    <3>2. stock[s].inStock = Opening + external[s] + moved[s]
      BY <1>0 DEF LedgerExplainsStock
    <3>3. stock'[s].inStock = stock[s].inStock - request[w].lines[s]
      BY <2>1, <1>q, <1>r, SavedOnHand, TransferOnHand DEF Posted, Touched
    <3> QED BY <2>1, <3>1, <3>2, <3>3, <1>q, <1>r, BoundsAssumption
  <2> QED BY <2>1, <2>2, <1>d DEF LedgerExplainsStock
<1>12. ASSUME NEW w \in Workers, CommitReceive(w)
       PROVE  LedgerExplainsStock' /\ CopiesCurrent'
  <2>1. /\ request[w].op = "receive" /\ SaveRows(request[w]) /\ request[w].stage = "read"
        /\ moved' = Post(request[w], moved, "transfer_in") /\ UNCHANGED external
        /\ Done(w)
    BY <1>12 DEF CommitReceive
  <2>2. ASSUME NEW s \in Sku PROVE stock'[s].inStock = Opening + external'[s] + moved'[s]
    <3>1. moved'[s] = moved[s] + request[w].lines[s]
      BY <2>1 DEF Post, Posted
    <3>2. stock[s].inStock = Opening + external[s] + moved[s]
      BY <1>0 DEF LedgerExplainsStock
    <3>3. stock'[s].inStock = stock[s].inStock + request[w].lines[s]
      BY <2>1, <1>q, <1>r, SavedOnHand, TransferOnHand DEF Posted, Touched
    <3> QED BY <2>1, <3>1, <3>2, <3>3, <1>q, <1>r, BoundsAssumption
  <2> QED BY <2>1, <2>2, <1>d DEF LedgerExplainsStock
<1>13. ASSUME UNCHANGED <<stock, external, moved, request>>
       PROVE  LedgerExplainsStock' /\ CopiesCurrent'
  BY <1>0, <1>13, <1>e DEF CopiesCurrent
<1>14. ASSUME NEW t \in Transfers, NEW src \in Branches, NEW dst \in Branches,
              NEW req \in [Parts -> Quantity], Create(t, src, dst, req) \/ Destroy(t)
       PROVE  LedgerExplainsStock' /\ CopiesCurrent'
  BY <1>13, <1>14 DEF Create, Destroy
<1>15. PICK b0 \in Branches : TRUE
  BY SetsAssumption
<1>16. PICK req0 : req0 \in [Parts -> Quantity]
  <2>1. [p \in Parts |-> 0] \in [Parts -> Quantity]
    BY BoundsAssumption DEF Quantity
  <2> QED BY <2>1
<1>17. CASE UNCHANGED vars
  BY <1>13, <1>17 DEF vars
<1> QED
  BY <1>1, <1>2, <1>3, <1>4, <1>5, <1>6, <1>7, <1>8, <1>9, <1>10, <1>11, <1>12,
     <1>14, <1>15, <1>16, <1>17 DEF Next

(* A single handler needs no locks.                                         *)
LEMMA OneHandlerLocked ==
  ASSUME \A v, w \in Workers : v = w
  PROVE  TypeOK /\ [Next]_vars => RowsLocked
<1> SUFFICES ASSUME TypeOK, [Next]_vars, NEW w \in Workers,
                    request[w].stage = "read", request'[w] = request[w]
             PROVE  stock' = stock
  BY DEF RowsLocked
<1>1. ASSUME NEW v \in Workers, Done(v) PROVE FALSE
  BY <1>1 DEF Done, TypeOK, Idle
<1>2. ASSUME NEW v \in Workers, NEW s \in Sku, NEW q \in Quantity,
             Allocate(v, s, q) \/ CommitPatch(v, s, q)
      PROVE  FALSE
  <2>1. v = w
    OBVIOUS
  <2> QED BY <1>1, <1>2, <2>1 DEF Allocate, CommitPatch
<1>3. ASSUME NEW v \in Workers,
             \/ CommitMove(v) \/ CommitApprove(v) \/ CommitShip(v) \/ CommitReceive(v)
      PROVE  FALSE
  BY <1>1, <1>3 DEF CommitMove, CommitApprove, CommitShip, CommitReceive
<1>4. ASSUME NEW v \in Workers,
             \/ SubmitHeader(v) \/ SubmitApprovers(v) \/ ReadRows(v)
             \/ RejectApprovals(v) \/ RejectHeader(v) \/ Abort(v)
      PROVE  stock' = stock
  BY <1>4 DEF SubmitHeader, SubmitApprovers, ReadRows, RejectApprovals, RejectHeader, Abort
<1>5. ASSUME NEW v \in Workers, NEW u \in Users, NEW t \in Transfers,
             NEW op \in TransferOps, NEW chosen \in SUBSET Users,
             NEW got \in [Parts -> Quantity], Load(v, u, t, op, chosen, got)
      PROVE  stock' = stock
  BY <1>5 DEF Load
<1>6. ASSUME NEW v \in Workers, NEW kind \in MoveKinds, NEW s \in Sku,
             NEW q \in -MaxQty .. MaxQty, ReadMove(v, kind, s, q)
      PROVE  stock' = stock
  BY <1>6 DEF ReadMove
<1>7. ASSUME NEW v \in Workers, NEW s \in Sku, ReadPatch(v, s) PROVE stock' = stock
  BY <1>7 DEF ReadPatch
<1>8. ASSUME NEW v \in Workers, NEW src \in Branches, NEW dst \in Branches,
             CommitRedirect(v, src, dst)
      PROVE  stock' = stock
  BY <1>8 DEF CommitRedirect
<1>9. ASSUME NEW t \in Transfers, NEW src \in Branches, NEW dst \in Branches,
             NEW req \in [Parts -> Quantity], Create(t, src, dst, req)
      PROVE  stock' = stock
  BY <1>9 DEF Create
<1>10. ASSUME NEW t \in Transfers, Destroy(t) PROVE stock' = stock
  BY <1>10 DEF Destroy
<1>11. CASE UNCHANGED vars
  BY <1>11 DEF vars
<1> QED
  BY <1>2, <1>3, <1>4, <1>5, <1>6, <1>7, <1>8, <1>9, <1>10, <1>11 DEF Next

(* What is on hand is the opening quantity plus every recorded movement, as *)
(* long as no row a request has read is written before it commits, and      *)
(* nobody PATCHes a stock row.                                              *)
THEOREM LedgerBalanced ==
  ASSUME "stock_item" \notin DirectEdits
  PROVE  Spec /\ [][RowsLocked]_vars => []LedgerExplainsStock
<1>1. Init => LedgerInv
  <2> SUFFICES ASSUME Init PROVE LedgerInv
    OBVIOUS
  <2>1. CopiesCurrent
    BY DEF Init, CopiesCurrent, Idle
  <2>2. LedgerExplainsStock
    BY BoundsAssumption DEF Init, LedgerExplainsStock
  <2> QED BY <2>1, <2>2, TypeInit DEF LedgerInv
<1>2. LedgerInv => LedgerExplainsStock
  BY DEF LedgerInv
<1>3. LedgerInv /\ [RowsLocked]_vars /\ [Next]_vars => LedgerInv'
  BY LedgerNext
<1> QED BY <1>1, <1>2, <1>3, PTL DEF Spec
-----------------------------------------------------------------------------
(* Requests that overlap, but never on one transfer: then what a request    *)
(* holds of its transfer is what the tables hold, and each operation starts *)
(* from the status the service insisted on.  Stands is what the rows of a   *)
(* transfer satisfy at rest, Held what keeps the copies of a request in     *)
(* step with them.                                                          *)

Transferring(r) ==
  \/ r.stage \in {"loaded", "read", "deciding"} /\ r.op \in TransferOps
  \/ r.stage = "selecting"

TransfersApart == \A v, w \in Workers :
  v # w /\ Transferring(request[v]) /\ Transferring(request[w]) => request[v].t # request[w].t

LEMMA OneHandlerApart == ASSUME \A v, w \in Workers : v = w PROVE TransfersApart
BY DEF TransfersApart

Unshipped == {"absent", "draft", "pending_approval", "approved", "rejected"}

Stands(row, its, states) ==
  /\ row.status # "absent" => \E p \in Parts : its[p].req > 0
  /\ row.status \in Unshipped => \A p \in Parts : its[p].sent = 0 /\ its[p].rcvd = 0
  /\ row.status = "in_transit" => \E p \in Parts : its[p].rcvd < its[p].sent
  /\ row.status \in {"approved", "in_transit", "received"} => Pending(states) = {}

LinesHeld(r) ==
  /\ r.op = "ship" =>
       \A s \in Sku : r.lines[s] = IF s[1] = r.row.src THEN r.its[s[2]].req ELSE 0
  /\ r.op = "receive" =>
       \A s \in Sku : r.lines[s] >= 0 /\ (s[1] # r.row.dst => r.lines[s] = 0)

Held(w) ==
  LET r == request[w] IN
  /\ r.stage \in {"loaded", "read", "deciding"} /\ r.op \in TransferOps =>
       /\ r.row = transfers[r.t] /\ r.its = items[r.t]
       /\ r.row.status \in Required(r.op)
       /\ LinesHeld(r)
       /\ r.op = "redirect" => "transfer" \in DirectEdits
  /\ r.stage = "read" /\ r.op = "approve" => r.seen = approvals[r.t]
  /\ r.stage = "deciding" => r.op = "reject"
  /\ r.stage = "selecting" => transfers[r.t].status = "pending_approval"

ApartInv ==
  /\ TypeOK
  /\ \A t \in Transfers : Stands(transfers[t], items[t], approvals[t])
  /\ \A w \in Workers : Held(w)

Progress(t) ==
  transfers'[t].status # transfers[t].status =>
    <<transfers[t].status, transfers'[t].status>> \in Lifecycle

(* A step writes the rows of at most one transfer.                          *)
LEMMA OneTransfer ==
  ASSUME ApartInv, TypeOK', NEW t \in Transfers,
         \A z \in Transfers : z # t => /\ transfers'[z] = transfers[z]
                                       /\ items'[z] = items[z]
                                       /\ approvals'[z] = approvals[z],
         Stands(transfers'[t], items'[t], approvals'[t]), Progress(t),
         \A w \in Workers : Held(w)'
  PROVE  ApartInv' /\ \A z \in Transfers : Progress(z)
<1>1. ASSUME NEW z \in Transfers
      PROVE  Stands(transfers'[z], items'[z], approvals'[z])
  BY DEF ApartInv
<1>2. \A z \in Transfers : Stands(transfers[z], items[z], approvals[z])'
  BY <1>1
<1>3. \A z \in Transfers : Progress(z)
  BY DEF Progress
<1> QED BY <1>2, <1>3 DEF ApartInv

LEMMA NoTransfer ==
  ASSUME ApartInv, TypeOK', UNCHANGED <<transfers, items, approvals>>,
         \A w \in Workers : Held(w)'
  PROVE  ApartInv' /\ \A z \in Transfers : Progress(z)
<1>1. \A z \in Transfers : Stands(transfers[z], items[z], approvals[z])'
  BY DEF ApartInv
<1> QED BY <1>1 DEF ApartInv, Progress

(* A step of w writes at most the rows of the transfer w holds.             *)
OwnTransfer(w) ==
  /\ TransfersApart /\ Transferring(request[w])
  /\ \A z \in Transfers : z # request[w].t => /\ transfers'[z] = transfers[z]
                                             /\ items'[z] = items[z]
                                             /\ approvals'[z] = approvals[z]

LEMMA OthersHeld ==
  ASSUME ApartInv, NEW w \in Workers, \A v \in Workers : v # w => request'[v] = request[v],
         UNCHANGED <<transfers, items, approvals>> \/ OwnTransfer(w), Held(w)'
  PROVE  \A v \in Workers : Held(v)'
<1> SUFFICES ASSUME NEW v \in Workers, v # w PROVE Held(v)'
  OBVIOUS
<1>1. request'[v] = request[v] /\ Held(v) /\ request[v].t \in Transfers
  BY DEF ApartInv, TypeOK, Request
<1>2. CASE Transferring(request[v])
  <2>1. /\ transfers'[request[v].t] = transfers[request[v].t]
        /\ items'[request[v].t] = items[request[v].t]
        /\ approvals'[request[v].t] = approvals[request[v].t]
    BY <1>1, <1>2 DEF OwnTransfer, TransfersApart
  <2> QED BY <1>1, <2>1 DEF Held, LinesHeld
<1>3. CASE ~Transferring(request[v])
  BY <1>1, <1>3 DEF Transferring, Held, TransferOps
<1> QED BY <1>2, <1>3

LEMMA IdleHeld ==
  ASSUME ApartInv, NEW w \in Workers, Done(w),
         UNCHANGED <<transfers, items, approvals>> \/ OwnTransfer(w)
  PROVE  \A v \in Workers : Held(v)'
<1>1. request'[w].stage = "idle" /\ \A v \in Workers : v # w => request'[v] = request[v]
  BY DEF ApartInv, TypeOK, Done, Idle
<1>2. Held(w)'
  BY <1>1 DEF Held
<1> QED BY <1>1, <1>2, OthersHeld

(* A request for a movement of stock holds no transfer.                     *)
LEMMA MoveHeld ==
  ASSUME ApartInv, NEW w \in Workers, UNCHANGED <<transfers, items, approvals>>,
         \A v \in Workers : v # w => request'[v] = request[v],
         request'[w].stage = "read", request'[w].op \in Kinds \cup {"patch"}
  PROVE  \A v \in Workers : Held(v)'
<1>1. request'[w].op \notin TransferOps
  BY DEF Kinds, TransferOps
<1>2. Held(w)'
  BY <1>1 DEF Held, TransferOps
<1> QED BY <1>2, OthersHeld

LEMMA ApartInit == Init => ApartInv
<1> SUFFICES ASSUME Init PROVE ApartInv
  OBVIOUS
<1>1. \A w \in Workers : Held(w)
  BY DEF Init, Held, Idle
<1>2. \A t \in Transfers : Stands(transfers[t], items[t], approvals[t])
  BY DEF Init, Stands, AbsentTransfer, NoItem
<1> QED BY <1>1, <1>2, TypeInit DEF ApartInv

LEMMA LoadStep ==
  ASSUME ApartInv, TypeOK', NEW w \in Workers, NEW u \in Users,
         NEW t \in Transfers, NEW op \in TransferOps, NEW chosen \in SUBSET Users,
         NEW got \in [Parts -> Quantity], Load(w, u, t, op, chosen, got)
  PROVE  ApartInv' /\ \A z \in Transfers : Progress(z)
<1>1. UNCHANGED <<transfers, items, approvals>>
  BY DEF Load
<1>2. request \in [Workers -> Request]
  BY DEF ApartInv, TypeOK
<1>3. /\ request'[w].stage = "loaded" /\ request'[w].op = op /\ request'[w].t = t
      /\ request'[w].row = transfers[t] /\ request'[w].its = items[t]
      /\ request'[w].lines = LinesOf(op, transfers[t], items[t], got)
  BY <1>2 DEF Load, Idle
<1>4. transfers[t].status \in Required(op) /\ (op = "redirect" => "transfer" \in DirectEdits)
  BY DEF Load
<1>5. LinesHeld(request'[w])
  <2>1. ASSUME NEW s \in Sku
        PROVE  request'[w].lines[s] =
                 CASE op \in {"approve", "ship"} /\ s[1] = transfers[t].src -> items[t][s[2]].req
                   [] op = "receive" /\ s[1] = transfers[t].dst             -> got[s[2]]
                   [] OTHER                                                 -> 0
    BY <1>3 DEF LinesOf
  <2>2. \A s \in Sku : got[s[2]] >= 0
    BY BoundsAssumption DEF Sku, Quantity
  <2>3. CASE op = "ship"
    <3>1. ASSUME NEW s \in Sku
          PROVE  request'[w].lines[s] = IF s[1] = transfers[t].src THEN items[t][s[2]].req ELSE 0
      BY <2>1, <2>3
    <3> QED BY <1>3, <2>3, <3>1 DEF LinesHeld
  <2>4. CASE op = "receive"
    <3>1. ASSUME NEW s \in Sku
          PROVE  request'[w].lines[s] = IF s[1] = transfers[t].dst THEN got[s[2]] ELSE 0
      BY <2>1, <2>4
    <3> QED BY <1>3, <2>2, <2>4, <3>1 DEF LinesHeld
  <2>5. CASE op \notin {"ship", "receive"}
    BY <1>3, <2>5 DEF LinesHeld
  <2> QED BY <2>3, <2>4, <2>5
<1>6. \A v \in Workers : Held(v)'
  <2>1. LinesHeld(request[w])'
    BY <1>5 DEF LinesHeld
  <2>2. Held(w)'
    BY <1>1, <1>3, <1>4, <2>1 DEF Held
  <2>3. \A v \in Workers : v # w => request'[v] = request[v]
    BY <1>2 DEF Load
  <2> QED BY <1>1, <2>2, <2>3, OthersHeld
<1> QED BY <1>1, <1>6, NoTransfer

(* Saving the header of the transfer the request holds.                     *)
LEMMA HeaderStep ==
  ASSUME ApartInv, TypeOK', NEW w \in Workers, NEW row,
         SaveHeader(w, row), UNCHANGED <<items, approvals>>,
         Stands(row, items[request[w].t], approvals[request[w].t]),
         row.status # transfers[request[w].t].status =>
           <<transfers[request[w].t].status, row.status>> \in Lifecycle,
         \A v \in Workers : Held(v)'
  PROVE  ApartInv' /\ \A z \in Transfers : Progress(z)
<1> DEFINE t == request[w].t
<1>1. t \in Transfers /\ transfers \in [Transfers -> TransferRow]
  BY DEF ApartInv, TypeOK, Request
<1>2. transfers' = [transfers EXCEPT ![t] = row]
  BY DEF SaveHeader
<1>3. transfers'[t] = row /\ \A z \in Transfers : z # t => transfers'[z] = transfers[z]
  BY <1>1, <1>2
<1>4. Stands(transfers'[t], items'[t], approvals'[t])
  BY <1>3
<1>5. Progress(t)
  BY <1>3 DEF Progress
<1> HIDE DEF t
<1> QED BY <1>1, <1>3, <1>4, <1>5, OneTransfer

LEMMA SubmitHeaderStep ==
  ASSUME ApartInv, TypeOK', TransfersApart, NEW w \in Workers, SubmitHeader(w)
  PROVE  ApartInv' /\ \A z \in Transfers : Progress(z)
<1> DEFINE r == request[w]
           row == [r.row EXCEPT !.status = "pending_approval", !.submitter = r.user]
<1>1. r \in Request /\ Held(w) /\ r.t \in Transfers /\ transfers \in [Transfers -> TransferRow]
  BY DEF ApartInv, TypeOK, Request
<1>2. r.stage = "loaded" /\ r.op = "submit" /\ SaveHeader(w, row)
      /\ UNCHANGED <<items, approvals>>
  BY DEF SubmitHeader
<1>3. r.row = transfers[r.t] /\ transfers[r.t].status = "draft"
  BY <1>1, <1>2 DEF Held, TransferOps, Required
<1>4. row.status = "pending_approval"
  BY <1>1 DEF Request, TransferRow
<1>5. Stands(row, items[r.t], approvals[r.t])
  <2>1. Stands(transfers[r.t], items[r.t], approvals[r.t])
    BY <1>1 DEF ApartInv
  <2> HIDE DEF row
  <2> QED BY <1>3, <1>4, <2>1 DEF Stands, Unshipped
<1>6. \A v \in Workers : Held(v)'
  <2>1. /\ request'[w] = [r EXCEPT !.stage = "selecting"]
        /\ \A v \in Workers : v # w => request'[v] = request[v]
    BY DEF SubmitHeader, ApartInv, TypeOK
  <2>2. request'[w].stage = "selecting" /\ request'[w].t = r.t
    BY <1>1, <2>1 DEF Request
  <2>3. transfers'[r.t] = row
    BY <1>1, <1>2 DEF SaveHeader
  <2> HIDE DEF row
  <2>4. Held(w)'
    BY <1>4, <2>2, <2>3 DEF Held
  <2>5. OwnTransfer(w)
    BY <1>1, <1>2 DEF OwnTransfer, Transferring, TransferOps, SaveHeader
  <2> QED BY <2>1, <2>4, <2>5, OthersHeld
<1>7. <<"draft", "pending_approval">> \in Lifecycle
  BY DEF Lifecycle
<1> HIDE DEF row
<1> QED BY <1>2, <1>3, <1>4, <1>5, <1>6, <1>7, HeaderStep

LEMMA ApprovalsStep ==
  ASSUME ApartInv, TypeOK', TransfersApart, NEW w \in Workers,
         SubmitApprovers(w) \/ RejectApprovals(w)
  PROVE  ApartInv' /\ \A z \in Transfers : Progress(z)
<1> DEFINE r == request[w]
<1>1. r \in Request /\ Held(w) /\ r.t \in Transfers /\ transfers \in [Transfers -> TransferRow]
      /\ approvals \in [Transfers -> [Users -> ApprovalStatus]]
  BY DEF ApartInv, TypeOK, Request
<1>2. UNCHANGED <<transfers, items>>
  BY DEF SubmitApprovers, RejectApprovals
<1>3. transfers[r.t].status = "pending_approval"
  BY <1>1 DEF SubmitApprovers, RejectApprovals, Held, TransferOps, Required
<1>4. \A z \in Transfers : z # r.t => approvals'[z] = approvals[z]
  BY <1>1 DEF SubmitApprovers, RejectApprovals
<1>5. Stands(transfers'[r.t], items'[r.t], approvals'[r.t])
  BY <1>1, <1>2, <1>3 DEF ApartInv, Stands, Unshipped
<1>6. Progress(r.t)
  BY <1>2 DEF Progress
<1>7. OwnTransfer(w)
  BY <1>1, <1>2, <1>4
     DEF OwnTransfer, Transferring, TransferOps, SubmitApprovers, RejectApprovals
<1>8. \A v \in Workers : Held(v)'
  <2>1. CASE SubmitApprovers(w)
    BY <1>7, <2>1, IdleHeld DEF SubmitApprovers
  <2>2. CASE RejectApprovals(w)
    <3>1. /\ request'[w] = [r EXCEPT !.stage = "deciding"]
          /\ \A v \in Workers : v # w => request'[v] = request[v]
      BY <2>2 DEF RejectApprovals, ApartInv, TypeOK
    <3>2. /\ request'[w].stage = "deciding" /\ request'[w].op = "reject"
          /\ request'[w].t = r.t /\ request'[w].row = r.row /\ request'[w].its = r.its
      BY <1>1, <2>2, <3>1 DEF Request, RejectApprovals
    <3>3. /\ r.row = transfers[r.t] /\ r.its = items[r.t] /\ r.row.status \in Required("reject")
      BY <1>1, <2>2 DEF RejectApprovals, Held, TransferOps
    <3>4. LinesHeld(request[w])'
      BY <3>2 DEF LinesHeld
    <3>5. Held(w)'
      BY <1>2, <3>2, <3>3, <3>4 DEF Held
    <3> QED BY <1>7, <3>1, <3>5, OthersHeld
  <2> QED BY <2>1, <2>2
<1> HIDE DEF r
<1> QED BY <1>1, <1>2, <1>4, <1>5, <1>6, <1>8, OneTransfer

LEMMA RejectHeaderStep ==
  ASSUME ApartInv, TypeOK', TransfersApart, NEW w \in Workers, RejectHeader(w)
  PROVE  ApartInv' /\ \A z \in Transfers : Progress(z)
<1> DEFINE r == request[w]
           row == [r.row EXCEPT !.status = "rejected"]
<1>1. r \in Request /\ Held(w) /\ r.t \in Transfers
  BY DEF ApartInv, TypeOK, Request
<1>2. r.stage = "deciding" /\ SaveHeader(w, row) /\ UNCHANGED <<items, approvals>> /\ Done(w)
  BY DEF RejectHeader
<1>3. r.row = transfers[r.t] /\ transfers[r.t].status = "pending_approval"
  BY <1>1, <1>2 DEF Held, TransferOps, Required
<1>4. row.status = "rejected"
  BY <1>1 DEF Request, TransferRow
<1>5. Stands(row, items[r.t], approvals[r.t])
  <2>1. Stands(transfers[r.t], items[r.t], approvals[r.t])
    BY <1>1 DEF ApartInv
  <2> HIDE DEF row
  <2> QED BY <1>3, <1>4, <2>1 DEF Stands, Unshipped
<1>6. \A v \in Workers : Held(v)'
  <2>1. OwnTransfer(w)
    BY <1>1, <1>2 DEF OwnTransfer, Transferring, TransferOps, Held, SaveHeader, ApartInv, TypeOK
  <2> QED BY <1>2, <2>1, IdleHeld
<1>7. <<"pending_approval", "rejected">> \in Lifecycle
  BY DEF Lifecycle
<1> HIDE DEF row
<1> QED BY <1>2, <1>3, <1>4, <1>5, <1>6, <1>7, HeaderStep

LEMMA RedirectStep ==
  ASSUME ApartInv, TypeOK', TransfersApart, NEW w \in Workers, NEW src \in Branches,
         NEW dst \in Branches, CommitRedirect(w, src, dst)
  PROVE  ApartInv' /\ \A z \in Transfers : Progress(z)
<1> DEFINE r == request[w]
           row == [r.row EXCEPT !.src = src, !.dst = dst]
<1>1. r \in Request /\ Held(w) /\ r.t \in Transfers
  BY DEF ApartInv, TypeOK, Request
<1>2. r.stage = "loaded" /\ r.op = "redirect" /\ SaveHeader(w, row)
      /\ UNCHANGED <<items, approvals>> /\ Done(w)
  BY DEF CommitRedirect
<1>3. r.row = transfers[r.t]
  BY <1>1, <1>2 DEF Held, TransferOps
<1>4. row.status = transfers[r.t].status
  BY <1>1, <1>3 DEF Request, TransferRow
<1>5. Stands(row, items[r.t], approvals[r.t])
  <2>1. Stands(transfers[r.t], items[r.t], approvals[r.t])
    BY <1>1 DEF ApartInv
  <2> HIDE DEF row
  <2> QED BY <1>4, <2>1 DEF Stands
<1>6. \A v \in Workers : Held(v)'
  <2>1. OwnTransfer(w)
    BY <1>1, <1>2 DEF OwnTransfer, Transferring, TransferOps, SaveHeader, ApartInv, TypeOK
  <2> QED BY <1>2, <2>1, IdleHeld
<1> HIDE DEF row
<1> QED BY <1>2, <1>4, <1>5, <1>6, HeaderStep

LEMMA ReadRowsStep ==
  ASSUME ApartInv, TypeOK', NEW w \in Workers, ReadRows(w)
  PROVE  ApartInv' /\ \A z \in Transfers : Progress(z)
<1> DEFINE r == request[w]
<1>1. r \in Request /\ Held(w) /\ r.t \in Transfers
  BY DEF ApartInv, TypeOK, Request
<1>2. r.stage = "loaded" /\ r.op \in {"approve", "ship", "receive"}
      /\ UNCHANGED <<transfers, items, approvals>>
  BY DEF ReadRows
<1>3. request'[w] = [r EXCEPT !.stage = "read", !.rows = RowsFor(r.lines),
                       !.seen = IF r.op = "approve" THEN approvals[r.t] ELSE NoApprovals]
  BY DEF ReadRows, ApartInv, TypeOK
<1>4. /\ request'[w].stage = "read" /\ request'[w].op = r.op /\ request'[w].t = r.t
      /\ request'[w].row = r.row /\ request'[w].its = r.its /\ request'[w].lines = r.lines
      /\ request'[w].seen = IF r.op = "approve" THEN approvals[r.t] ELSE NoApprovals
  BY <1>1, <1>3 DEF Request
<1>5. r.row = transfers[r.t] /\ r.its = items[r.t] /\ r.row.status \in Required(r.op)
      /\ LinesHeld(r)
  BY <1>1, <1>2 DEF Held, TransferOps
<1>6. LinesHeld(request[w])'
  BY <1>4, <1>5 DEF LinesHeld
<1>7. Held(w)'
  BY <1>2, <1>4, <1>5, <1>6 DEF Held
<1>8. \A v \in Workers : v # w => request'[v] = request[v]
  BY DEF ReadRows, ApartInv, TypeOK
<1>9. \A v \in Workers : Held(v)'
  BY <1>2, <1>7, <1>8, OthersHeld
<1> QED BY <1>2, <1>9, NoTransfer

LEMMA ApproveStep ==
  ASSUME ApartInv, TypeOK', TransfersApart, NEW w \in Workers, CommitApprove(w)
  PROVE  ApartInv' /\ \A z \in Transfers : Progress(z)
<1> DEFINE r == request[w]
           t == r.t
<1>1. r \in Request /\ Held(w) /\ t \in Transfers /\ transfers \in [Transfers -> TransferRow]
      /\ approvals \in [Transfers -> [Users -> ApprovalStatus]]
  BY DEF ApartInv, TypeOK, Request
<1>2. r.stage = "read" /\ r.op = "approve" /\ UNCHANGED items /\ Done(w)
  BY DEF CommitApprove
<1>3. /\ r.row = transfers[t] /\ transfers[t].status = "pending_approval"
      /\ r.seen = approvals[t]
  BY <1>1, <1>2 DEF Held, TransferOps, Required
<1>4. approvals'[t] = Decide(r.seen, r.user, "approved")
  BY <1>1, <1>3 DEF CommitApprove, Decide
<1>5. /\ \A z \in Transfers : z # t => transfers'[z] = transfers[z]
      /\ \A z \in Transfers : z # t => approvals'[z] = approvals[z]
  BY <1>1 DEF CommitApprove, SaveHeader
<1>6. Stands(transfers[t], items[t], approvals[t])
  BY <1>1 DEF ApartInv
<1>7. Stands(transfers'[t], items'[t], approvals'[t]) /\ Progress(t)
  <2>1. CASE Undecided(r) # {}
    <3>1. UNCHANGED transfers
      BY <2>1 DEF CommitApprove
    <3> QED BY <1>2, <1>3, <1>6, <3>1 DEF Stands, Progress
  <2>2. CASE Undecided(r) = {}
    <3>1. transfers'[t] = [r.row EXCEPT !.status = "approved", !.approver = r.user]
      BY <1>1, <2>2 DEF CommitApprove, SaveHeader
    <3>2. transfers'[t].status = "approved"
      BY <1>1, <3>1 DEF Request, TransferRow
    <3>3. Pending(approvals'[t]) = {}
      BY <1>4, <2>2 DEF Undecided
    <3>4. Stands(transfers'[t], items'[t], approvals'[t])
      BY <1>2, <1>3, <1>6, <3>2, <3>3 DEF Stands, Unshipped
    <3>5. Progress(t)
      BY <1>3, <3>2 DEF Progress, Lifecycle
    <3> QED BY <3>4, <3>5
  <2> QED BY <2>1, <2>2
<1>8. \A v \in Workers : Held(v)'
  <2>1. OwnTransfer(w)
    BY <1>2, <1>5 DEF OwnTransfer, Transferring, TransferOps
  <2> QED BY <1>2, <2>1, IdleHeld
<1> HIDE DEF t
<1> QED BY <1>1, <1>2, <1>5, <1>7, <1>8, OneTransfer

(* What shipping writes: everything requested is sent, nothing received.    *)
LEMMA ShipWrites ==
  ASSUME ApartInv, NEW w \in Workers, CommitShip(w)
  PROVE  LET t == request[w].t IN
         /\ t \in Transfers /\ request[w].row = transfers[t]
         /\ transfers[t].status = "approved"
         /\ transfers'[t] = [transfers[t] EXCEPT !.status = "in_transit"]
         /\ \A z \in Transfers : z # t => transfers'[z] = transfers[z] /\ items'[z] = items[z]
         /\ \A p \in Parts :
              /\ items'[t][p].req = items[t][p].req
              /\ items[t][p].sent = 0 /\ items[t][p].rcvd = 0
              /\ items'[t][p].sent = items[t][p].req /\ items'[t][p].rcvd = 0
<1> DEFINE r == request[w]
           t == r.t
<1>1. r \in Request /\ Held(w) /\ t \in Transfers /\ transfers \in [Transfers -> TransferRow]
      /\ items \in [Transfers -> [Parts -> ItemRow]]
  BY DEF ApartInv, TypeOK, Request
<1>2. r.stage = "read" /\ r.op = "ship"
  BY DEF CommitShip
<1>3. /\ r.row = transfers[t] /\ r.its = items[t] /\ transfers[t].status = "approved"
  BY <1>1, <1>2 DEF Held, TransferOps, Required
<1>4. /\ transfers'[t] = [transfers[t] EXCEPT !.status = "in_transit"]
      /\ \A z \in Transfers : z # t => transfers'[z] = transfers[z]
  BY <1>1, <1>3 DEF CommitShip, SaveHeader
<1>5. /\ items'[t] = [p \in Parts |->
           IF OnTransfer(items[t], p) THEN [items[t][p] EXCEPT !.sent = items[t][p].req]
                                      ELSE items[t][p]]
      /\ \A z \in Transfers : z # t => items'[z] = items[z]
  BY <1>1, <1>3 DEF CommitShip
<1>6. ASSUME NEW p \in Parts
      PROVE  /\ items'[t][p].req = items[t][p].req
             /\ items[t][p].sent = 0 /\ items[t][p].rcvd = 0
             /\ items'[t][p].sent = items[t][p].req /\ items'[t][p].rcvd = 0
  <2>1. items[t][p] \in ItemRow
    BY <1>1
  <2>2. items[t][p].sent = 0 /\ items[t][p].rcvd = 0
    BY <1>1, <1>3 DEF ApartInv, Stands, Unshipped
  <2>3. items'[t][p] = IF items[t][p].req > 0
                       THEN [items[t][p] EXCEPT !.sent = items[t][p].req] ELSE items[t][p]
    BY <1>5 DEF OnTransfer
  <2> QED BY <2>1, <2>2, <2>3 DEF ItemRow
<1> QED BY <1>1, <1>3, <1>4, <1>5, <1>6

LEMMA ShipStep ==
  ASSUME ApartInv, TypeOK', TransfersApart, NEW w \in Workers, CommitShip(w)
  PROVE  ApartInv' /\ \A z \in Transfers : Progress(z)
<1> DEFINE t == request[w].t
<1>1. UNCHANGED approvals /\ Done(w)
  BY DEF CommitShip
<1>2. /\ t \in Transfers /\ transfers[t].status = "approved"
      /\ transfers'[t] = [transfers[t] EXCEPT !.status = "in_transit"]
      /\ \A z \in Transfers : z # t => transfers'[z] = transfers[z] /\ items'[z] = items[z]
      /\ \A p \in Parts : /\ items'[t][p].req = items[t][p].req
                          /\ items'[t][p].sent = items[t][p].req /\ items'[t][p].rcvd = 0
  BY ShipWrites
<1>3. transfers'[t].status = "in_transit"
  BY <1>2 DEF ApartInv, TypeOK, TransferRow
<1>4. Stands(transfers[t], items[t], approvals[t])
  BY <1>2 DEF ApartInv
<1>5. Stands(transfers'[t], items'[t], approvals'[t])
  BY <1>1, <1>2, <1>3, <1>4 DEF Stands, Unshipped
<1>6. Progress(t)
  BY <1>2, <1>3 DEF Progress, Lifecycle
<1>7. \A v \in Workers : Held(v)'
  <2>1. OwnTransfer(w)
    BY <1>1, <1>2 DEF OwnTransfer, Transferring, TransferOps, CommitShip
  <2> QED BY <1>1, <2>1, IdleHeld
<1> HIDE DEF t
<1> QED BY <1>1, <1>2, <1>5, <1>6, <1>7, OneTransfer

(* What receiving writes: the parts that arrived, and the status only when  *)
(* nothing is outstanding.                                                  *)
LEMMA ReceiveWrites ==
  ASSUME ApartInv, NEW w \in Workers, CommitReceive(w)
  PROVE  LET r == request[w]
             t == r.t
         IN
         /\ t \in Transfers /\ r.row = transfers[t]
         /\ transfers[t].status = "in_transit"
         /\ \/ AllArrived(r) /\ transfers'[t] = [transfers[t] EXCEPT !.status = "received"]
            \/ ~AllArrived(r) /\ transfers'[t] = transfers[t]
         /\ \A z \in Transfers : z # t => transfers'[z] = transfers[z] /\ items'[z] = items[z]
         /\ \A p \in Parts :
              /\ r.lines[<<r.row.dst, p>>] >= 0
              /\ items'[t][p].req = items[t][p].req /\ items'[t][p].sent = items[t][p].sent
              /\ items'[t][p].rcvd = items[t][p].rcvd + r.lines[<<r.row.dst, p>>]
              /\ items'[t][p].rcvd = ReceivedItem(r, p).rcvd
              /\ items[t][p].sent = r.its[p].sent
<1> DEFINE r == request[w]
           t == r.t
<1>1. r \in Request /\ Held(w) /\ t \in Transfers /\ transfers \in [Transfers -> TransferRow]
      /\ items \in [Transfers -> [Parts -> ItemRow]]
  BY DEF ApartInv, TypeOK, Request
<1>2. r.stage = "read" /\ r.op = "receive"
  BY DEF CommitReceive
<1>3. /\ r.row = transfers[t] /\ r.its = items[t] /\ transfers[t].status = "in_transit"
      /\ LinesHeld(r)
  BY <1>1, <1>2 DEF Held, TransferOps, Required
<1>4. /\ \/ AllArrived(r) /\ transfers'[t] = [transfers[t] EXCEPT !.status = "received"]
         \/ ~AllArrived(r) /\ transfers'[t] = transfers[t]
      /\ \A z \in Transfers : z # t => transfers'[z] = transfers[z]
  <2>1. CASE AllArrived(r)
    BY <1>1, <1>3, <2>1 DEF CommitReceive, SaveHeader
  <2>2. CASE ~AllArrived(r)
    BY <2>2 DEF CommitReceive
  <2> QED BY <2>1, <2>2
<1>5. /\ items'[t] = [p \in Parts |->
           IF r.lines[<<r.row.dst, p>>] > 0 THEN ReceivedItem(r, p) ELSE items[t][p]]
      /\ \A z \in Transfers : z # t => items'[z] = items[z]
  BY <1>1 DEF CommitReceive
<1>6. ASSUME NEW p \in Parts
      PROVE  /\ r.lines[<<r.row.dst, p>>] >= 0
             /\ items'[t][p].req = items[t][p].req /\ items'[t][p].sent = items[t][p].sent
             /\ items'[t][p].rcvd = items[t][p].rcvd + r.lines[<<r.row.dst, p>>]
             /\ items'[t][p].rcvd = ReceivedItem(r, p).rcvd
             /\ items[t][p].sent = r.its[p].sent
  <2>1. items[t][p] \in ItemRow /\ <<r.row.dst, p>> \in Sku
    BY <1>1 DEF Request, TransferRow, Sku
  <2>2. r.lines[<<r.row.dst, p>>] >= 0 /\ r.lines[<<r.row.dst, p>>] \in Int
    BY <1>1, <1>2, <1>3, <2>1 DEF LinesHeld, Request
  <2>3. ReceivedItem(r, p) = [items[t][p] EXCEPT !.rcvd = items[t][p].rcvd + r.lines[<<r.row.dst, p>>]]
    BY <1>3 DEF ReceivedItem
  <2>4. items'[t][p] = IF r.lines[<<r.row.dst, p>>] > 0 THEN ReceivedItem(r, p) ELSE items[t][p]
    BY <1>5
  <2> HIDE DEF r, t
  <2> QED BY <1>3, <2>1, <2>2, <2>3, <2>4 DEF ItemRow
<1> QED BY <1>1, <1>3, <1>4, <1>5, <1>6

LEMMA ReceiveStep ==
  ASSUME ApartInv, TypeOK', TransfersApart, NEW w \in Workers, CommitReceive(w)
  PROVE  ApartInv' /\ \A z \in Transfers : Progress(z)
<1> DEFINE r == request[w]
           t == r.t
<1>1. UNCHANGED approvals /\ Done(w)
  BY DEF CommitReceive
<1>2. /\ t \in Transfers /\ transfers[t].status = "in_transit"
      /\ \/ AllArrived(r) /\ transfers'[t] = [transfers[t] EXCEPT !.status = "received"]
         \/ ~AllArrived(r) /\ transfers'[t] = transfers[t]
      /\ \A z \in Transfers : z # t => transfers'[z] = transfers[z] /\ items'[z] = items[z]
      /\ \A p \in Parts :
           /\ items'[t][p].req = items[t][p].req /\ items'[t][p].sent = items[t][p].sent
           /\ items'[t][p].rcvd = ReceivedItem(r, p).rcvd
           /\ items[t][p].sent = r.its[p].sent
  BY ReceiveWrites
<1>3. Stands(transfers[t], items[t], approvals[t])
  BY <1>2 DEF ApartInv
<1>4. Stands(transfers'[t], items'[t], approvals'[t]) /\ Progress(t)
  <2>1. CASE AllArrived(r) /\ transfers'[t] = [transfers[t] EXCEPT !.status = "received"]
    <3>1. transfers'[t].status = "received"
      BY <1>2, <2>1 DEF ApartInv, TypeOK, TransferRow
    <3>2. Stands(transfers'[t], items'[t], approvals'[t])
      BY <1>1, <1>2, <1>3, <3>1 DEF Stands, Unshipped
    <3>3. Progress(t)
      BY <1>2, <3>1 DEF Progress, Lifecycle
    <3> QED BY <3>2, <3>3
  <2>2. CASE ~AllArrived(r) /\ transfers'[t] = transfers[t]
    <3>1. PICK p \in Parts : ~(ReceivedItem(r, p).rcvd >= r.its[p].sent)
      BY <2>2 DEF AllArrived
    <3>2. items'[t] \in [Parts -> ItemRow]
      BY <1>2 DEF TypeOK
    <3>3. items'[t][p].rcvd < items'[t][p].sent
      BY <1>2, <3>1, <3>2 DEF ItemRow
    <3>4. Stands(transfers'[t], items'[t], approvals'[t])
      BY <1>1, <1>2, <1>3, <2>2, <3>3 DEF Stands, Unshipped
    <3> QED BY <2>2, <3>4 DEF Progress
  <2> QED BY <1>2, <2>1, <2>2
<1>5. \A v \in Workers : Held(v)'
  <2>1. OwnTransfer(w)
    BY <1>1, <1>2 DEF OwnTransfer, Transferring, TransferOps, CommitReceive
  <2> QED BY <1>1, <2>1, IdleHeld
<1> HIDE DEF t
<1> QED BY <1>1, <1>2, <1>4, <1>5, OneTransfer

(* Creating and deleting a transfer, which no request holds.                *)
LEMMA RowStep ==
  ASSUME ApartInv, TypeOK', NEW t \in Transfers, NEW src, NEW dst, NEW req,
         Create(t, src, dst, req) \/ Destroy(t)
  PROVE  ApartInv' /\ \A z \in Transfers : Progress(z)
<1>1. /\ transfers \in [Transfers -> TransferRow] /\ request \in [Workers -> Request]
      /\ items \in [Transfers -> [Parts -> ItemRow]]
      /\ approvals \in [Transfers -> [Users -> ApprovalStatus]]
      /\ AbsentTransfer \in TransferRow
  BY IdleType DEF ApartInv, TypeOK, Idle, Request
<1>2. \A z \in Transfers : z # t => /\ transfers'[z] = transfers[z]
                                    /\ items'[z] = items[z] /\ approvals'[z] = approvals[z]
  BY <1>1 DEF Create, Destroy
<1>3. Stands(transfers'[t], items'[t], approvals'[t]) /\ Progress(t)
  <2>1. CASE Create(t, src, dst, req)
    <3>1. transfers'[t] = [AbsentTransfer EXCEPT !.status = "draft", !.src = src, !.dst = dst]
      BY <1>1, <2>1 DEF Create
    <3>2. transfers'[t].status = "draft" /\ transfers[t].status = "absent"
      BY <1>1, <2>1, <3>1 DEF Create, TransferRow
    <3>3. items'[t] = [p \in Parts |-> [NoItem EXCEPT !.req = req[p]]]
      BY <1>1, <2>1 DEF Create
    <3>4. \A p \in Parts : /\ items'[t][p].req = req[p]
                           /\ items'[t][p].sent = 0 /\ items'[t][p].rcvd = 0
      BY <3>3 DEF NoItem
    <3>5. \E p \in Parts : req[p] > 0
      BY <2>1 DEF Create
    <3> QED BY <3>2, <3>4, <3>5 DEF Stands, Progress, Lifecycle
  <2>2. CASE Destroy(t)
    <3>1. /\ transfers'[t] = AbsentTransfer /\ transfers[t].status \in {"draft", "rejected"}
          /\ items'[t] = [p \in Parts |-> NoItem]
      BY <1>1, <2>2 DEF Destroy
    <3>2. transfers'[t].status = "absent"
      BY <3>1 DEF AbsentTransfer
    <3>3. \A p \in Parts : items'[t][p].sent = 0 /\ items'[t][p].rcvd = 0
      BY <3>1 DEF NoItem
    <3> QED BY <3>1, <3>2, <3>3 DEF Stands, Progress, Lifecycle
  <2> QED BY <2>1, <2>2
<1>4. ASSUME NEW w \in Workers PROVE Held(w)'
  <2>1. request' = request /\ Held(w) /\ request[w].t \in Transfers
    BY <1>1 DEF ApartInv, Create, Destroy, Request
  <2>2. request[w].stage = "idle" \/ request[w].t # t
    BY DEF Create, Destroy
  <2>3. CASE request[w].stage = "idle"
    BY <2>1, <2>3 DEF Held
  <2>4. CASE request[w].t # t
    BY <1>2, <2>1, <2>4 DEF Held, LinesHeld
  <2> QED BY <2>2, <2>3, <2>4
<1> QED BY <1>2, <1>3, <1>4, OneTransfer

(* Steps that touch no transfer.                                            *)
LEMMA StockStep ==
  ASSUME ApartInv, TypeOK', NEW w \in Workers, NEW kind, NEW s, NEW q, NEW n,
         \/ ReadMove(w, kind, s, q) \/ CommitMove(w) \/ Allocate(w, s, q)
         \/ ReadPatch(w, s) \/ CommitPatch(w, s, n) \/ Abort(w)
  PROVE  ApartInv' /\ \A z \in Transfers : Progress(z)
<1>1. UNCHANGED <<transfers, items, approvals>>
  BY DEF ReadMove, CommitMove, Allocate, ReadPatch, CommitPatch, Abort
<1>2. request \in [Workers -> Request] /\ TypeOK /\ \A v \in Workers : Held(v)
  BY DEF ApartInv, TypeOK
<1>3. \A v \in Workers : Held(v)'
  <2>1. CASE CommitMove(w) \/ CommitPatch(w, s, n) \/ Abort(w)
    BY <1>1, <2>1, IdleHeld DEF CommitMove, CommitPatch, Abort
  <2>2. CASE Allocate(w, s, q)
    <3>1. request' = request
      BY <2>2 DEF Allocate
    <3> QED BY <1>1, <1>2, <3>1 DEF Held, LinesHeld
  <2>3. CASE ReadMove(w, kind, s, q)
    <3>1. /\ request'[w].stage = "read" /\ request'[w].op = kind
          /\ \A v \in Workers : v # w => request'[v] = request[v]
      BY <1>2, <2>3 DEF ReadMove, Idle
    <3>2. kind \in Kinds
      BY <2>3, SetsAssumption DEF ReadMove
    <3> QED BY <1>1, <3>1, <3>2, MoveHeld
  <2>4. CASE ReadPatch(w, s)
    <3>1. /\ request'[w].stage = "read" /\ request'[w].op = "patch"
          /\ \A v \in Workers : v # w => request'[v] = request[v]
      BY <1>2, <2>4 DEF ReadPatch, Idle
    <3> QED BY <1>1, <3>1, MoveHeld
  <2> QED BY <2>1, <2>2, <2>3, <2>4
<1> QED BY <1>1, <1>3, NoTransfer

LEMMA ApartNext ==
  ApartInv /\ TransfersApart /\ [Next]_vars => ApartInv' /\ \A z \in Transfers : Progress(z)
<1> SUFFICES ASSUME ApartInv, TransfersApart, [Next]_vars
             PROVE  ApartInv' /\ \A z \in Transfers : Progress(z)
  OBVIOUS
<1>0. TypeOK'
  BY TypeNext DEF ApartInv
<1> DEFINE Good == ApartInv' /\ \A z \in Transfers : Progress(z)
<1>1. ASSUME NEW w \in Workers, NEW kind, NEW s, NEW q, NEW n,
             \/ ReadMove(w, kind, s, q) \/ CommitMove(w) \/ Allocate(w, s, q)
             \/ ReadPatch(w, s) \/ CommitPatch(w, s, n) \/ Abort(w)
      PROVE  Good
  BY <1>0, <1>1, StockStep
<1>2. ASSUME NEW w \in Workers, NEW u \in Users, NEW t \in Transfers,
             NEW op \in TransferOps, NEW chosen \in SUBSET Users,
             NEW got \in [Parts -> Quantity], Load(w, u, t, op, chosen, got)
      PROVE  Good
  BY <1>0, <1>2, LoadStep
<1>3. ASSUME NEW w \in Workers, SubmitHeader(w) PROVE Good
  BY <1>0, <1>3, SubmitHeaderStep
<1>4. ASSUME NEW w \in Workers, SubmitApprovers(w) \/ RejectApprovals(w) PROVE Good
  BY <1>0, <1>4, ApprovalsStep
<1>5. ASSUME NEW w \in Workers, RejectHeader(w) PROVE Good
  BY <1>0, <1>5, RejectHeaderStep
<1>6. ASSUME NEW w \in Workers, ReadRows(w) PROVE Good
  BY <1>0, <1>6, ReadRowsStep
<1>7. ASSUME NEW w \in Workers, CommitApprove(w) PROVE Good
  BY <1>0, <1>7, ApproveStep
<1>8. ASSUME NEW w \in Workers, CommitShip(w) PROVE Good
  BY <1>0, <1>8, ShipStep
<1>9. ASSUME NEW w \in Workers, CommitReceive(w) PROVE Good
  BY <1>0, <1>9, ReceiveStep
<1>10. ASSUME NEW w \in Workers, NEW src \in Branches, NEW dst \in Branches,
              CommitRedirect(w, src, dst)
       PROVE  Good
  BY <1>0, <1>10, RedirectStep
<1>11. ASSUME NEW t \in Transfers, NEW src, NEW dst, NEW req,
              Create(t, src, dst, req) \/ Destroy(t)
       PROVE  Good
  BY <1>0, <1>11, RowStep
<1>12. CASE UNCHANGED vars
  <2>1. \A w \in Workers : Held(w)'
    BY <1>12 DEF vars, ApartInv, Held, LinesHeld
  <2> QED BY <1>0, <1>12, <2>1, NoTransfer DEF vars
<1> SUFFICES Good
  OBVIOUS
<1>19. UNCHANGED vars => Good
  BY <1>12
<1> HIDE DEF Good
<1>13. ASSUME NEW w \in Workers, CommitMove(w) \/ Abort(w) PROVE Good
  BY <1>1, <1>13
<1>14. ASSUME NEW w \in Workers, NEW kind \in MoveKinds, NEW s \in Sku,
              NEW q \in -MaxQty .. MaxQty, ReadMove(w, kind, s, q)
       PROVE  Good
  BY <1>1, <1>14
<1>15. ASSUME NEW w \in Workers, NEW s \in Sku, NEW q \in Quantity,
              Allocate(w, s, q) \/ ReadPatch(w, s) \/ CommitPatch(w, s, q)
       PROVE  Good
  BY <1>1, <1>15
<1>16. ASSUME NEW w \in Workers, NEW s \in Sku, ReadPatch(w, s) PROVE Good
  BY <1>1, <1>16
<1>17. ASSUME NEW t \in Transfers, Destroy(t) PROVE Good
  BY <1>11, <1>17
<1>18. ASSUME NEW t \in Transfers, NEW src \in Branches, NEW dst \in Branches,
              NEW req \in [Parts -> Quantity], Create(t, src, dst, req)
       PROVE  Good
  BY <1>11, <1>18
<1> QED
  BY <1>13, <1>14, <1>15, <1>16, <1>17, <1>18, <1>2, <1>3, <1>4, <1>5, <1>6, <1>7, <1>8, <1>9, <1>10, <1>19 DEF Next

LEMMA ApartAlways == Spec /\ []TransfersApart => []ApartInv
<1>1. ApartInv /\ TransfersApart /\ [Next]_vars => ApartInv'
  BY ApartNext
<1> QED BY <1>1, ApartInit, PTL DEF Spec

(* When no two requests hold one transfer, a transfer in transit has goods  *)
(* outstanding: receive_transfer closes it with the last of them.           *)
THEOREM LastReceiptCloses == Spec /\ []TransfersApart => []FullyReceivedIsClosed
<1>1. ApartInv => FullyReceivedIsClosed
  BY DEF ApartInv, Stands, FullyReceivedIsClosed
<1> QED BY <1>1, ApartAlways, PTL

(* Under the same condition a transfer is approved, and its goods leave,    *)
(* only when no selected approver is still to decide (approve_transfer).    *)
THEOREM AllDecidedBeforeShipping == Spec /\ []TransfersApart => []DecidedBeforeShipping
<1>1. ApartInv => DecidedBeforeShipping
  BY DEF ApartInv, Stands, DecidedBeforeShipping
<1> QED BY <1>1, ApartAlways, PTL

(* Under the same condition the status of a transfer moves only along its   *)
(* lifecycle; nothing rejected, shipped or received is taken up again.      *)
THEOREM TransfersProgress == Spec /\ []TransfersApart => StatusProgress
<1>1. ApartInv /\ TransfersApart /\ [Next]_vars =>
        [\A t \in Transfers :
           transfers'[t].status # transfers[t].status =>
             <<transfers[t].status, transfers'[t].status>> \in Lifecycle]_vars
  BY ApartNext DEF Progress
<1> QED BY <1>1, ApartAlways, PTL DEF Spec, StatusProgress
-----------------------------------------------------------------------------
(* The transfer ledger.  A step rewrites one transfer, so the sums over the *)
(* transfer items change by what that transfer contributed (SumChange).     *)

Arrived(b, p) ==
  SumOver([t \in Transfers |-> items[t][p].rcvd], {t \in Transfers : transfers[t].dst = b})
Shipped(b, p) ==
  SumOver([t \in Transfers |-> items[t][p].sent], {t \in Transfers : transfers[t].src = b})

LEMMA SumOverIsSum == \A f, S : SumOver(f, S) = Sum(f, S)
BY DEF SumOver, Sum

LEMMA OneTransferSums ==
  ASSUME TypeOK, TypeOK', IsFiniteSet(Transfers), NEW t \in Transfers,
         \A z \in Transfers : z # t => transfers'[z] = transfers[z] /\ items'[z] = items[z],
         NEW b \in Branches, NEW p \in Parts
  PROVE  /\ Arrived(b, p)' = Arrived(b, p)
                - (IF transfers[t].dst = b THEN items[t][p].rcvd ELSE 0)
                + (IF transfers'[t].dst = b THEN items'[t][p].rcvd ELSE 0)
         /\ Shipped(b, p)' = Shipped(b, p)
                - (IF transfers[t].src = b THEN items[t][p].sent ELSE 0)
                + (IF transfers'[t].src = b THEN items'[t][p].sent ELSE 0)
         /\ Arrived(b, p) \in Int /\ Shipped(b, p) \in Int
<1> DEFINE f == [z \in Transfers |-> items[z][p].rcvd]
           g == [z \in Transfers |-> items'[z][p].rcvd]
           h == [z \in Transfers |-> items[z][p].sent]
           k == [z \in Transfers |-> items'[z][p].sent]
           T == {z \in Transfers : transfers[z].dst = b}
           U == {z \in Transfers : transfers'[z].dst = b}
           V == {z \in Transfers : transfers[z].src = b}
           W == {z \in Transfers : transfers'[z].src = b}
<1>1. \A z \in Transfers : items[z][p] \in ItemRow /\ items'[z][p] \in ItemRow
  BY DEF TypeOK
<1>2. \A z \in Transfers : /\ f[z] \in Int /\ g[z] \in Int /\ h[z] \in Int /\ k[z] \in Int
                           /\ z # t => f[z] = g[z] /\ h[z] = k[z]
  BY <1>1 DEF ItemRow
<1>3. T \ {t} = U \ {t} /\ V \ {t} = W \ {t}
  OBVIOUS
<1>4. /\ Arrived(b, p) = Sum(f, T) /\ Arrived(b, p)' = Sum(g, U)
      /\ Shipped(b, p) = Sum(h, V) /\ Shipped(b, p)' = Sum(k, W)
  BY SumOverIsSum DEF Arrived, Shipped
<1>5. /\ f[t] = items[t][p].rcvd /\ g[t] = items'[t][p].rcvd
      /\ h[t] = items[t][p].sent /\ k[t] = items'[t][p].sent
  OBVIOUS
<1>6. /\ t \in T <=> transfers[t].dst = b
      /\ t \in U <=> transfers'[t].dst = b
      /\ t \in V <=> transfers[t].src = b
      /\ t \in W <=> transfers'[t].src = b
  OBVIOUS
<1>7. T \in SUBSET Transfers /\ U \in SUBSET Transfers /\ V \in SUBSET Transfers
      /\ W \in SUBSET Transfers
  OBVIOUS
<1> HIDE DEF f, g, h, k, T, U, V, W
<1>8. Sum(g, U) = Sum(f, T) - (IF t \in T THEN f[t] ELSE 0) + (IF t \in U THEN g[t] ELSE 0)
  BY <1>2, <1>3, <1>7, SumChange
<1>9. Sum(k, W) = Sum(h, V) - (IF t \in V THEN h[t] ELSE 0) + (IF t \in W THEN k[t] ELSE 0)
  BY <1>2, <1>3, <1>7, SumChange
<1>10. Sum(f, T) \in Int /\ Sum(h, V) \in Int
  BY <1>2, <1>7, SumInt
<1> QED BY <1>4, <1>5, <1>6, <1>8, <1>9, <1>10

LEMMA ShipPosts ==
  ASSUME ApartInv, NEW w \in Workers, CommitShip(w), NEW b \in Branches, NEW p \in Parts
  PROVE  LET t == request[w].t IN
         /\ moved[<<b, p>>] \in Int /\ items[t][p].req \in Int
         /\ moved'[<<b, p>>] =
              moved[<<b, p>>] - (IF b = transfers[t].src THEN items[t][p].req ELSE 0)
<1> DEFINE r == request[w]
           t == r.t
<1>1. r \in Request /\ Held(w) /\ t \in Transfers /\ items \in [Transfers -> [Parts -> ItemRow]]
      /\ moved \in [Sku -> Int] /\ <<b, p>> \in Sku
  BY DEF ApartInv, TypeOK, Request, Sku
<1>2. r.row = transfers[t] /\ r.its = items[t] /\ LinesHeld(r) /\ r.op = "ship"
  BY <1>1 DEF CommitShip, Held, TransferOps
<1>3. r.lines[<<b, p>>] = IF b = transfers[t].src THEN items[t][p].req ELSE 0
  BY <1>1, <1>2 DEF LinesHeld
<1>4. moved'[<<b, p>>] = moved[<<b, p>>] + Posted("transfer_out", r.lines[<<b, p>>])
  BY <1>1 DEF CommitShip, Post
<1>5. items[t][p].req \in Int /\ moved[<<b, p>>] \in Int
  BY <1>1 DEF ItemRow
<1>6. Posted("transfer_out", r.lines[<<b, p>>]) = -(r.lines[<<b, p>>])
  BY DEF Posted
<1> HIDE DEF r, t
<1> QED BY <1>3, <1>4, <1>5, <1>6 DEF r, t

LEMMA ReceivePosts ==
  ASSUME ApartInv, NEW w \in Workers, CommitReceive(w), NEW b \in Branches, NEW p \in Parts
  PROVE  LET r == request[w] IN
         /\ moved[<<b, p>>] \in Int /\ r.lines[<<r.row.dst, p>>] \in Int
         /\ moved'[<<b, p>>] = moved[<<b, p>>] +
              (IF b = transfers[r.t].dst THEN r.lines[<<r.row.dst, p>>] ELSE 0)
<1> DEFINE r == request[w]
           t == r.t
<1>1. r \in Request /\ Held(w) /\ t \in Transfers /\ r.row \in TransferRow
      /\ moved \in [Sku -> Int] /\ <<b, p>> \in Sku
  BY DEF ApartInv, TypeOK, Request, Sku
<1>2. r.row = transfers[t] /\ LinesHeld(r) /\ r.op = "receive" /\ <<r.row.dst, p>> \in Sku
  BY <1>1 DEF CommitReceive, Held, TransferOps, TransferRow, Sku
<1>3. r.lines[<<b, p>>] = IF b = transfers[t].dst THEN r.lines[<<r.row.dst, p>>] ELSE 0
  BY <1>1, <1>2 DEF LinesHeld
<1>4. moved'[<<b, p>>] = moved[<<b, p>>] + Posted("transfer_in", r.lines[<<b, p>>])
  BY <1>1 DEF CommitReceive, Post
<1>5. r.lines[<<r.row.dst, p>>] \in Int /\ moved[<<b, p>>] \in Int
  BY <1>1, <1>2 DEF Request
<1>6. Posted("transfer_in", r.lines[<<b, p>>]) = r.lines[<<b, p>>]
  BY DEF Posted
<1> HIDE DEF r, t
<1> QED BY <1>3, <1>4, <1>5, <1>6 DEF r, t

(* Creating and deleting a transfer, whose items are all at zero, moves no  *)
(* goods, and the other operations leave the items and the ledger alone.    *)
LEMMA RowGoods ==
  ASSUME ApartInv, NEW t \in Transfers, NEW src, NEW dst, NEW req,
         Create(t, src, dst, req) \/ Destroy(t)
  PROVE  /\ moved' = moved
         /\ \A z \in Transfers : z # t => transfers'[z] = transfers[z] /\ items'[z] = items[z]
         /\ \A p \in Parts : /\ items[t][p].sent = 0 /\ items[t][p].rcvd = 0
                             /\ items'[t][p].sent = 0 /\ items'[t][p].rcvd = 0
<1>1. /\ transfers \in [Transfers -> TransferRow]
      /\ items \in [Transfers -> [Parts -> ItemRow]]
      /\ Stands(transfers[t], items[t], approvals[t])
  BY DEF ApartInv, TypeOK
<1>2. transfers[t].status \in Unshipped
  BY DEF Create, Destroy, Unshipped
<1>3. \A p \in Parts : items'[t][p].sent = 0 /\ items'[t][p].rcvd = 0
  <2>1. CASE Create(t, src, dst, req)
    <3>1. items'[t] = [p \in Parts |-> [NoItem EXCEPT !.req = req[p]]]
      BY <1>1, <2>1 DEF Create
    <3> QED BY <3>1 DEF NoItem
  <2>2. CASE Destroy(t)
    <3>1. items'[t] = [p \in Parts |-> NoItem]
      BY <1>1, <2>2 DEF Destroy
    <3> QED BY <3>1 DEF NoItem
  <2> QED BY <2>1, <2>2
<1> QED BY <1>1, <1>2, <1>3 DEF Create, Destroy, Stands

LEMMA NoGoodsMoved ==
  ASSUME ApartInv, [Next]_vars,
         ~ \E w \in Workers : CommitShip(w) \/ CommitReceive(w)
  PROVE  moved' = moved
<1>1. ASSUME NEW t \in Transfers, NEW src, NEW dst, NEW req,
             Create(t, src, dst, req) \/ Destroy(t)
      PROVE  moved' = moved
  BY <1>1 DEF Create, Destroy
<1>2. CASE UNCHANGED vars
  BY <1>2 DEF vars
<1>3. ASSUME NEW w \in Workers,
             \/ CommitMove(w) \/ Abort(w) \/ SubmitHeader(w) \/ SubmitApprovers(w)
             \/ RejectApprovals(w) \/ RejectHeader(w) \/ ReadRows(w) \/ CommitApprove(w)
      PROVE  moved' = moved
  BY <1>3 DEF CommitMove, Abort, SubmitHeader, SubmitApprovers, RejectApprovals,
     RejectHeader, ReadRows, CommitApprove
<1>4. ASSUME NEW w \in Workers, NEW kind \in MoveKinds, NEW s \in Sku,
             NEW q \in -MaxQty .. MaxQty, ReadMove(w, kind, s, q)
      PROVE  moved' = moved
  BY <1>4 DEF ReadMove
<1>5. ASSUME NEW w \in Workers, NEW s \in Sku, NEW q \in Quantity,
             Allocate(w, s, q) \/ CommitPatch(w, s, q)
      PROVE  moved' = moved
  BY <1>5 DEF Allocate, CommitPatch
<1>6. ASSUME NEW w \in Workers, NEW s \in Sku, ReadPatch(w, s) PROVE moved' = moved
  BY <1>6 DEF ReadPatch
<1>7. ASSUME NEW w \in Workers, NEW u \in Users, NEW t \in Transfers,
             NEW op \in TransferOps, NEW chosen \in SUBSET Users,
             NEW got \in [Parts -> Quantity], Load(w, u, t, op, chosen, got)
      PROVE  moved' = moved
  BY <1>7 DEF Load
<1>8. ASSUME NEW w \in Workers, NEW src \in Branches, NEW dst \in Branches,
             CommitRedirect(w, src, dst)
      PROVE  moved' = moved
  BY <1>8 DEF CommitRedirect
<1>9. ASSUME NEW t \in Transfers, Destroy(t) PROVE moved' = moved
  BY <1>9 DEF Destroy
<1> QED BY <1>1, <1>2, <1>3, <1>4, <1>5, <1>6, <1>7, <1>8, <1>9 DEF Next

LEMMA NoRowGoods ==
  ASSUME [Next]_vars,
         ~ \E w \in Workers : CommitShip(w) \/ CommitReceive(w),
         ~ \E t \in Transfers, src, dst \in Branches, req \in [Parts -> Quantity] :
             Create(t, src, dst, req),
         ~ \E t \in Transfers : Destroy(t)
  PROVE  items' = items
<1>1. CASE UNCHANGED vars
  BY <1>1 DEF vars
<1>2. ASSUME NEW w \in Workers,
             \/ CommitMove(w) \/ Abort(w) \/ SubmitHeader(w) \/ SubmitApprovers(w)
             \/ RejectApprovals(w) \/ RejectHeader(w) \/ ReadRows(w) \/ CommitApprove(w)
      PROVE  items' = items
  BY <1>2 DEF CommitMove, Abort, SubmitHeader, SubmitApprovers, RejectApprovals,
     RejectHeader, ReadRows, CommitApprove
<1>3. ASSUME NEW w \in Workers, NEW kind \in MoveKinds, NEW s \in Sku,
             NEW q \in -MaxQty .. MaxQty, ReadMove(w, kind, s, q)
      PROVE  items' = items
  BY <1>3 DEF ReadMove
<1>4. ASSUME NEW w \in Workers, NEW s \in Sku, NEW q \in Quantity,
             Allocate(w, s, q) \/ CommitPatch(w, s, q)
      PROVE  items' = items
  BY <1>4 DEF Allocate, CommitPatch
<1>5. ASSUME NEW w \in Workers, NEW s \in Sku, ReadPatch(w, s) PROVE items' = items
  BY <1>5 DEF ReadPatch
<1>6. ASSUME NEW w \in Workers, NEW u \in Users, NEW t \in Transfers,
             NEW op \in TransferOps, NEW chosen \in SUBSET Users,
             NEW got \in [Parts -> Quantity], Load(w, u, t, op, chosen, got)
      PROVE  items' = items
  BY <1>6 DEF Load
<1>7. ASSUME NEW w \in Workers, NEW src \in Branches, NEW dst \in Branches,
             CommitRedirect(w, src, dst)
      PROVE  items' = items
  BY <1>7 DEF CommitRedirect
<1> QED BY <1>1, <1>2, <1>3, <1>4, <1>5, <1>6, <1>7 DEF Next

(* Without the PATCH of a header the branches of a transfer never change    *)
(* while its items stand.                                                   *)
LEMMA BranchesKept ==
  ASSUME ApartInv, [Next]_vars, items' = items, "transfer" \notin DirectEdits,
         ~ \E w \in Workers : CommitShip(w) \/ CommitReceive(w),
         ~ \E t \in Transfers, src, dst \in Branches, req \in [Parts -> Quantity] :
             Create(t, src, dst, req),
         ~ \E t \in Transfers : Destroy(t)
  PROVE  \A t \in Transfers :
           transfers'[t].src = transfers[t].src /\ transfers'[t].dst = transfers[t].dst
<1> DEFINE Same == \A t \in Transfers :
             transfers'[t].src = transfers[t].src /\ transfers'[t].dst = transfers[t].dst
<1>0. /\ request \in [Workers -> Request] /\ transfers \in [Transfers -> TransferRow]
      /\ \A w \in Workers : Held(w)
  BY DEF ApartInv, TypeOK
<1>1. ASSUME NEW w \in Workers, NEW row, SaveHeader(w, row),
             row.src = request[w].row.src, row.dst = request[w].row.dst,
             request[w].row = transfers[request[w].t]
      PROVE  Same
  BY <1>0, <1>1 DEF SaveHeader
<1>2. ASSUME NEW w \in Workers, SubmitHeader(w) PROVE Same
  <2> DEFINE row == [request[w].row EXCEPT !.status = "pending_approval",
                                           !.submitter = request[w].user]
  <2>1. request[w].row \in TransferRow /\ SaveHeader(w, row)
    BY <1>0, <1>2 DEF Request, SubmitHeader
  <2>2. row.src = request[w].row.src /\ row.dst = request[w].row.dst
    BY <2>1 DEF TransferRow
  <2>3. request[w].row = transfers[request[w].t]
    BY <1>0, <1>2 DEF SubmitHeader, Held, TransferOps
  <2> HIDE DEF row, Same
  <2> QED BY <1>1, <2>1, <2>2, <2>3
<1>3. ASSUME NEW w \in Workers, RejectHeader(w) PROVE Same
  <2> DEFINE row == [request[w].row EXCEPT !.status = "rejected"]
  <2>1. request[w].row \in TransferRow /\ SaveHeader(w, row)
    BY <1>0, <1>3 DEF Request, RejectHeader
  <2>2. row.src = request[w].row.src /\ row.dst = request[w].row.dst
    BY <2>1 DEF TransferRow
  <2>3. request[w].row = transfers[request[w].t]
    BY <1>0, <1>3 DEF RejectHeader, Held, TransferOps
  <2> HIDE DEF row, Same
  <2> QED BY <1>1, <2>1, <2>2, <2>3
<1>4. ASSUME NEW w \in Workers, CommitApprove(w) PROVE Same
  <2> DEFINE row == [request[w].row EXCEPT !.status = "approved", !.approver = request[w].user]
  <2>1. request[w].row \in TransferRow /\ (UNCHANGED transfers \/ SaveHeader(w, row))
    BY <1>0, <1>4 DEF Request, CommitApprove
  <2>2. row.src = request[w].row.src /\ row.dst = request[w].row.dst
    BY <2>1 DEF TransferRow
  <2>3. request[w].row = transfers[request[w].t]
    BY <1>0, <1>4 DEF CommitApprove, Held, TransferOps
  <2>4. CASE UNCHANGED transfers
    BY <2>4
  <2> HIDE DEF row, Same
  <2> QED BY <1>1, <2>1, <2>2, <2>3, <2>4
<1>5. ASSUME NEW w \in Workers, NEW src, NEW dst, CommitRedirect(w, src, dst) PROVE FALSE
  BY <1>5, <1>0 DEF CommitRedirect, Held, TransferOps
<1>6. ASSUME NEW w \in Workers, NEW kind \in MoveKinds, NEW s \in Sku,
             NEW q \in -MaxQty .. MaxQty, ReadMove(w, kind, s, q)
      PROVE  Same
  BY <1>6 DEF ReadMove
<1>8. ASSUME NEW w \in Workers, NEW s \in Sku, NEW q \in Quantity,
             Allocate(w, s, q) \/ CommitPatch(w, s, q)
      PROVE  Same
  BY <1>8 DEF Allocate, CommitPatch
<1>9. ASSUME NEW w \in Workers, NEW s \in Sku, ReadPatch(w, s) PROVE Same
  BY <1>9 DEF ReadPatch
<1>10. ASSUME NEW w \in Workers, NEW u \in Users, NEW t \in Transfers,
              NEW op \in TransferOps, NEW chosen \in SUBSET Users,
              NEW got \in [Parts -> Quantity], Load(w, u, t, op, chosen, got)
       PROVE  Same
  BY <1>10 DEF Load
<1>11. ASSUME NEW w \in Workers,
              \/ CommitMove(w) \/ Abort(w) \/ SubmitApprovers(w)
              \/ RejectApprovals(w) \/ ReadRows(w)
       PROVE  Same
  BY <1>11 DEF CommitMove, Abort, SubmitApprovers, RejectApprovals, ReadRows
<1>7. CASE UNCHANGED vars
  BY <1>7 DEF vars
<1> SUFFICES Same
  OBVIOUS
<1>12. UNCHANGED vars => Same
  BY <1>7
<1> HIDE DEF Same
<1> QED BY <1>2, <1>3, <1>4, <1>5, <1>6, <1>12, <1>8, <1>9, <1>10, <1>11 DEF Next

LEMMA TransferLedgerNext ==
  ASSUME IsFiniteSet(Transfers), "transfer" \notin DirectEdits
  PROVE  ApartInv /\ TransferLedgerMatchesItems /\ [Next]_vars => TransferLedgerMatchesItems'
<1> SUFFICES ASSUME ApartInv, TransferLedgerMatchesItems, [Next]_vars
             PROVE  TransferLedgerMatchesItems'
  OBVIOUS
<1>0. TypeOK /\ TypeOK'
  BY TypeNext DEF ApartInv
<1>1. \A b \in Branches, p \in Parts : moved[<<b, p>>] = Arrived(b, p) - Shipped(b, p)
  BY DEF TransferLedgerMatchesItems, Arrived, Shipped
<1>t. /\ items \in [Transfers -> [Parts -> ItemRow]] /\ items' \in [Transfers -> [Parts -> ItemRow]]
      /\ transfers \in [Transfers -> TransferRow]
  BY <1>0 DEF TypeOK
<1>2. ASSUME NEW w \in Workers, CommitShip(w), NEW b \in Branches, NEW p \in Parts
      PROVE  moved'[<<b, p>>] = Arrived(b, p)' - Shipped(b, p)'
  <2> DEFINE t == request[w].t
  <2>1. /\ t \in Transfers
        /\ transfers'[t] = [transfers[t] EXCEPT !.status = "in_transit"]
        /\ \A z \in Transfers : z # t => transfers'[z] = transfers[z] /\ items'[z] = items[z]
        /\ items[t][p].sent = 0 /\ items[t][p].rcvd = 0
        /\ items'[t][p].sent = items[t][p].req /\ items'[t][p].rcvd = 0
    BY <1>2, ShipWrites
  <2>2. transfers'[t].src = transfers[t].src /\ transfers'[t].dst = transfers[t].dst
    BY <1>t, <2>1 DEF TransferRow
  <2>3. /\ moved[<<b, p>>] \in Int /\ items[t][p].req \in Int
        /\ moved'[<<b, p>>] =
             moved[<<b, p>>] - (IF b = transfers[t].src THEN items[t][p].req ELSE 0)
    BY <1>2, ShipPosts
  <2> HIDE DEF t
  <2>4. /\ Arrived(b, p)' = Arrived(b, p)
                - (IF transfers[t].dst = b THEN items[t][p].rcvd ELSE 0)
                + (IF transfers'[t].dst = b THEN items'[t][p].rcvd ELSE 0)
        /\ Shipped(b, p)' = Shipped(b, p)
                - (IF transfers[t].src = b THEN items[t][p].sent ELSE 0)
                + (IF transfers'[t].src = b THEN items'[t][p].sent ELSE 0)
        /\ Arrived(b, p) \in Int /\ Shipped(b, p) \in Int
    BY <1>0, <2>1, OneTransferSums
  <2>5. Arrived(b, p)' = Arrived(b, p)
    BY <2>1, <2>4
  <2>6. Shipped(b, p)' = Shipped(b, p) + (IF b = transfers[t].src THEN items[t][p].req ELSE 0)
    BY <2>1, <2>2, <2>3, <2>4
  <2> QED BY <1>1, <2>3, <2>4, <2>5, <2>6
<1>3. ASSUME NEW w \in Workers, CommitReceive(w), NEW b \in Branches, NEW p \in Parts
      PROVE  moved'[<<b, p>>] = Arrived(b, p)' - Shipped(b, p)'
  <2> DEFINE t == request[w].t
             n == request[w].lines[<<request[w].row.dst, p>>]
  <2>1. /\ t \in Transfers
        /\ \/ transfers'[t] = [transfers[t] EXCEPT !.status = "received"]
           \/ transfers'[t] = transfers[t]
        /\ \A z \in Transfers : z # t => transfers'[z] = transfers[z] /\ items'[z] = items[z]
        /\ items'[t][p].sent = items[t][p].sent /\ items'[t][p].rcvd = items[t][p].rcvd + n
    BY <1>3, ReceiveWrites
  <2>2. transfers'[t].src = transfers[t].src /\ transfers'[t].dst = transfers[t].dst
    BY <1>t, <2>1 DEF TransferRow
  <2>3. /\ moved[<<b, p>>] \in Int /\ n \in Int
        /\ moved'[<<b, p>>] = moved[<<b, p>>] + (IF b = transfers[t].dst THEN n ELSE 0)
    BY <1>3, ReceivePosts
  <2>r. items[t][p].rcvd \in Int /\ items[t][p].sent \in Int
    BY <1>t, <2>1 DEF ItemRow
  <2> HIDE DEF t, n
  <2>4. /\ Arrived(b, p)' = Arrived(b, p)
                - (IF transfers[t].dst = b THEN items[t][p].rcvd ELSE 0)
                + (IF transfers'[t].dst = b THEN items'[t][p].rcvd ELSE 0)
        /\ Shipped(b, p)' = Shipped(b, p)
                - (IF transfers[t].src = b THEN items[t][p].sent ELSE 0)
                + (IF transfers'[t].src = b THEN items'[t][p].sent ELSE 0)
        /\ Arrived(b, p) \in Int /\ Shipped(b, p) \in Int
    BY <1>0, <2>1, OneTransferSums
  <2>5. Arrived(b, p)' = Arrived(b, p) + (IF b = transfers[t].dst THEN n ELSE 0)
    BY <2>1, <2>2, <2>3, <2>4, <2>r
  <2>6. Shipped(b, p)' = Shipped(b, p)
    BY <2>1, <2>2, <2>4, <2>r
  <2> QED BY <1>1, <2>3, <2>4, <2>5, <2>6
<1>4. ASSUME ~ \E w \in Workers : CommitShip(w) \/ CommitReceive(w),
             NEW b \in Branches, NEW p \in Parts
      PROVE  moved'[<<b, p>>] = Arrived(b, p)' - Shipped(b, p)'
  <2>1. moved' = moved
    BY <1>4, NoGoodsMoved
  <2>2. ASSUME NEW t \in Transfers,
               \A z \in Transfers : z # t => transfers'[z] = transfers[z] /\ items'[z] = items[z],
               items[t][p].sent = 0, items[t][p].rcvd = 0,
               items'[t][p].sent = 0, items'[t][p].rcvd = 0
        PROVE  Arrived(b, p)' = Arrived(b, p) /\ Shipped(b, p)' = Shipped(b, p)
    <3>1. /\ Arrived(b, p)' = Arrived(b, p)
                - (IF transfers[t].dst = b THEN items[t][p].rcvd ELSE 0)
                + (IF transfers'[t].dst = b THEN items'[t][p].rcvd ELSE 0)
          /\ Shipped(b, p)' = Shipped(b, p)
                - (IF transfers[t].src = b THEN items[t][p].sent ELSE 0)
                + (IF transfers'[t].src = b THEN items'[t][p].sent ELSE 0)
          /\ Arrived(b, p) \in Int /\ Shipped(b, p) \in Int
      BY <1>0, <2>2, OneTransferSums
    <3> QED BY <2>2, <3>1
  <2>3. ASSUME items' = items,
               \A t \in Transfers : /\ transfers'[t].src = transfers[t].src
                                    /\ transfers'[t].dst = transfers[t].dst
        PROVE  Arrived(b, p)' = Arrived(b, p) /\ Shipped(b, p)' = Shipped(b, p)
    <3>1. /\ {t \in Transfers : transfers'[t].dst = b} = {t \in Transfers : transfers[t].dst = b}
          /\ {t \in Transfers : transfers'[t].src = b} = {t \in Transfers : transfers[t].src = b}
      BY <2>3
    <3> QED BY <2>3, <3>1 DEF Arrived, Shipped
  <2>4. ASSUME NEW t \in Transfers, NEW src, NEW dst, NEW req,
               Create(t, src, dst, req) \/ Destroy(t)
        PROVE  Arrived(b, p)' = Arrived(b, p) /\ Shipped(b, p)' = Shipped(b, p)
    <3>1. /\ \A z \in Transfers : z # t => transfers'[z] = transfers[z] /\ items'[z] = items[z]
          /\ items[t][p].sent = 0 /\ items[t][p].rcvd = 0
          /\ items'[t][p].sent = 0 /\ items'[t][p].rcvd = 0
      BY <2>4, RowGoods
    <3> QED BY <2>2, <3>1
  <2>5. ASSUME ~ \E t \in Transfers, src, dst \in Branches, req \in [Parts -> Quantity] :
                   Create(t, src, dst, req),
               ~ \E t \in Transfers : Destroy(t)
        PROVE  Arrived(b, p)' = Arrived(b, p) /\ Shipped(b, p)' = Shipped(b, p)
    <3>1. items' = items
      BY <1>4, <2>5, NoRowGoods
    <3>2. \A t \in Transfers : /\ transfers'[t].src = transfers[t].src
                               /\ transfers'[t].dst = transfers[t].dst
      BY <1>4, <2>5, <3>1, BranchesKept
    <3> QED BY <2>3, <3>1, <3>2
  <2>6. Arrived(b, p)' = Arrived(b, p) /\ Shipped(b, p)' = Shipped(b, p)
    <3>1. ASSUME NEW t \in Transfers, NEW src \in Branches, NEW dst \in Branches,
                 NEW req \in [Parts -> Quantity], Create(t, src, dst, req)
          PROVE  Arrived(b, p)' = Arrived(b, p) /\ Shipped(b, p)' = Shipped(b, p)
      BY <2>4, <3>1
    <3>2. ASSUME NEW t \in Transfers, Destroy(t)
          PROVE  Arrived(b, p)' = Arrived(b, p) /\ Shipped(b, p)' = Shipped(b, p)
      BY <2>4, <3>2
    <3> QED BY <2>5, <3>1, <3>2
  <2> QED BY <1>1, <2>1, <2>6
<1>5. ASSUME NEW b \in Branches, NEW p \in Parts
      PROVE  moved'[<<b, p>>] = Arrived(b, p)' - Shipped(b, p)'
  BY <1>2, <1>3, <1>4
<1> QED BY <1>5 DEF TransferLedgerMatchesItems, Arrived, Shipped

(* What transfer_out and transfer_in booked on a stock row is what the      *)
(* transfers say was received into it less what was sent from it, as long   *)
(* as no two requests hold one transfer and no header is edited under way,  *)
(* even where the requests overlap on the stock rows themselves.            *)
THEOREM TransferLedgerExact ==
  ASSUME IsFiniteSet(Transfers), "transfer" \notin DirectEdits
  PROVE  Spec /\ []TransfersApart => []TransferLedgerMatchesItems
<1>1. Init => TransferLedgerMatchesItems
  <2> SUFFICES ASSUME Init, NEW b \in Branches, NEW p \in Parts
               PROVE  moved[<<b, p>>] = Arrived(b, p) - Shipped(b, p)
    BY DEF TransferLedgerMatchesItems, Arrived, Shipped
  <2>1. moved[<<b, p>>] = 0
    BY DEF Init, Sku
  <2>2. \A t \in Transfers : items[t][p].rcvd = 0 /\ items[t][p].sent = 0
    BY DEF Init, NoItem
  <2>3. Arrived(b, p) = 0
    <3> DEFINE f == [t \in Transfers |-> items[t][p].rcvd]
               T == {t \in Transfers : transfers[t].dst = b}
    <3>1. \A t \in Transfers : f[t] = 0
      BY <2>2
    <3>2. T \in SUBSET Transfers
      OBVIOUS
    <3>3. Arrived(b, p) = Sum(f, T)
      BY SumOverIsSum DEF Arrived
    <3> HIDE DEF f, T
    <3> QED BY <3>1, <3>2, <3>3, SumZero
  <2>4. Shipped(b, p) = 0
    <3> DEFINE f == [t \in Transfers |-> items[t][p].sent]
               T == {t \in Transfers : transfers[t].src = b}
    <3>1. \A t \in Transfers : f[t] = 0
      BY <2>2
    <3>2. T \in SUBSET Transfers
      OBVIOUS
    <3>3. Shipped(b, p) = Sum(f, T)
      BY SumOverIsSum DEF Shipped
    <3> HIDE DEF f, T
    <3> QED BY <3>1, <3>2, <3>3, SumZero
  <2> QED BY <2>1, <2>3, <2>4
<1>2. ApartInv /\ TransferLedgerMatchesItems /\ [Next]_vars => TransferLedgerMatchesItems'
  BY TransferLedgerNext
<1> QED BY <1>1, <1>2, ApartAlways, PTL DEF Spec
-----------------------------------------------------------------------------
(* The goods in transit, over all branches.                                 *)

MovedOver(p) == SumOver([b \in Branches |-> moved[<<b, p>>]], Branches)
Outstanding(p) ==
  SumOver([t \in Transfers |-> items[t][p].rcvd - items[t][p].sent], Transfers)

LEMMA OneOutstanding ==
  ASSUME TypeOK, TypeOK', IsFiniteSet(Transfers), NEW t \in Transfers,
         \A z \in Transfers : z # t => items'[z] = items[z], NEW p \in Parts
  PROVE  /\ Outstanding(p)' = Outstanding(p) - (items[t][p].rcvd - items[t][p].sent)
                                             + (items'[t][p].rcvd - items'[t][p].sent)
         /\ Outstanding(p) \in Int
<1> DEFINE f == [z \in Transfers |-> items[z][p].rcvd - items[z][p].sent]
           g == [z \in Transfers |-> items'[z][p].rcvd - items'[z][p].sent]
<1>1. \A z \in Transfers : items[z][p] \in ItemRow /\ items'[z][p] \in ItemRow
  BY DEF TypeOK
<1>2. \A z \in Transfers : f[z] \in Int /\ g[z] \in Int /\ (z # t => f[z] = g[z])
  BY <1>1 DEF ItemRow
<1>3. Outstanding(p) = Sum(f, Transfers) /\ Outstanding(p)' = Sum(g, Transfers)
  BY SumOverIsSum DEF Outstanding
<1>4. /\ f[t] = items[t][p].rcvd - items[t][p].sent
      /\ g[t] = items'[t][p].rcvd - items'[t][p].sent
  OBVIOUS
<1> HIDE DEF f, g
<1>5. Sum(g, Transfers) = Sum(f, Transfers) - f[t] + g[t]
  BY <1>2, SumChange
<1>6. Sum(f, Transfers) \in Int
  BY <1>2, SumInt
<1> QED BY <1>3, <1>4, <1>5, <1>6

LEMMA OneMoved ==
  ASSUME TypeOK, TypeOK', IsFiniteSet(Branches), NEW c \in Branches, NEW p \in Parts, NEW n \in Int,
         \A b \in Branches : moved'[<<b, p>>] = moved[<<b, p>>] + (IF b = c THEN n ELSE 0)
  PROVE  MovedOver(p)' = MovedOver(p) + n /\ MovedOver(p) \in Int
<1> DEFINE f == [b \in Branches |-> moved[<<b, p>>]]
           g == [b \in Branches |-> moved'[<<b, p>>]]
<1>1. \A b \in Branches : moved[<<b, p>>] \in Int /\ moved'[<<b, p>>] \in Int
  BY DEF TypeOK, Sku
<1>2. \A b \in Branches : f[b] \in Int /\ g[b] \in Int /\ (b # c => f[b] = g[b])
  BY <1>1
<1>3. MovedOver(p) = Sum(f, Branches) /\ MovedOver(p)' = Sum(g, Branches)
  BY SumOverIsSum DEF MovedOver
<1>4. g[c] = f[c] + n
  OBVIOUS
<1> HIDE DEF f, g
<1>5. Sum(g, Branches) = Sum(f, Branches) - f[c] + g[c]
  BY <1>2, SumChange
<1>6. Sum(f, Branches) \in Int
  BY <1>2, SumInt
<1> QED BY <1>2, <1>3, <1>4, <1>5, <1>6

LEMMA GoodsNext ==
  ASSUME IsFiniteSet(Transfers), IsFiniteSet(Branches)
  PROVE  ApartInv /\ GoodsConserved /\ [Next]_vars => GoodsConserved'
<1> SUFFICES ASSUME ApartInv, GoodsConserved, [Next]_vars, NEW p \in Parts
             PROVE  MovedOver(p)' = Outstanding(p)'
  BY DEF GoodsConserved, MovedOver, Outstanding
<1>0. TypeOK /\ TypeOK'
  BY TypeNext DEF ApartInv
<1>1. MovedOver(p) = Outstanding(p)
  BY DEF GoodsConserved, MovedOver, Outstanding
<1>t. items \in [Transfers -> [Parts -> ItemRow]] /\ transfers \in [Transfers -> TransferRow]
  BY <1>0 DEF TypeOK
<1>2. ASSUME NEW w \in Workers, CommitShip(w) PROVE MovedOver(p)' = Outstanding(p)'
  <2> DEFINE t == request[w].t
             n == -items[t][p].req
             c == transfers[t].src
  <2>1. /\ t \in Transfers
        /\ \A z \in Transfers : z # t => items'[z] = items[z]
        /\ items[t][p].sent = 0 /\ items[t][p].rcvd = 0
        /\ items'[t][p].sent = items[t][p].req /\ items'[t][p].rcvd = 0
    BY <1>2, ShipWrites
  <2>2. c \in Branches /\ items[t][p].req \in Int /\ n \in Int
    BY <1>t, <2>1 DEF TransferRow, ItemRow
  <2>3. ASSUME NEW b \in Branches
        PROVE  moved'[<<b, p>>] = moved[<<b, p>>] + (IF b = c THEN n ELSE 0)
    <3>1. /\ moved[<<b, p>>] \in Int
          /\ moved'[<<b, p>>] = moved[<<b, p>>] - (IF b = c THEN items[t][p].req ELSE 0)
      BY <1>2, ShipPosts
    <3> QED BY <2>2, <3>1
  <2> HIDE DEF t, c
  <2>4. MovedOver(p)' = MovedOver(p) + n /\ MovedOver(p) \in Int
    <3> HIDE DEF n
    <3> QED BY <1>0, <2>2, <2>3, OneMoved
  <2>5. Outstanding(p)' = Outstanding(p) - (items[t][p].rcvd - items[t][p].sent)
                                         + (items'[t][p].rcvd - items'[t][p].sent)
    BY <1>0, <2>1, OneOutstanding
  <2> QED BY <1>1, <2>1, <2>2, <2>4, <2>5
<1>3. ASSUME NEW w \in Workers, CommitReceive(w) PROVE MovedOver(p)' = Outstanding(p)'
  <2> DEFINE t == request[w].t
             n == request[w].lines[<<request[w].row.dst, p>>]
             c == transfers[t].dst
  <2>1. /\ t \in Transfers
        /\ \A z \in Transfers : z # t => items'[z] = items[z]
        /\ items'[t][p].sent = items[t][p].sent /\ items'[t][p].rcvd = items[t][p].rcvd + n
    BY <1>3, ReceiveWrites
  <2>2. c \in Branches /\ items[t][p].rcvd \in Int /\ items[t][p].sent \in Int
    BY <1>t, <2>1 DEF TransferRow, ItemRow
  <2>3. /\ n \in Int
        /\ \A b \in Branches : moved'[<<b, p>>] = moved[<<b, p>>] + (IF b = c THEN n ELSE 0)
    BY <1>3, <2>2, ReceivePosts
  <2> HIDE DEF t, n, c
  <2>4. MovedOver(p)' = MovedOver(p) + n /\ MovedOver(p) \in Int
    BY <1>0, <2>2, <2>3, OneMoved
  <2>5. Outstanding(p)' = Outstanding(p) - (items[t][p].rcvd - items[t][p].sent)
                                         + (items'[t][p].rcvd - items'[t][p].sent)
    BY <1>0, <2>1, OneOutstanding
  <2> QED BY <1>1, <2>1, <2>2, <2>3, <2>4, <2>5
<1>4. ASSUME ~ \E w \in Workers : CommitShip(w) \/ CommitReceive(w)
      PROVE  MovedOver(p)' = Outstanding(p)'
  <2>1. MovedOver(p)' = MovedOver(p)
    BY <1>4, NoGoodsMoved DEF MovedOver
  <2>2. ASSUME NEW t \in Transfers, NEW src, NEW dst, NEW req,
               Create(t, src, dst, req) \/ Destroy(t)
        PROVE  Outstanding(p)' = Outstanding(p)
    <3>1. /\ \A z \in Transfers : z # t => items'[z] = items[z]
          /\ items[t][p].sent = 0 /\ items[t][p].rcvd = 0
          /\ items'[t][p].sent = 0 /\ items'[t][p].rcvd = 0
      BY <2>2, RowGoods
    <3>2. /\ Outstanding(p)' = Outstanding(p) - (items[t][p].rcvd - items[t][p].sent)
                                              + (items'[t][p].rcvd - items'[t][p].sent)
          /\ Outstanding(p) \in Int
      BY <1>0, <3>1, OneOutstanding
    <3> QED BY <3>1, <3>2
  <2>3. ASSUME ~ \E t \in Transfers, src, dst \in Branches, req \in [Parts -> Quantity] :
                   Create(t, src, dst, req),
               ~ \E t \in Transfers : Destroy(t)
        PROVE  Outstanding(p)' = Outstanding(p)
    <3>1. items' = items
      BY <1>4, <2>3, NoRowGoods
    <3> QED BY <3>1 DEF Outstanding
  <2>4. Outstanding(p)' = Outstanding(p)
    <3>1. ASSUME NEW t \in Transfers, NEW src \in Branches, NEW dst \in Branches,
                 NEW req \in [Parts -> Quantity], Create(t, src, dst, req)
          PROVE  Outstanding(p)' = Outstanding(p)
      BY <2>2, <3>1
    <3>2. ASSUME NEW t \in Transfers, Destroy(t) PROVE Outstanding(p)' = Outstanding(p)
      BY <2>2, <3>2
    <3> QED BY <2>3, <3>1, <3>2
  <2> QED BY <1>1, <2>1, <2>4
<1> QED BY <1>2, <1>3, <1>4

(* Goods neither appear nor vanish between branches: what the movement      *)
(* ledger is short of over all branches is what was sent and not received,  *)
(* even when branches of a transfer or stock rows are edited directly.      *)
THEOREM GoodsAlwaysConserved ==
  ASSUME IsFiniteSet(Transfers), IsFiniteSet(Branches)
  PROVE  Spec /\ []TransfersApart => []GoodsConserved
<1>1. Init => GoodsConserved
  <2> SUFFICES ASSUME Init, NEW p \in Parts PROVE MovedOver(p) = Outstanding(p)
    BY DEF GoodsConserved, MovedOver, Outstanding
  <2>1. MovedOver(p) = 0
    <3> DEFINE f == [b \in Branches |-> moved[<<b, p>>]]
    <3>1. \A b \in Branches : f[b] = 0
      BY DEF Init, Sku
    <3>2. MovedOver(p) = Sum(f, Branches)
      BY SumOverIsSum DEF MovedOver
    <3> HIDE DEF f
    <3> QED BY <3>1, <3>2, SumZero
  <2>2. Outstanding(p) = 0
    <3> DEFINE f == [t \in Transfers |-> items[t][p].rcvd - items[t][p].sent]
    <3>1. \A t \in Transfers : f[t] = 0
      BY DEF Init, NoItem
    <3>2. Outstanding(p) = Sum(f, Transfers)
      BY SumOverIsSum DEF Outstanding
    <3> HIDE DEF f
    <3> QED BY <3>1, <3>2, SumZero
  <2> QED BY <2>1, <2>2
<1>2. ApartInv /\ GoodsConserved /\ [Next]_vars => GoodsConserved'
  BY GoodsNext
<1> QED BY <1>1, <1>2, ApartAlways, PTL DEF Spec
=============================================================================
