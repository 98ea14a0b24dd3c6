--------------------------- MODULE StockTransfers ---------------------------
(***************************************************************************)
(* Branch stock and inter-branch transfers (apps/inventory).               *)
(*                                                                         *)
(* Every stock movement goes through InventoryService.record_transaction,  *)
(* which reads a StockItem row without a lock, computes the new quantities *)
(* in Python and saves the whole row.  The database runs at READ COMMITTED *)
(* and requests run concurrently, so a request is modelled as the steps    *)
(* between which another request may commit:                               *)
(*                                                                         *)
(*   idle --Load*--> loaded --Read*--> read --Commit*--> idle              *)
(*                                                                         *)
(* Load is get_object() (the transfer and its prefetched items), Read is   *)
(* what the service reads inside its transaction, Commit writes everything *)
(* at once.  Abort is a refused check, a crash or a rollback: the writes   *)
(* of the open transaction are dropped.                                    *)
(***************************************************************************)
EXTENDS Integers, FiniteSets, Functions

CONSTANTS
  Branches,     \* branches that hold stock
  Parts,        \* inventory-type parts
  Transfers,    \* primary keys of Transfer rows
  Users,        \* holders of transfer_inventory or manage_inventory
  Workers,      \* request handlers running at the same time
  NoUser,       \* a null foreign key to User
  Opening,      \* quantity every stock row starts with
  MaxQty,       \* BOUND: largest quantity of one movement
  MaxStock,     \* BOUND: no movement takes a stock row above it
  MaxLedger,    \* BOUND: no movement takes a ledger total beyond +/- it
  MoveKinds,    \* transaction types used outside transfers
  DirectEdits   \* REST resources edited past the service (PATCH)

Kinds == {"purchase", "damage", "adjustment", "reserve", "release"}

ASSUME SetsAssumption ==
  /\ Transfers # {} /\ Branches # {} /\ Parts # {}
  /\ NoUser \notin Users
  /\ MoveKinds \subseteq Kinds
  /\ DirectEdits \subseteq {"stock_item", "transfer"}

ASSUME BoundsAssumption ==
  /\ Opening \in Nat /\ MaxQty \in Nat \ {0}
  /\ MaxStock \in Nat /\ MaxLedger \in Nat

VARIABLES
  stock,        \* StockItem rows: quantity_in_stock, quantity_reserved
  external,     \* sum of the ledger rows of types other than transfer_*
  moved,        \* sum of the ledger rows of types transfer_in, transfer_out
  transfers,    \* Transfer rows
  items,        \* TransferItem rows
  approvals,    \* TransferApproval rows: status per selected approver
  request       \* what each request handler holds in memory

vars == <<stock, external, moved, transfers, items, approvals, request>>

-----------------------------------------------------------------------------
(* Rows and in-memory records.                                             *)

Sku == Branches \X Parts
Quantity == 0 .. MaxQty

StockRow == [inStock: Int, reserved: Int]

TransferStatus == {"absent", "draft", "pending_approval", "approved",
                   "in_transit", "received", "rejected"}
TransferRow == [status: TransferStatus, src: Branches, dst: Branches,
                submitter: Users \cup {NoUser}, approver: Users \cup {NoUser}]
ItemRow == [req: Nat, sent: Nat, rcvd: Nat]
ApprovalStatus == {"none", "pending", "approved", "rejected"}

NoItem == [req |-> 0, sent |-> 0, rcvd |-> 0]

(* "patch" is a PATCH of the StockItem row, "redirect" one of the Transfer. *)
TransferOps == {"submit", "approve", "reject", "ship", "receive", "redirect"}
Ops == TransferOps \cup Kinds \cup {"patch"}
Stages == {"idle", "loaded", "read", "selecting", "deciding"}

Request == [stage: Stages, op: Ops, t: Transfers, user: Users \cup {NoUser},
            row: TransferRow, its: [Parts -> ItemRow],
            chosen: SUBSET Users, lines: [Sku -> Int],
            rows: [Sku -> StockRow], seen: [Users -> ApprovalStatus]]

NoRow == [inStock |-> 0, reserved |-> 0]
NoLines == [s \in Sku |-> 0]
NoRows == [s \in Sku |-> NoRow]
NoApprovals == [u \in Users |-> "none"]
AbsentTransfer ==
  [status |-> "absent", src |-> CHOOSE b \in Branches : TRUE,
   dst |-> CHOOSE b \in Branches : TRUE,
   submitter |-> NoUser, approver |-> NoUser]

Idle ==
  [stage |-> "idle", op |-> "submit", t |-> CHOOSE t \in Transfers : TRUE,
   user |-> NoUser, row |-> AbsentTransfer,
   its |-> [p \in Parts |-> NoItem], chosen |-> {}, lines |-> NoLines,
   rows |-> NoRows, seen |-> NoApprovals]

Init ==
  /\ stock = [s \in Sku |-> [inStock |-> Opening, reserved |-> 0]]
  /\ external = [s \in Sku |-> 0]
  /\ moved = [s \in Sku |-> 0]
  /\ transfers = [t \in Transfers |-> AbsentTransfer]
  /\ items = [t \in Transfers |-> [p \in Parts |-> NoItem]]
  /\ approvals = [t \in Transfers |-> NoApprovals]
  /\ request = [w \in Workers |-> Idle]

-----------------------------------------------------------------------------
(* record_transaction on one row.                                          *)

Least(a, b) == IF a < b THEN a ELSE b
AtLeastZero(n) == IF n < 0 THEN 0 ELSE n

(* StockItem.available_quantity *)
Available(row) == AtLeastZero(row.inStock - row.reserved)

(* Fault: outbound movements are not checked against the row.              *)
AllowedUnchecked(kind, row, q) ==
  CASE kind = "adjustment" -> row.inStock + q >= 0
    [] kind = "reserve"    -> Available(row) >= q
    [] kind = "release"    -> row.reserved >= q
    [] OTHER               -> TRUE

(* The checks that raise ValueError. *)
Allowed(kind, row, q) ==
  CASE kind \in {"damage", "transfer_out", "sale"} -> row.inStock >= q
    [] kind = "adjustment"                         -> row.inStock + q >= 0
    [] kind = "reserve"                            -> Available(row) >= q
    [] kind = "release"                            -> row.reserved >= q
    [] OTHER                                       -> TRUE

(* The row that is saved. *)
Applied(kind, row, q) ==
  CASE kind = "sale" ->
         [inStock |-> row.inStock - q, reserved |-> AtLeastZero(row.reserved - q)]
    [] kind \in {"damage", "transfer_out"} -> [row EXCEPT !.inStock = @ - q]
    [] kind = "reserve" -> [row EXCEPT !.reserved = @ + q]
    [] kind = "release" -> [row EXCEPT !.reserved = AtLeastZero(@ - q)]
    [] OTHER            -> [row EXCEPT !.inStock = @ + q]

(* Fault: the ledger row of a shipment keeps the sign of the request.      *)
PostedUnsigned(kind, q) ==
  CASE kind \in {"damage", "sale"}     -> -q
    [] kind \in {"reserve", "release"} -> 0
    [] OTHER                           -> q

(* The signed quantity of the ledger row, for the types that move goods.   *)
Posted(kind, q) ==
  CASE kind \in {"damage", "transfer_out", "sale"} -> -q
    [] kind \in {"reserve", "release"}             -> 0
    [] OTHER                                       -> q

(* The transactions an operation records on each of its lines, in order:   *)
(* approve reserves, ship releases and moves out, receive moves in.        *)
Passes(op, row, q) ==
  CASE op = "approve" -> Allowed("reserve", row, q)
    [] op = "ship"    -> /\ Allowed("release", row, q)
                         /\ Allowed("transfer_out", Applied("release", row, q), q)
    [] op = "receive" -> Allowed("transfer_in", row, q)
    [] OTHER          -> Allowed(op, row, q)
NewRow(op, row, q) ==
  CASE op = "approve" -> Applied("reserve", row, q)
    [] op = "ship"    -> Applied("transfer_out", Applied("release", row, q), q)
    [] op = "receive" -> Applied("transfer_in", row, q)
    [] OTHER          -> Applied(op, row, q)

Touched(r) == {s \in Sku : r.lines[s] # 0}

(* Saves the rows computed from the copies this request read.              *)
SaveRows(r) ==
  /\ \A s \in Touched(r) : Passes(r.op, r.rows[s], r.lines[s])
  /\ stock' = [s \in Sku |-> IF s \in Touched(r)
                             THEN NewRow(r.op, r.rows[s], r.lines[s])
                             ELSE stock[s]]

(* Appends to a ledger total, within its bound.                            *)
Post(r, total, kind) == [s \in Sku |-> total[s] + Posted(kind, r.lines[s])]
Bounded(total) == \A s \in Sku : -MaxLedger <= total[s] /\ total[s] <= MaxLedger

Done(w) == request' = [request EXCEPT ![w] = Idle]

(* The rows a transaction over the given lines reads.                      *)
RowsFor(lines) == [s \in Sku |-> IF lines[s] # 0 THEN stock[s] ELSE NoRow]

-----------------------------------------------------------------------------
(* Movements outside transfers: adjust, bulk_adjust, reserve,              *)
(* release_reservation, purchase receipts, count reconciliation, and the   *)
(* PATCH of a StockItem.                                                   *)

LineOf(s, q) == [NoLines EXCEPT ![s] = q]

ReadMove(w, kind, s, q) ==
  /\ request[w].stage = "idle"
  /\ kind \in MoveKinds
  /\ q # 0 /\ (kind # "adjustment" => q > 0)
  /\ stock[s].inStock + q <= MaxStock
  /\ request' = [request EXCEPT ![w] =
       [Idle EXCEPT !.stage = "read", !.op = kind, !.lines = LineOf(s, q),
                    !.rows = RowsFor(LineOf(s, q))]]
  /\ UNCHANGED <<stock, external, moved, transfers, items, approvals>>

CommitMove(w) ==
  LET r == request[w] IN
  /\ r.stage = "read" /\ r.op \in Kinds
  /\ SaveRows(r)
  /\ external' = Post(r, external, r.op) /\ Bounded(external')
  /\ Done(w)
  /\ UNCHANGED <<moved, transfers, items, approvals>>

(* parts.py allocate: the row is locked before it is read, so reading and  *)
(* writing it is one step; requests that did not lock may still hold an    *)
(* older copy.                                                             *)
Allocate(w, s, q) ==
  /\ request[w].stage = "idle"
  /\ Available(stock[s]) >= q /\ q > 0
  /\ Allowed("sale", stock[s], q)
  /\ stock' = [stock EXCEPT ![s] = Applied("sale", stock[s], q)]
  /\ external' = [external EXCEPT ![s] = @ + Posted("sale", q)]
  /\ Bounded(external')
  /\ UNCHANGED <<moved, transfers, items, approvals, request>>

(* PATCH /stock-items: the serializer leaves the quantities writable and   *)
(* saves the whole row, with no ledger row.                                *)
ReadPatch(w, s) ==
  /\ "stock_item" \in DirectEdits
  /\ request[w].stage = "idle"
  /\ request' = [request EXCEPT ![w] =
       [Idle EXCEPT !.stage = "read", !.op = "patch", !.lines = LineOf(s, 1),
                    !.rows = RowsFor(LineOf(s, 1))]]
  /\ UNCHANGED <<stock, external, moved, transfers, items, approvals>>

CommitPatch(w, s, n) ==
  LET r == request[w] IN
  /\ r.stage = "read" /\ r.op = "patch" /\ s \in Touched(r)
  /\ \/ stock' = [stock EXCEPT ![s] = r.rows[s]]      \* only other fields sent
     \/ stock' = [stock EXCEPT ![s] = [r.rows[s] EXCEPT !.inStock = n]]
     \/ stock' = [stock EXCEPT ![s] = [r.rows[s] EXCEPT !.reserved = n]]
  /\ Done(w)
  /\ UNCHANGED <<external, moved, transfers, items, approvals>>

-----------------------------------------------------------------------------
(* Transfers.                                                              *)

(* initiate_transfer *)
Create(t, src, dst, req) ==
  /\ transfers[t].status = "absent"
  /\ \A w \in Workers : request[w].stage = "idle" \/ request[w].t # t
  /\ src # dst
  /\ \E p \in Parts : req[p] > 0
  /\ transfers' = [transfers EXCEPT ![t] =
       [AbsentTransfer EXCEPT !.status = "draft", !.src = src, !.dst = dst]]
  /\ items' = [items EXCEPT ![t] = [p \in Parts |-> [NoItem EXCEPT !.req = req[p]]]]
  /\ UNCHANGED <<stock, external, moved, approvals, request>>

(* destroy, modelled only while no other request has the row in memory. *)
Destroy(t) ==
  /\ transfers[t].status \in {"draft", "rejected"}
  /\ \A w \in Workers : request[w].stage = "idle" \/ request[w].t # t
  /\ transfers' = [transfers EXCEPT ![t] = AbsentTransfer]
  /\ items' = [items EXCEPT ![t] = [p \in Parts |-> NoItem]]
  /\ approvals' = [approvals EXCEPT ![t] = NoApprovals]
  /\ UNCHANGED <<stock, external, moved, request>>

(* Fault: a rejected transfer can be approved after all.                   *)
RequiredReopening(op) ==
  CASE op = "submit"  -> {"draft"}
    [] op = "approve" -> {"pending_approval", "rejected"}
    [] op = "reject"  -> {"pending_approval"}
    [] op = "ship"    -> {"approved"}
    [] op = "receive" -> {"in_transit"}
    [] OTHER          -> TransferStatus \ {"absent"}

(* The status the service insists on; a PATCH of the header has none.      *)
Required(op) ==
  CASE op = "submit"               -> {"draft"}
    [] op \in {"approve", "reject"} -> {"pending_approval"}
    [] op = "ship"                 -> {"approved"}
    [] op = "receive"              -> {"in_transit"}
    [] OTHER                       -> TransferStatus \ {"absent"}

OnTransfer(its, p) == its[p].req > 0

(* The stock rows the operation moves and by how much.                     *)
LinesOf(op, row, its, got) ==
  [s \in Sku |->
     CASE op \in {"approve", "ship"} /\ s[1] = row.src -> its[s[2]].req
       [] op = "receive" /\ s[1] = row.dst             -> got[s[2]]
       [] OTHER                                        -> 0]

(* get_object() and the checks made on the loaded rows; got is the body of *)
(* a receive request, chosen the approvers named by a submit request.      *)
Load(w, u, t, op, chosen, got) ==
  /\ request[w].stage = "idle"
  /\ op = "redirect" => "transfer" \in DirectEdits
  /\ transfers[t].status \in Required(op)
  /\ IF op = "submit" THEN chosen # {} /\ u \notin chosen ELSE chosen = {}
  /\ IF op = "receive"
     THEN /\ \E p \in Parts : got[p] > 0
          /\ \A p \in Parts : got[p] > 0 =>
               /\ OnTransfer(items[t], p)
               /\ items[t][p].rcvd + got[p] <= items[t][p].sent
     ELSE \A p \in Parts : got[p] = 0
  /\ request' = [request EXCEPT ![w] =
       [Idle EXCEPT !.stage = "loaded", !.op = op, !.t = t,
                    !.user = IF op \in {"submit", "approve", "reject"}
                             THEN u ELSE NoUser,
                    !.row = transfers[t], !.its = items[t],
                    !.chosen = chosen,
                    !.lines = LinesOf(op, transfers[t], items[t], got)]]
  /\ UNCHANGED <<stock, external, moved, transfers, items, approvals>>

(* Transfer.save() writes every column of the loaded row.                  *)
SaveHeader(w, row) == transfers' = [transfers EXCEPT ![request[w].t] = row]

(* submit_transfer_for_approval has no transaction: the header is saved,   *)
(* then the approvals are replaced.                                        *)
SubmitHeader(w) ==
  LET r == request[w] IN
  /\ r.stage = "loaded" /\ r.op = "submit"
  /\ SaveHeader(w, [r.row EXCEPT !.status = "pending_approval", !.submitter = r.user])
  /\ request' = [request EXCEPT ![w].stage = "selecting"]
  /\ UNCHANGED <<stock, external, moved, items, approvals>>

SubmitApprovers(w) ==
  LET r == request[w] IN
  /\ r.stage = "selecting"
  /\ approvals' = [approvals EXCEPT ![r.t] =
       [u \in Users |-> IF u \in r.chosen THEN "pending" ELSE "none"]]
  /\ Done(w)
  /\ UNCHANGED <<stock, external, moved, transfers, items>>

(* approve and reject record the caller's own pending decision; a caller   *)
(* with none decides for everybody (every caller of the API holds the      *)
(* permission that user_can_approve_transfers tests).                      *)
Decide(states, u, verdict) ==
  IF states[u] = "pending"
  THEN [states EXCEPT ![u] = verdict]
  ELSE [v \in Users |-> IF states[v] = "pending" THEN verdict ELSE states[v]]

Pending(states) == {u \in Users : states[u] = "pending"}

(* Reads made inside the transaction of approve, ship and receive. *)
ReadRows(w) ==
  LET r == request[w] IN
  /\ r.stage = "loaded" /\ r.op \in {"approve", "ship", "receive"}
  /\ request' = [request EXCEPT
       ![w].stage = "read", ![w].rows = RowsFor(r.lines),
       ![w].seen = IF r.op = "approve" THEN approvals[r.t] ELSE NoApprovals]
  /\ UNCHANGED <<stock, external, moved, transfers, items, approvals>>

(* The approvals still pending once this decision is recorded, as far as   *)
(* the transaction of approve_transfer can see.                            *)
UndecidedIgnored(r) == {}            \* Fault: no early return
Undecided(r) == Pending(Decide(r.seen, r.user, "approved"))

(* approve_transfer *)
CommitApprove(w) ==
  LET r == request[w] IN
  /\ r.stage = "read" /\ r.op = "approve"
  /\ r.seen[r.user] = "pending" => approvals[r.t][r.user] # "none"
  /\ approvals' = [approvals EXCEPT ![r.t] =
       IF r.seen[r.user] = "pending" THEN [@ EXCEPT ![r.user] = "approved"]
                                     ELSE Decide(@, r.user, "approved")]
  /\ IF Undecided(r) # {}
     THEN UNCHANGED <<stock, transfers>>
     ELSE /\ SaveRows(r)
          /\ SaveHeader(w, [r.row EXCEPT !.status = "approved", !.approver = r.user])
  /\ Done(w)
  /\ UNCHANGED <<external, moved, items>>

(* reject_transfer has no transaction either. *)
RejectApprovals(w) ==
  LET r == request[w] IN
  /\ r.stage = "loaded" /\ r.op = "reject"
  /\ approvals' = [approvals EXCEPT ![r.t] = Decide(@, r.user, "rejected")]
  /\ request' = [request EXCEPT ![w].stage = "deciding"]
  /\ UNCHANGED <<stock, external, moved, transfers, items>>

RejectHeader(w) ==
  LET r == request[w] IN
  /\ r.stage = "deciding"
  /\ SaveHeader(w, [r.row EXCEPT !.status = "rejected"])
  /\ Done(w)
  /\ UNCHANGED <<stock, external, moved, items, approvals>>

(* ship_transfer: release, then transfer_out, on every item. *)
CommitShip(w) ==
  LET r == request[w] IN
  /\ r.stage = "read" /\ r.op = "ship"
  /\ SaveRows(r)
  /\ moved' = Post(r, moved, "transfer_out") /\ Bounded(moved')
  /\ SaveHeader(w, [r.row EXCEPT !.status = "in_transit"])
  /\ items' = [items EXCEPT ![r.t] = [p \in Parts |->
       IF OnTransfer(r.its, p) THEN [r.its[p] EXCEPT !.sent = r.its[p].req] ELSE @[p]]]
  /\ Done(w)
  /\ UNCHANGED <<external, approvals>>

(* The item row receive_transfer saves, from the copy it loaded.           *)
ReceivedItemOnCurrent(r, p) ==       \* Fault: increments what is now in the table
  [items[r.t][p] EXCEPT !.rcvd = @ + r.lines[<<r.row.dst, p>>]]
ReceivedItem(r, p) == [r.its[p] EXCEPT !.rcvd = @ + r.lines[<<r.row.dst, p>>]]

AllArrivedStrict(r) ==               \* Fault: > for >=
  \A p \in Parts : OnTransfer(r.its, p) => ReceivedItem(r, p).rcvd > r.its[p].sent
AllArrived(r) ==
  \A p \in Parts : ReceivedItem(r, p).rcvd >= r.its[p].sent

(* receive_transfer: transfer_in for the parts named; the header is saved  *)
(* only when, on the loaded copies, everything sent has arrived.           *)
CommitReceive(w) ==
  LET r == request[w] IN
  /\ r.stage = "read" /\ r.op = "receive"
  /\ SaveRows(r)
  /\ moved' = Post(r, moved, "transfer_in") /\ Bounded(moved')
  /\ items' = [items EXCEPT ![r.t] = [p \in Parts |->
       IF r.lines[<<r.row.dst, p>>] > 0 THEN ReceivedItem(r, p) ELSE @[p]]]
  /\ IF AllArrived(r)
     THEN SaveHeader(w, [r.row EXCEPT !.status = "received"])
     ELSE UNCHANGED transfers
  /\ Done(w)
  /\ UNCHANGED <<external, approvals>>

(* PATCH /transfers: both branches stay writable in every status. *)
CommitRedirect(w, src, dst) ==
  LET r == request[w] IN
  /\ r.stage = "loaded" /\ r.op = "redirect"
  /\ SaveHeader(w, [r.row EXCEPT !.src = src, !.dst = dst])
  /\ Done(w)
  /\ UNCHANGED <<stock, external, moved, items, approvals>>

(* A refused check, a crash or a rollback. *)
Abort(w) ==
  /\ request[w].stage # "idle"
  /\ Done(w)
  /\ UNCHANGED <<stock, external, moved, transfers, items, approvals>>

Next ==
  \/ \E w \in Workers :
       \/ \E kind \in MoveKinds, s \in Sku, q \in -MaxQty .. MaxQty :
            ReadMove(w, kind, s, q)
       \/ CommitMove(w)
       \/ \E s \in Sku, q \in Quantity : Allocate(w, s, q)
       \/ \E s \in Sku : ReadPatch(w, s)
       \/ \E s \in Sku, n \in Quantity : CommitPatch(w, s, n)
       \/ \E u \in Users, t \in Transfers, op \in TransferOps,
             chosen \in SUBSET Users, got \in [Parts -> Quantity] :
            Load(w, u, t, op, chosen, got)
       \/ SubmitHeader(w) \/ SubmitApprovers(w)
       \/ RejectApprovals(w) \/ RejectHeader(w)
       \/ ReadRows(w)
       \/ CommitApprove(w) \/ CommitShip(w) \/ CommitReceive(w)
       \/ \E src, dst \in Branches : CommitRedirect(w, src, dst)
       \/ Abort(w)
  \/ \E t \in Transfers, src, dst \in Branches, req \in [Parts -> Quantity] :
       Create(t, src, dst, req)
  \/ \E t \in Transfers : Destroy(t)

Spec == Init /\ [][Next]_vars

-----------------------------------------------------------------------------
(* Type correctness.                                                       *)

(* Every row and every in-memory copy has the columns of its model; the    *)
(* quantities of transfer items are never negative.                        *)
TypeOK ==
  /\ stock \in [Sku -> StockRow]
  /\ external \in [Sku -> Int]
  /\ moved \in [Sku -> Int]
  /\ transfers \in [Transfers -> TransferRow]
  /\ items \in [Transfers -> [Parts -> ItemRow]]
  /\ approvals \in [Transfers -> [Users -> ApprovalStatus]]
  /\ request \in [Workers -> Request]

-----------------------------------------------------------------------------
(* What holds whatever the interleaving.                                   *)

(* No stock row goes below zero, on hand or reserved, even when a request  *)
(* overwrites what another committed: each save is computed from one copy  *)
(* of the row that the checks of record_transaction were made on.          *)
NeverNegative ==
  \A s \in Sku : stock[s].inStock >= 0 /\ stock[s].reserved >= 0

(* An item is never received beyond what was shipped, nor shipped beyond   *)
(* what was requested, even when receipts and shipments race and save      *)
(* stale copies of the item (receive_transfer, ship_transfer).             *)
ReceiptsWithinShipment ==
  \A t \in Transfers, p \in Parts :
    items[t][p].rcvd <= items[t][p].sent /\ items[t][p].sent <= items[t][p].req

-----------------------------------------------------------------------------
(* What holds when requests do not overlap.                                *)

(* The ledger explains the balance: what is on hand is the opening         *)
(* quantity plus every movement record_transaction recorded.               *)
LedgerExplainsStock ==
  \A s \in Sku : stock[s].inStock = Opening + external[s] + moved[s]

SumOver(f, ts) == SumFunctionOnSet(f, ts)

(* The transfer movements of a stock row are exactly what its transfers    *)
(* say was sent from it and received into it: nothing ships or arrives     *)
(* twice, and a refused or aborted transfer moves nothing.                 *)
TransferLedgerMatchesItems ==
  \A b \in Branches, p \in Parts :
    moved[<<b, p>>] =
      SumOver([t \in Transfers |-> items[t][p].rcvd], {t \in Transfers : transfers[t].dst = b})
      - SumOver([t \in Transfers |-> items[t][p].sent], {t \in Transfers : transfers[t].src = b})

(* Over all branches the goods moved out and not yet in are those in       *)
(* transit, even when the branches of a transfer are edited under way.     *)
GoodsConserved ==
  \A p \in Parts :
    SumOver([b \in Branches |-> moved[<<b, p>>]], Branches) =
      SumOver([t \in Transfers |-> items[t][p].rcvd - items[t][p].sent], Transfers)

(* A transfer whose goods have all arrived is closed: it cannot stay in    *)
(* transit, where receive_transfer would refuse every further receipt.     *)
FullyReceivedIsClosed ==
  \A t \in Transfers :
    transfers[t].status = "in_transit" =>
      \E p \in Parts : items[t][p].rcvd < items[t][p].sent

(* Goods leave only after every selected approver's row was decided        *)
(* (approve_transfer returns early while one is pending).                  *)
DecidedBeforeShipping ==
  \A t \in Transfers :
    transfers[t].status \in {"approved", "in_transit", "received"} =>
      Pending(approvals[t]) = {}

(* A transfer follows its lifecycle and never goes back to an earlier      *)
(* stage; in particular what was rejected or shipped is not re-approved.   *)
Lifecycle ==
  {<<"absent", "draft">>, <<"draft", "absent">>, <<"rejected", "absent">>,
   <<"draft", "pending_approval">>,
   <<"pending_approval", "approved">>, <<"pending_approval", "rejected">>,
   <<"approved", "in_transit">>, <<"in_transit", "received">>}

StatusProgress ==
  [][\A t \in Transfers :
       transfers'[t].status # transfers[t].status =>
         <<transfers[t].status, transfers'[t].status>> \in Lifecycle]_vars

-----------------------------------------------------------------------------
(* What the repository says and the code does not do.                      *)

(* "Transfers cannot be approved by the same user who submitted them": the *)
(* check in approve_transfer is skipped for every caller the API admits.   *)
SubmitterDoesNotApprove ==
  \A t \in Transfers :
    transfers[t].approver # NoUser => transfers[t].approver # transfers[t].submitter

(* approve_transfer reserves at the source what the transfer will ship:    *)
(* "Quantity available for use (not reserved)".  Issuing a part to a work  *)
(* order takes only available quantity, so it must leave that reservation. *)
Backed(s) ==
  stock[s].reserved >=
    SumOver([t \in Transfers |-> items[t][s[2]].req],
            {t \in Transfers : transfers[t].status = "approved" /\ transfers[t].src = s[1]})

AllocationKeepsReservations ==
  [][\A w \in Workers, s \in Sku, q \in Quantity :
       Allocate(w, s, q) /\ Backed(s) => Backed(s)']_vars
=============================================================================
