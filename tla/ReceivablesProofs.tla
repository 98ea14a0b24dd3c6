-------------------------- MODULE ReceivablesProofs --------------------------
(* Proofs about Receivables for any number of invoices, payments, refunds, *)
(* credit notes and request handlers.                                      *)
EXTENDS Receivables, SumTheorems, TLAPS

-----------------------------------------------------------------------------
(* Type correctness.                                                        *)

LEMMA SettledType ==
  ASSUME NEW row \in InvoiceRow, NEW collected \in Int, NEW pastDue \in BOOLEAN
  PROVE  Settled(row, collected, pastDue) \in InvoiceRow
<1>1. StatusFor(row, Smaller(collected, row.total)) \in InvoiceStatus
  BY DEF StatusFor, InvoiceStatus, InvoiceRow
<1>2. Smaller(collected, row.total) \in Int /\ AtLeastZero(row.total - collected) \in Nat
  BY DEF Smaller, AtLeastZero, InvoiceRow
<1> QED BY <1>1, <1>2 DEF Settled, InvoiceRow, InvoiceStatus

LEMMA NetType == ASSUME NEW row \in PaymentRow PROVE Net(row) \in Int
BY DEF Net, PaymentRow

LEMMA RefundedType ==
  ASSUME NEW row \in PaymentRow, NEW n \in Nat
  PROVE  /\ RefundedPayment(row, n) \in PaymentRow
         /\ RefundedPayment(row, n).inv = row.inv
         /\ RefundedPayment(row, n).refunded = row.refunded + n
         /\ RefundedPayment(row, n).amount = row.amount
BY DEF RefundedPayment, PaymentRow

LEMMA EditedType ==
  ASSUME NEW row \in InvoiceRow, NEW op, NEW n \in Totals, NEW status \in InvoiceStatus
  PROVE  Edited(op, row, n, status) \in InvoiceRow
<1>1. n \in Nat
  BY BoundsAssumption DEF Totals
<1>2. /\ [row EXCEPT !.status = "void"] \in InvoiceRow
      /\ [row EXCEPT !.status = "viewed"] \in InvoiceRow
      /\ [row EXCEPT !.total = n, !.status = status] \in InvoiceRow
      /\ [row EXCEPT !.status = IF @ = "draft" THEN "sent" ELSE @] \in InvoiceRow
  BY <1>1 DEF InvoiceRow, InvoiceStatus
<1>3. CASE op = "send"
  BY <1>2, <1>3 DEF Edited
<1>4. CASE op = "view"
  BY <1>2, <1>4 DEF Edited
<1>5. CASE op = "edit"
  BY <1>2, <1>5 DEF Edited
<1>6. CASE op \notin {"send", "view", "edit"}
  BY <1>2, <1>6 DEF Edited
<1> QED BY <1>3, <1>4, <1>5, <1>6

LEMMA AppliedType ==
  ASSUME NEW row \in CreditRow, NEW sum \in Nat
  PROVE  AppliedCredit(row, sum) \in CreditRow
<1>1. AtLeastZero(row.total - sum) \in Nat
  BY DEF AtLeastZero, CreditRow
<1> QED BY <1>1 DEF AppliedCredit, CreditRow

LEMMA NewInvoiceType == ASSUME NEW n \in Nat PROVE NewInvoice(n) \in InvoiceRow
BY DEF NewInvoice, InvoiceRow, InvoiceStatus

LEMMA IdleType == Idle \in Request
<1>1. AnInvoice \in Invoices /\ APayment \in Payments
  BY SetsAssumption DEF AnInvoice, APayment
<1>2. (CHOOSE r \in Refunds : TRUE) \in Refunds /\ (CHOOSE c \in Credits : TRUE) \in Credits
  BY SetsAssumption
<1>3. NoPayment \in PaymentRow /\ NoRefund \in RefundRow /\ NoCredit \in CreditRow
  BY <1>1 DEF NoPayment, PaymentRow, NoRefund, RefundRow, NoCredit, CreditRow
<1>4. NewInvoice(0) \in InvoiceRow
  BY NewInvoiceType
<1> QED BY <1>1, <1>2, <1>3, <1>4 DEF Idle, Request, Stages, Ops

LEMMA BeginType ==
  ASSUME TypeOK, NEW w \in Workers, NEW r \in Request, Begin(w, r)
  PROVE  request' \in [Workers -> Request]
BY DEF TypeOK, Begin

LEMMA DoneType ==
  ASSUME TypeOK, NEW w \in Workers, Done(w) PROVE request' \in [Workers -> Request]
BY IdleType DEF TypeOK, Done

LEMMA SaveInvoiceType ==
  ASSUME TypeOK, NEW w \in Workers, NEW i \in Invoices, NEW row \in InvoiceRow,
         SaveInvoice(w, i, row)
  PROVE  invoices' \in [Invoices -> InvoiceRow]
BY DEF TypeOK, SaveInvoice

LEMMA TypeInit == Init => TypeOK
<1> SUFFICES ASSUME Init PROVE TypeOK
  OBVIOUS
<1>1. \A n \in Totals : NewInvoice(n) \in InvoiceRow
  BY NewInvoiceType, BoundsAssumption DEF Totals
<1>2. NoPayment \in PaymentRow /\ NoRefund \in RefundRow /\ NoCredit \in CreditRow
  BY SetsAssumption DEF NoPayment, PaymentRow, NoRefund, RefundRow, NoCredit, CreditRow,
     AnInvoice, APayment
<1>3. invoices \in [Invoices -> InvoiceRow]
  BY <1>1 DEF Init
<1> QED BY <1>2, <1>3, IdleType DEF Init, TypeOK

LEMMA TypeNext == TypeOK /\ [Next]_vars => TypeOK'
<1> SUFFICES ASSUME TypeOK, [Next]_vars PROVE TypeOK'
  OBVIOUS
<1>a. /\ invoices \in [Invoices -> InvoiceRow] /\ late \in [Invoices -> BOOLEAN]
      /\ payments \in [Payments -> PaymentRow] /\ refunds \in [Refunds -> RefundRow]
      /\ credits \in [Credits -> CreditRow] /\ used \in [Credits -> Nat]
      /\ taken \in [Invoices -> Int] /\ credited \in [Invoices -> Nat]
      /\ request \in [Workers -> Request]
  BY DEF TypeOK
<1>b. (\A n \in Amount : n \in Nat) /\ (\A n \in Totals : n \in Nat)
  BY BoundsAssumption DEF Amount, Totals
<1>c. \A i \in Invoices : Collected(i) \in Int
  BY <1>a DEF Collected
<1>d. \A w \in Workers :
        /\ request[w] \in Request
        /\ request[w].inv \in Invoices /\ request[w].pay \in Payments
        /\ request[w].ref \in Refunds /\ request[w].cred \in Credits
        /\ request[w].amount \in Nat /\ request[w].collected \in Int
        /\ request[w].row \in InvoiceRow /\ request[w].payment \in PaymentRow
        /\ request[w].refund \in RefundRow /\ request[w].credit \in CreditRow
  BY <1>a DEF Request
<1>1. ASSUME NEW w \in Workers, NEW p \in Payments, NEW i \in Invoices, NEW n \in Amount,
             CheckPayment(w, p, i, n)
      PROVE  TypeOK'
  <2>1. [Idle EXCEPT !.stage = "checked", !.op = "pay", !.inv = i, !.pay = p,
                     !.amount = n, !.row = invoices[i]] \in Request
    BY <1>a, <1>b, IdleType DEF Request, Stages, Ops
  <2> QED BY <1>1, <1>a, <2>1, BeginType DEF CheckPayment, TypeOK, rows
<1>2. ASSUME NEW w \in Workers, InsertPayment(w) PROVE TypeOK'
  <2>1. [request[w] EXCEPT !.stage = "inserted"] \in Request
    BY <1>d DEF Request, Stages
  <2>2. [status |-> "completed", inv |-> request[w].inv, amount |-> request[w].amount,
         refunded |-> 0] \in PaymentRow
    BY <1>d DEF PaymentRow
  <2>3. taken' \in [Invoices -> Int]
    BY <1>2, <1>a, <1>d DEF InsertPayment
  <2> QED BY <1>2, <1>a, <1>d, <2>1, <2>2, <2>3, BeginType DEF InsertPayment, TypeOK
<1>3. ASSUME NEW w \in Workers, SumCollections(w) PROVE TypeOK'
  <2>1. [request[w] EXCEPT !.stage = "summed", !.collected = Collected(request[w].inv)]
          \in Request
    BY <1>c, <1>d DEF Request, Stages
  <2> QED BY <1>3, <1>a, <2>1, BeginType DEF SumCollections, TypeOK, rows
<1>4. ASSUME NEW w \in Workers, SaveCollections(w) PROVE TypeOK'
  <2>1. Settled(request[w].row, request[w].collected, late[request[w].inv]) \in InvoiceRow
    BY <1>a, <1>d, SettledType
  <2> QED BY <1>4, <1>a, <1>d, <2>1, SaveInvoiceType, DoneType DEF SaveCollections, TypeOK
<1>5. ASSUME NEW w \in Workers, NEW r \in Refunds, NEW op \in {"approve", "reject", "complete"},
             LoadRefund(w, r, op)
      PROVE  TypeOK'
  <2>1. refunds[r] \in RefundRow /\ refunds[r].pay \in Payments
    BY <1>a DEF RefundRow
  <2>2. [Idle EXCEPT !.stage = "loaded", !.op = op, !.ref = r, !.pay = refunds[r].pay,
                     !.refund = refunds[r]] \in Request
    BY <2>1, IdleType DEF Request, Stages, Ops
  <2> QED BY <1>5, <1>a, <2>2, BeginType DEF LoadRefund, TypeOK, rows
<1>6. ASSUME NEW w \in Workers, SaveDecision(w) PROVE TypeOK'
  <2>1. [request[w].refund EXCEPT !.status =
           IF request[w].op = "approve" THEN "approved" ELSE "rejected"] \in RefundRow
    BY <1>d DEF RefundRow, RefundStatus
  <2> QED BY <1>6, <1>a, <1>d, <2>1, DoneType DEF SaveDecision, TypeOK
<1>7. ASSUME NEW w \in Workers, SettleRead(w) PROVE TypeOK'
  <2> DEFINE p == RefundedPayment(payments[request[w].pay], request[w].refund.amount)
  <2>1. request[w].refund.amount \in Nat
    BY <1>d DEF RefundRow
  <2>2. p \in PaymentRow /\ p.inv \in Invoices
    <3>1. p \in PaymentRow
      BY <1>a, <1>d, <2>1, RefundedType
    <3> QED BY <3>1 DEF PaymentRow
  <2>3. Collected(p.inv) - Net(payments[request[w].pay]) + Net(p) \in Int
    BY <1>a, <1>c, <1>d, <2>2, NetType
  <2> HIDE DEF p
  <2>4. [request[w] EXCEPT !.stage = "settling", !.payment = p, !.inv = p.inv,
           !.row = invoices[p.inv],
           !.collected = Collected(p.inv) - Net(payments[request[w].pay]) + Net(p)] \in Request
    BY <1>a, <1>d, <2>2, <2>3 DEF Request, Stages
  <2> QED BY <1>7, <1>a, <2>4, BeginType DEF SettleRead, TypeOK, rows, p
<1>8. ASSUME NEW w \in Workers, SettleCommit(w) PROVE TypeOK'
  <2>1. Settled(request[w].row, request[w].collected, late[request[w].inv]) \in InvoiceRow
    BY <1>a, <1>d, SettledType
  <2>2. invoices' \in [Invoices -> InvoiceRow]
    BY <1>8, <1>a, <1>d, <2>1, SaveInvoiceType DEF SettleCommit
  <2>3. [request[w].refund EXCEPT !.status = "completed"] \in RefundRow
    BY <1>d DEF RefundRow, RefundStatus
  <2>4. taken' \in [Invoices -> Int]
    <3>1. Net(payments[request[w].pay]) \in Int /\ Net(request[w].payment) \in Int
      BY <1>a, <1>d, NetType
    <3>2. request[w].payment.inv \in Invoices
      BY <1>d DEF PaymentRow
    <3>3. taken[request[w].payment.inv] - Net(payments[request[w].pay])
            + Net(request[w].payment) \in Int
      BY <1>a, <3>1, <3>2
    <3> QED BY <1>8, <1>a, <3>3 DEF SettleCommit, TakenAfter
  <2> QED BY <1>8, <1>a, <1>d, <2>2, <2>3, <2>4, DoneType DEF SettleCommit, TypeOK
<1>9. ASSUME NEW w \in Workers, NEW c \in Credits, LoadCredit(w, c) PROVE TypeOK'
  <2>1. [Idle EXCEPT !.stage = "loaded", !.op = "issue", !.cred = c, !.credit = credits[c]]
          \in Request
    BY <1>a, IdleType DEF Request, Stages, Ops
  <2> QED BY <1>9, <1>a, <2>1, BeginType DEF LoadCredit, TypeOK, rows
<1>10. ASSUME NEW w \in Workers, IssueCredit(w) PROVE TypeOK'
  <2>1. [request[w].credit EXCEPT !.status = "issued", !.unused = request[w].credit.total]
          \in CreditRow
    BY <1>d DEF CreditRow
  <2> QED BY <1>10, <1>a, <1>d, <2>1, DoneType DEF IssueCredit, TypeOK
<1>11. ASSUME NEW w \in Workers, NEW c \in Credits, NEW i \in Invoices, NEW n \in Amount,
              ApplyRead(w, c, i, n)
       PROVE  TypeOK'
  <2>0. Collected(i) + n \in Int
    BY <1>b, <1>c
  <2>1. [Idle EXCEPT !.stage = "applying", !.op = "apply", !.cred = c, !.inv = i,
           !.amount = n, !.row = invoices[i], !.collected = Collected(i) + n] \in Request
    BY <1>a, <1>b, <2>0, IdleType DEF Request, Stages, Ops
  <2> QED BY <1>11, <1>a, <2>1, BeginType DEF ApplyRead, TypeOK, rows
<1>12. ASSUME NEW w \in Workers, ApplyCommit(w) PROVE TypeOK'
  <2>1. Settled(request[w].row, request[w].collected, late[request[w].inv]) \in InvoiceRow
    BY <1>a, <1>d, SettledType
  <2>2. used' \in [Credits -> Nat] /\ credited' \in [Invoices -> Nat]
    BY <1>12, <1>a, <1>d DEF ApplyCommit
  <2>3. AppliedCredit(credits[request[w].cred], used'[request[w].cred]) \in CreditRow
    BY <1>a, <1>d, <2>2, AppliedType
  <2>4. credits' \in [Credits -> CreditRow]
    BY <1>12, <1>a, <2>3 DEF ApplyCommit
  <2> QED BY <1>12, <1>a, <1>d, <2>1, <2>2, <2>4, SaveInvoiceType, DoneType
          DEF ApplyCommit, TypeOK
<1>13. ASSUME NEW w \in Workers, NEW i \in Invoices, NEW op \in InvoiceOps,
              LoadInvoice(w, i, op)
       PROVE  TypeOK'
  <2>0. op \in Ops
    BY SetsAssumption DEF Ops
  <2>1. [Idle EXCEPT !.stage = "loaded", !.op = op, !.inv = i, !.row = invoices[i]] \in Request
    BY <1>a, <2>0, IdleType DEF Request, Stages
  <2> QED BY <1>13, <1>a, <2>1, BeginType DEF LoadInvoice, TypeOK, rows
<1>14. ASSUME NEW w \in Workers, NEW n \in Totals, NEW status \in InvoiceStatus,
              SaveLoaded(w, n, status)
       PROVE  TypeOK'
  <2> DEFINE row == Edited(request[w].op, request[w].row, n, status)
  <2>1. row \in InvoiceRow /\ row.paid \in Int
    <3>1. row \in InvoiceRow
      BY <1>d, EditedType
    <3> QED BY <3>1 DEF InvoiceRow
  <2>2. Settled(row, row.paid, late[request[w].inv]) \in InvoiceRow
    BY <1>a, <1>d, <2>1, SettledType
  <2> HIDE DEF row
  <2> QED BY <1>14, <1>a, <1>d, <2>2, SaveInvoiceType, DoneType DEF SaveLoaded, TypeOK, row
<1>15. ASSUME NEW w \in Workers, Abort(w) PROVE TypeOK'
  BY <1>15, <1>a, DoneType DEF Abort, TypeOK, rows
<1>16. ASSUME NEW p \in Payments, DeletePayment(p) PROVE TypeOK'
  <2>1. NoPayment \in PaymentRow
    BY SetsAssumption DEF NoPayment, PaymentRow, AnInvoice
  <2>2. taken' \in [Invoices -> Int]
    <3>1. payments[p] \in PaymentRow /\ payments[p].inv \in Invoices
      BY <1>a DEF PaymentRow
    <3>2. taken[payments[p].inv] - Net(payments[p]) \in Int
      BY <1>a, <3>1, NetType
    <3> QED BY <1>16, <1>a, <3>2 DEF DeletePayment
  <2> QED BY <1>16, <1>a, <2>1, <2>2 DEF DeletePayment, TypeOK
<1>17. ASSUME NEW r \in Refunds, NEW p \in Payments, NEW n \in Amount, RequestRefund(r, p, n)
       PROVE  TypeOK'
  <2>1. [status |-> "pending", pay |-> p, amount |-> n] \in RefundRow
    BY <1>b DEF RefundRow, RefundStatus
  <2> QED BY <1>17, <1>a, <2>1 DEF RequestRefund, TypeOK
<1>21. ASSUME NEW r \in Refunds, NEW status \in RefundStatus, NEW p \in Editable,
              NEW n \in Amount, RewriteRefund(r, status, p, n)
       PROVE  TypeOK'
  <2>1. [status |-> status, pay |-> p, amount |-> n] \in RefundRow
    BY <1>b, SetsAssumption DEF RefundRow
  <2> QED BY <1>21, <1>a, <2>1 DEF RewriteRefund, TypeOK
<1>22. ASSUME NEW r \in Refunds, DeleteRefund(r) PROVE TypeOK'
  <2>1. [refunds[r] EXCEPT !.status = "deleted"] \in RefundRow
    BY <1>a DEF RefundRow
  <2>2. refunds' \in [Refunds -> RefundRow]
    BY <1>22, <1>a, <2>1 DEF DeleteRefund
  <2> QED BY <1>22, <1>a, <2>2 DEF DeleteRefund, TypeOK
<1>18. ASSUME NEW c \in Credits, NEW n \in Totals, CreateCredit(c, n) PROVE TypeOK'
  <2>1. [status |-> "draft", total |-> n, unused |-> n] \in CreditRow
    BY <1>b DEF CreditRow
  <2> QED BY <1>18, <1>a, <2>1 DEF CreateCredit, TypeOK
<1>19. ASSUME NEW i \in Invoices, DueDatePasses(i) PROVE TypeOK'
  BY <1>19, <1>a DEF DueDatePasses, TypeOK
<1>20. CASE UNCHANGED vars
  BY <1>20 DEF vars, TypeOK
<1> QED
  BY <1>1, <1>2, <1>3, <1>4, <1>5, <1>6, <1>7, <1>8, <1>9, <1>10, <1>11, <1>12, <1>13,
     <1>14, <1>15, <1>16, <1>17, <1>18, <1>19, <1>20, <1>21, <1>22 DEF Next

(* Every state of Receivables is well typed: in particular amount_due is    *)
(* never negative, whatever the interleaving of requests.                   *)
THEOREM TypeCorrect == Spec => []TypeOK
BY TypeInit, TypeNext, PTL DEF Spec
-----------------------------------------------------------------------------
(* A payment that still counts has money left, whatever the interleaving.   *)
(* The payment row a completion is about to save satisfies the same, and    *)
(* only payments of a positive amount are inserted.                         *)

Positive(row) == row.status = "completed" => row.refunded < row.amount

StagedPositive ==
  \A w \in Workers :
    /\ request[w].stage = "checked" => request[w].amount > 0
    /\ request[w].stage = "settling" => Positive(request[w].payment)

PositiveInv == TypeOK /\ CountedPaymentsPositive /\ StagedPositive

LEMMA RefundedPositive ==
  ASSUME NEW row \in PaymentRow, NEW n \in Nat
  PROVE  Positive(RefundedPayment(row, n))
<1>1. RefundedPayment(row, n).refunded = row.refunded + n
  BY RefundedType
<1>2. RefundedPayment(row, n).amount = row.amount
  BY RefundedType
<1>3. row.refunded + n >= row.amount => RefundedPayment(row, n).status = "refunded"
  BY DEF RefundedPayment, PaymentRow
<1> QED BY <1>1, <1>2, <1>3 DEF Positive, PaymentRow

(* A request that starts or goes on without reaching the two stages.        *)
LEMMA BegunPositive ==
  ASSUME PositiveInv, NEW w \in Workers, NEW r, Begin(w, r),
         r.stage = "checked" => r.amount > 0,
         r.stage = "settling" => Positive(r.payment)
  PROVE  StagedPositive'
BY DEF PositiveInv, TypeOK, Begin, StagedPositive

LEMMA DonePositive ==
  ASSUME PositiveInv, NEW w \in Workers, Done(w) PROVE StagedPositive'
BY DEF PositiveInv, TypeOK, Done, StagedPositive, Idle

LEMMA PositiveNext == PositiveInv /\ [Next]_vars => PositiveInv'
<1> SUFFICES ASSUME PositiveInv, [Next]_vars PROVE PositiveInv'
  OBVIOUS
<1>0. TypeOK /\ TypeOK' /\ CountedPaymentsPositive /\ StagedPositive
  BY TypeNext DEF PositiveInv
<1>a. /\ payments \in [Payments -> PaymentRow] /\ request \in [Workers -> Request]
      /\ refunds \in [Refunds -> RefundRow]
  BY <1>0 DEF TypeOK
<1>b. \A n \in Amount : n \in Nat /\ n > 0
  BY BoundsAssumption DEF Amount
<1>c. ASSUME UNCHANGED payments PROVE CountedPaymentsPositive'
  BY <1>0, <1>c DEF CountedPaymentsPositive
<1> SUFFICES CountedPaymentsPositive' /\ StagedPositive'
  BY <1>0 DEF PositiveInv
<1>1. ASSUME NEW w \in Workers, NEW p \in Payments, NEW i \in Invoices, NEW n \in Amount,
             CheckPayment(w, p, i, n)
      PROVE  CountedPaymentsPositive' /\ StagedPositive'
  <2> DEFINE r == [Idle EXCEPT !.stage = "checked", !.op = "pay", !.inv = i, !.pay = p,
                               !.amount = n, !.row = invoices[i]]
  <2>1. r.stage = "checked" /\ r.amount > 0
    BY <1>b DEF Idle
  <2>2. Begin(w, r) /\ UNCHANGED payments
    BY <1>1 DEF CheckPayment, rows
  <2> HIDE DEF r
  <2>3. StagedPositive'
    BY <2>1, <2>2, BegunPositive
  <2> QED BY <1>c, <2>2, <2>3
<1>2. ASSUME NEW w \in Workers, InsertPayment(w)
      PROVE  CountedPaymentsPositive' /\ StagedPositive'
  <2> DEFINE r == [request[w] EXCEPT !.stage = "inserted"]
  <2>1. r.stage = "inserted"
    BY <1>a DEF Request
  <2>2. Begin(w, r)
    BY <1>2 DEF InsertPayment
  <2> HIDE DEF r
  <2>3. StagedPositive'
    BY <2>1, <2>2, BegunPositive
  <2>4. request[w].amount > 0
    BY <1>2, <1>0 DEF InsertPayment, StagedPositive
  <2>5. CountedPaymentsPositive'
    BY <1>2, <1>0, <1>a, <2>4 DEF InsertPayment, CountedPaymentsPositive
  <2> QED BY <2>3, <2>5
<1>3. ASSUME NEW w \in Workers, SumCollections(w)
      PROVE  CountedPaymentsPositive' /\ StagedPositive'
  <2> DEFINE r == [request[w] EXCEPT !.stage = "summed", !.collected = Collected(request[w].inv)]
  <2>1. r.stage = "summed"
    BY <1>a DEF Request
  <2>2. Begin(w, r) /\ UNCHANGED payments
    BY <1>3 DEF SumCollections, rows
  <2> HIDE DEF r
  <2> QED BY <1>c, <2>1, <2>2, BegunPositive
<1>4. ASSUME NEW w \in Workers, Done(w), UNCHANGED payments
      PROVE  CountedPaymentsPositive' /\ StagedPositive'
  BY <1>4, <1>c, DonePositive
<1>5. ASSUME NEW w \in Workers, NEW n \in Totals, NEW status \in InvoiceStatus,
             \/ SaveCollections(w) \/ SaveDecision(w) \/ IssueCredit(w) \/ ApplyCommit(w)
             \/ SaveLoaded(w, n, status) \/ Abort(w)
      PROVE  CountedPaymentsPositive' /\ StagedPositive'
  <2>1. Done(w) /\ UNCHANGED payments
    BY <1>5 DEF SaveCollections, SaveDecision, IssueCredit, ApplyCommit, SaveLoaded, Abort, rows
  <2> QED BY <1>4, <2>1
<1>6. ASSUME NEW w \in Workers, NEW r, Begin(w, r), UNCHANGED payments,
             r.stage \in {"loaded", "applying"}
      PROVE  CountedPaymentsPositive' /\ StagedPositive'
  BY <1>6, <1>c, BegunPositive
<1>7. ASSUME NEW w \in Workers, NEW r \in Refunds, NEW op \in {"approve", "reject", "complete"},
             LoadRefund(w, r, op)
      PROVE  CountedPaymentsPositive' /\ StagedPositive'
  <2> DEFINE q == [Idle EXCEPT !.stage = "loaded", !.op = op, !.ref = r,
                               !.pay = refunds[r].pay, !.refund = refunds[r]]
  <2>1. q.stage = "loaded"
    BY DEF Idle
  <2>2. Begin(w, q) /\ UNCHANGED payments
    BY <1>7 DEF LoadRefund, rows
  <2> HIDE DEF q
  <2> QED BY <1>6, <2>1, <2>2
<1>8. ASSUME NEW w \in Workers, NEW c \in Credits, LoadCredit(w, c)
      PROVE  CountedPaymentsPositive' /\ StagedPositive'
  <2> DEFINE q == [Idle EXCEPT !.stage = "loaded", !.op = "issue", !.cred = c,
                               !.credit = credits[c]]
  <2>1. q.stage = "loaded"
    BY DEF Idle
  <2>2. Begin(w, q) /\ UNCHANGED payments
    BY <1>8 DEF LoadCredit, rows
  <2> HIDE DEF q
  <2> QED BY <1>6, <2>1, <2>2
<1>9. ASSUME NEW w \in Workers, NEW c \in Credits, NEW i \in Invoices, NEW n \in Amount,
             ApplyRead(w, c, i, n)
      PROVE  CountedPaymentsPositive' /\ StagedPositive'
  <2> DEFINE q == [Idle EXCEPT !.stage = "applying", !.op = "apply", !.cred = c, !.inv = i,
                     !.amount = n, !.row = invoices[i], !.collected = Collected(i) + n]
  <2>1. q.stage = "applying"
    BY DEF Idle
  <2>2. Begin(w, q) /\ UNCHANGED payments
    BY <1>9 DEF ApplyRead, rows
  <2> HIDE DEF q
  <2> QED BY <1>6, <2>1, <2>2
<1>10. ASSUME NEW w \in Workers, NEW i \in Invoices, NEW op \in InvoiceOps,
              LoadInvoice(w, i, op)
       PROVE  CountedPaymentsPositive' /\ StagedPositive'
  <2> DEFINE q == [Idle EXCEPT !.stage = "loaded", !.op = op, !.inv = i, !.row = invoices[i]]
  <2>1. q.stage = "loaded"
    BY DEF Idle
  <2>2. Begin(w, q) /\ UNCHANGED payments
    BY <1>10 DEF LoadInvoice, rows
  <2> HIDE DEF q
  <2> QED BY <1>6, <2>1, <2>2
<1>11. ASSUME NEW w \in Workers, SettleRead(w)
       PROVE  CountedPaymentsPositive' /\ StagedPositive'
  <2> DEFINE p == RefundedPayment(payments[request[w].pay], request[w].refund.amount)
             q == [request[w] EXCEPT !.stage = "settling", !.payment = p, !.inv = p.inv,
                     !.row = invoices[p.inv],
                     !.collected = Collected(p.inv) - Net(payments[request[w].pay]) + Net(p)]
  <2>1. payments[request[w].pay] \in PaymentRow /\ request[w].refund.amount \in Nat
    BY <1>a DEF Request, RefundRow
  <2>2. Positive(p)
    BY <2>1, RefundedPositive
  <2>3. Begin(w, q) /\ UNCHANGED payments
    BY <1>11 DEF SettleRead, rows
  <2> HIDE DEF p
  <2>4. q.stage = "settling" /\ q.payment = p
    BY <1>a DEF Request
  <2> HIDE DEF q
  <2>5. StagedPositive'
    BY <2>2, <2>3, <2>4, BegunPositive
  <2> QED BY <1>c, <2>3, <2>5
<1>12. ASSUME NEW w \in Workers, SettleCommit(w)
       PROVE  CountedPaymentsPositive' /\ StagedPositive'
  <2>1. Positive(request[w].payment)
    BY <1>0, <1>12 DEF SettleCommit, StagedPositive
  <2>2. CountedPaymentsPositive'
    BY <1>0, <1>a, <1>12, <2>1 DEF SettleCommit, CountedPaymentsPositive, Positive
  <2>3. StagedPositive'
    BY <1>12, DonePositive DEF SettleCommit
  <2> QED BY <2>2, <2>3
<1>13. ASSUME UNCHANGED request PROVE StagedPositive'
  BY <1>0, <1>13 DEF StagedPositive
<1>14. ASSUME NEW p \in Payments, DeletePayment(p)
       PROVE  CountedPaymentsPositive' /\ StagedPositive'
  <2>1. CountedPaymentsPositive'
    BY <1>0, <1>a, <1>14 DEF DeletePayment, CountedPaymentsPositive, NoPayment
  <2> QED BY <2>1, <1>13, <1>14 DEF DeletePayment
<1>15. ASSUME NEW r \in Refunds, NEW p \in Payments, NEW c \in Credits, NEW i \in Invoices,
              NEW n, NEW status,
              \/ RequestRefund(r, p, n) \/ RewriteRefund(r, status, p, n) \/ DeleteRefund(r)
              \/ CreateCredit(c, n) \/ DueDatePasses(i)
       PROVE  CountedPaymentsPositive' /\ StagedPositive'
  BY <1>15, <1>c, <1>13
  DEF RequestRefund, RewriteRefund, DeleteRefund, CreateCredit, DueDatePasses
<1>16. CASE UNCHANGED vars
  BY <1>16, <1>c, <1>13 DEF vars
<1>17. 0 \in Totals /\ "draft" \in InvoiceStatus /\ Editable \subseteq Payments
  BY BoundsAssumption, SetsAssumption DEF Totals, InvoiceStatus
<1>18. /\ \E r \in Refunds : TRUE /\ \E p \in Payments : TRUE
       /\ \E c \in Credits : TRUE /\ \E i \in Invoices : TRUE
  BY SetsAssumption
<1> QED
  BY <1>1, <1>2, <1>3, <1>5, <1>7, <1>8, <1>9, <1>10, <1>11, <1>12, <1>14, <1>15,
     <1>16, <1>17, <1>18 DEF Next

(* What is collected on an invoice is made of positive parts: a payment all *)
(* of which was refunded no longer counts (complete sets it to refunded),   *)
(* however many refunds of it are requested, approved and completed at once. *)
THEOREM CountedPositive == Spec => []CountedPaymentsPositive
<1>1. Init => PositiveInv
  BY TypeInit DEF Init, PositiveInv, CountedPaymentsPositive, StagedPositive, NoPayment, Idle
<1>2. PositiveInv => CountedPaymentsPositive
  BY DEF PositiveInv
<1> QED BY <1>1, <1>2, PositiveNext, PTL DEF Spec
-----------------------------------------------------------------------------
(* Refunds, whatever the interleaving.  Link says what a request knows of   *)
(* the refund and the payment it works on: their keys and amounts change    *)
(* only on the payments of Editable, and the refund of one of those never   *)
(* leaves them; a settling request has locked its payment and holds         *)
(* the row it is going to save, and a payment about to be inserted has no   *)
(* refund yet.                                                              *)

RefundOps == {"approve", "reject", "complete"}
Requested(r) == refunds[r].status # "absent"

Current(row, f) ==
  \/ row.pay = refunds[f].pay /\ row.amount = refunds[f].amount
  \/ row.pay \in Editable /\ refunds[f].pay \in Editable

Link(r) ==
  /\ r.stage \in {"loaded", "settling"} /\ r.op \in RefundOps =>
       /\ Requested(r.ref) /\ r.refund.status # "absent"
       /\ r.refund.pay = r.pay /\ Current(r.refund, r.ref)
  /\ r.stage = "settling" =>
       /\ r.op = "complete" /\ payments[r.pay].status # "absent"
       /\ r.payment = RefundedPayment(payments[r.pay], r.refund.amount)
  /\ r.stage = "checked" =>
       /\ r.op = "pay" /\ payments[r.pay].status = "absent" /\ Unrefunded(r.pay)

Apart(q, r) ==
  /\ q.stage = "settling" /\ r.stage = "settling" => q.pay # r.pay
  /\ q.stage = "checked" /\ r.stage = "checked" => q.pay # r.pay

LinkInv ==
  /\ TypeOK
  /\ \A w \in Workers : Link(request[w])
  /\ \A v, w \in Workers : v # w => Apart(request[v], request[w])
  /\ \A p \in Payments : payments[p].status = "absent" => Unrefunded(p)

LEMMA IdleLink == Link(Idle) /\ \A r : Apart(Idle, r) /\ Apart(r, Idle)
BY DEF Idle, Link, Apart

(* A request moves on while the two tables stand still.                     *)
LEMMA LinkBegin ==
  ASSUME LinkInv, TypeOK', UNCHANGED <<payments, refunds>>, NEW w \in Workers, NEW q,
         Begin(w, q), Link(q), \A v \in Workers : v # w => Apart(request[v], q)
  PROVE  LinkInv'
<1>1. request'[w] = q /\ \A v \in Workers : v # w => request'[v] = request[v]
  BY DEF LinkInv, TypeOK, Begin
<1>2. ASSUME NEW v \in Workers PROVE Link(request[v])'
  BY <1>1 DEF LinkInv, Link, Unrefunded, Requested, Current
<1>3. \A u, v \in Workers : u # v => Apart(request[u], request[v])'
  BY <1>1 DEF LinkInv, Apart
<1>4. \A p \in Payments : payments'[p].status = "absent" => Unrefunded(p)'
  BY DEF LinkInv, Unrefunded
<1> QED BY <1>2, <1>3, <1>4 DEF LinkInv

LEMMA LinkDone ==
  ASSUME LinkInv, TypeOK', UNCHANGED <<payments, refunds>>, NEW w \in Workers, Done(w)
  PROVE  LinkInv'
<1>1. Begin(w, Idle)
  BY DEF Done, Begin
<1> QED BY <1>1, IdleLink, LinkBegin

(* A request that is at neither of the stages a link is about.              *)
LEMMA LinkFree ==
  ASSUME LinkInv, TypeOK', UNCHANGED <<payments, refunds>>, NEW w \in Workers, NEW q,
         Begin(w, q), q.stage \notin {"settling", "checked"},
         q.stage = "loaded" => q.op \notin RefundOps
  PROVE  LinkInv'
<1>1. Link(q) /\ \A r : Apart(r, q)
  BY DEF Link, Apart
<1> QED BY <1>1, LinkBegin

(* The refund a request is linked to exists, and is the one it loaded but   *)
(* for direct writes.                                                       *)
LEMMA LinkedPayment ==
  ASSUME LinkInv, NEW w \in Workers, request[w].stage \in {"loaded", "settling"},
         request[w].op \in RefundOps
  PROVE  LET r == request[w] IN
         /\ r.ref \in Refunds /\ r.pay \in Payments /\ r.refund \in RefundRow
         /\ Requested(r.ref) /\ r.refund.pay = r.pay /\ Current(r.refund, r.ref)
         /\ r.stage = "settling" => payments[r.pay].status # "absent"
<1>1. /\ request[w] \in Request /\ Link(request[w])
  BY DEF LinkInv, TypeOK
<1> QED BY <1>1 DEF Link, Request

LEMMA LinkInsert ==
  ASSUME LinkInv, TypeOK', NEW w \in Workers, InsertPayment(w)
  PROVE  LinkInv'
<1> DEFINE r == request[w]
           q == [r EXCEPT !.stage = "inserted"]
<1>1. /\ r \in Request /\ Link(r) /\ request \in [Workers -> Request]
      /\ payments \in [Payments -> PaymentRow] /\ r.pay \in Payments
  BY DEF LinkInv, TypeOK, Request
<1>2. /\ r.stage = "checked" /\ refunds' = refunds
      /\ payments' = [payments EXCEPT ![r.pay] =
           [status |-> "completed", inv |-> r.inv, amount |-> r.amount, refunded |-> 0]]
      /\ request' = [request EXCEPT ![w] = q]
  BY DEF InsertPayment, Begin
<1>3. payments[r.pay].status = "absent" /\ Unrefunded(r.pay)
  BY <1>1, <1>2 DEF Link
<1>4. /\ payments'[r.pay].status = "completed"
      /\ \A p \in Payments : p # r.pay => payments'[p] = payments[p]
  BY <1>1, <1>2
<1>5. q.stage = "inserted"
  BY <1>1 DEF Request
<1> HIDE DEF q
<1>6. request'[w] = q /\ \A v \in Workers : v # w => request'[v] = request[v]
  BY <1>1, <1>2
<1>7. ASSUME NEW v \in Workers, v # w PROVE Link(request[v])'
  <2>1. Link(request[v]) /\ request[v] \in Request /\ Apart(request[v], r)
    BY <1>1, <1>7 DEF LinkInv
  <2>2. CASE request[v].stage = "checked"
    <3>1. request[v].pay # r.pay /\ request[v].pay \in Payments
      BY <1>2, <2>1, <2>2 DEF Apart, Request
    <3> QED BY <1>2, <1>4, <1>6, <1>7, <2>1, <2>2, <3>1 DEF Link, Unrefunded
  <2>3. CASE request[v].stage = "settling"
    <3>1. request[v].pay \in Payments /\ request[v].pay # r.pay
      BY <1>3, <2>1, <2>3 DEF Link, Request
    <3> QED BY <1>2, <1>4, <1>6, <1>7, <2>1, <2>3, <3>1 DEF Link, Requested, Current
  <2>4. CASE request[v].stage \notin {"checked", "settling"}
    BY <1>2, <1>6, <1>7, <2>1, <2>4 DEF Link, Requested, Current
  <2> QED BY <2>2, <2>3, <2>4
<1>8. Link(request[w])'
  BY <1>5, <1>6 DEF Link
<1>9. \A u, v \in Workers : u # v => Apart(request[u], request[v])'
  BY <1>5, <1>6 DEF LinkInv, Apart
<1>10. \A p \in Payments : payments'[p].status = "absent" => Unrefunded(p)'
  BY <1>2, <1>4 DEF LinkInv, Unrefunded
<1> QED BY <1>7, <1>8, <1>9, <1>10 DEF LinkInv

LEMMA LinkDelete ==
  ASSUME LinkInv, TypeOK', NEW d \in Payments, DeletePayment(d)
  PROVE  LinkInv'
<1>1. /\ Unrefunded(d) /\ refunds' = refunds /\ request' = request
      /\ payments' = [payments EXCEPT ![d] = NoPayment]
      /\ \A v \in Workers : request[v].stage = "settling" => request[v].pay # d
  BY DEF DeletePayment, Unlocked
<1>2. payments \in [Payments -> PaymentRow] /\ request \in [Workers -> Request]
  BY DEF LinkInv, TypeOK
<1>3. /\ payments'[d].status = "absent"
      /\ \A p \in Payments : p # d => payments'[p] = payments[p]
  BY <1>1, <1>2 DEF NoPayment
<1>4. ASSUME NEW v \in Workers PROVE Link(request[v])'
  <2>1. Link(request[v]) /\ request[v] \in Request
    BY <1>2 DEF LinkInv
  <2>2. CASE request[v].stage = "settling"
    <3>1. request[v].pay \in Payments /\ request[v].pay # d
      BY <1>1, <2>1, <2>2 DEF Request
    <3> QED BY <1>1, <1>3, <2>1, <2>2, <3>1 DEF Link, Requested, Current
  <2>3. CASE request[v].stage = "checked"
    BY <1>1, <1>3, <2>1, <2>3 DEF Link, Unrefunded, Request
  <2>4. CASE request[v].stage \notin {"checked", "settling"}
    BY <1>1, <2>1, <2>4 DEF Link, Requested, Current
  <2> QED BY <2>2, <2>3, <2>4
<1>5. \A u, v \in Workers : u # v => Apart(request[u], request[v])'
  BY <1>1 DEF LinkInv, Apart
<1>6. \A p \in Payments : payments'[p].status = "absent" => Unrefunded(p)'
  BY <1>1, <1>3 DEF LinkInv, Unrefunded
<1> QED BY <1>4, <1>5, <1>6 DEF LinkInv

LEMMA LinkRequest ==
  ASSUME LinkInv, TypeOK', NEW f \in Refunds, NEW d \in Payments, NEW n, RequestRefund(f, d, n)
  PROVE  LinkInv'
<1>1. /\ refunds[f].status = "absent" /\ payments[d].status # "absent"
      /\ payments' = payments /\ request' = request
      /\ refunds' = [refunds EXCEPT ![f] = [status |-> "pending", pay |-> d, amount |-> n]]
  BY DEF RequestRefund
<1>2. refunds \in [Refunds -> RefundRow] /\ request \in [Workers -> Request]
  BY DEF LinkInv, TypeOK
<1>3. refunds'[f].pay = d /\ \A r \in Refunds : r # f => refunds'[r] = refunds[r]
  BY <1>1, <1>2
<1>4. \A p \in Payments : p # d /\ Unrefunded(p) => Unrefunded(p)'
  BY <1>3 DEF Unrefunded
<1>5. ASSUME NEW v \in Workers PROVE Link(request[v])'
  <2>1. Link(request[v]) /\ request[v] \in Request
    BY <1>2 DEF LinkInv
  <2>2. CASE request[v].stage \in {"loaded", "settling"} /\ request[v].op \in RefundOps
    <3>1. request[v].ref \in Refunds /\ request[v].ref # f
      BY <1>1, <2>2, LinkedPayment DEF Requested
    <3> QED BY <1>1, <1>3, <2>1, <2>2, <3>1 DEF Link, Requested, Current
  <2>3. CASE request[v].stage = "checked"
    <3>1. request[v].pay \in Payments /\ request[v].pay # d
      BY <1>1, <2>1, <2>3 DEF Link, Request
    <3> QED BY <1>1, <1>4, <2>1, <2>3, <3>1 DEF Link
  <2>4. CASE /\ ~(request[v].stage \in {"loaded", "settling"} /\ request[v].op \in RefundOps)
             /\ request[v].stage # "checked"
    <3>1. request[v].stage # "settling"
      BY <2>1, <2>4 DEF Link, RefundOps
    <3> QED BY <1>1, <2>1, <2>4, <3>1 DEF Link
  <2> QED BY <2>2, <2>3, <2>4
<1>6. \A u, v \in Workers : u # v => Apart(request[u], request[v])'
  BY <1>1 DEF LinkInv, Apart
<1>7. \A p \in Payments : payments'[p].status = "absent" => Unrefunded(p)'
  BY <1>1, <1>4 DEF LinkInv
<1> QED BY <1>5, <1>6, <1>7 DEF LinkInv

(* Saving the refund a request holds keeps its payment and its amount, or   *)
(* leaves it on the payments of Editable.                                   *)
LEMMA RefundSaved ==
  ASSUME LinkInv, NEW w \in Workers, request[w].stage \in {"loaded", "settling"},
         request[w].op \in RefundOps, NEW s, s # "absent",
         refunds' = [refunds EXCEPT ![request[w].ref] = [request[w].refund EXCEPT !.status = s]]
  PROVE  LET r == request[w] IN
         /\ refunds'[r.ref].status = s /\ refunds'[r.ref].pay = r.pay
         /\ refunds'[r.ref].amount = r.refund.amount
         /\ \A z \in Refunds : /\ z # r.ref => refunds'[z] = refunds[z]
                               /\ Current(refunds'[z], z)
                               /\ Requested(z)' <=> Requested(z)
         /\ \A p \in Payments : p # r.pay /\ Unrefunded(p) => Unrefunded(p)'
<1> DEFINE r == request[w]
           row == [r.refund EXCEPT !.status = s]
<1>1. refunds \in [Refunds -> RefundRow]
  BY DEF LinkInv, TypeOK
<1>2. /\ r.ref \in Refunds /\ r.refund \in RefundRow /\ Requested(r.ref)
      /\ r.refund.pay = r.pay /\ Current(r.refund, r.ref)
  BY LinkedPayment
<1>3. row.status = s /\ row.pay = r.pay /\ row.amount = r.refund.amount
  BY <1>2 DEF RefundRow
<1> HIDE DEF row
<1>4. refunds'[r.ref] = row /\ \A z \in Refunds : z # r.ref => refunds'[z] = refunds[z]
  BY <1>1, <1>2 DEF row
<1>5. \A z \in Refunds : Current(refunds'[z], z) /\ (Requested(z)' <=> Requested(z))
  BY <1>2, <1>3, <1>4 DEF Requested, Current
<1>6. \A p \in Payments : p # r.pay /\ Unrefunded(p) => Unrefunded(p)'
  BY <1>2, <1>3, <1>4 DEF Unrefunded
<1> QED BY <1>3, <1>4, <1>5, <1>6

(* What another request knows of a refund survives that.                    *)
LEMMA StillCurrent ==
  ASSUME NEW row, NEW f, Current(row, f), Current(refunds'[f], f)
  PROVE  Current(row, f)'
BY DEF Current

LEMMA LinkDecision ==
  ASSUME LinkInv, TypeOK', NEW w \in Workers, SaveDecision(w)
  PROVE  LinkInv'
<1> DEFINE s == IF request[w].op = "approve" THEN "approved" ELSE "rejected"
<1>1. /\ request[w].stage = "loaded" /\ request[w].op \in RefundOps
      /\ refunds' = [refunds EXCEPT ![request[w].ref] = [request[w].refund EXCEPT !.status = s]]
      /\ request' = [request EXCEPT ![w] = Idle] /\ payments' = payments /\ s # "absent"
      /\ payments[request[w].pay].status # "absent"
  BY DEF SaveDecision, RefundOps, Done
<1> HIDE DEF s
<1>2. /\ \A z \in Refunds : Current(refunds'[z], z) /\ (Requested(z)' <=> Requested(z))
      /\ \A p \in Payments : p # request[w].pay /\ Unrefunded(p) => Unrefunded(p)'
  BY <1>1, RefundSaved
<1>3. request \in [Workers -> Request]
  BY DEF LinkInv, TypeOK
<1>4. request'[w] = Idle /\ \A v \in Workers : v # w => request'[v] = request[v]
  BY <1>1, <1>3
<1>5. ASSUME NEW v \in Workers, v # w PROVE Link(request[v])'
  <2>1. Link(request[v]) /\ request[v].ref \in Refunds /\ request[v].pay \in Payments
    BY <1>3 DEF LinkInv, Request
  <2>2. Current(request[v].refund, request[v].ref) => Current(request[v].refund, request[v].ref)'
    BY <1>2, <1>4, <1>5, <2>1, StillCurrent
  <2> QED BY <1>1, <1>2, <1>4, <1>5, <2>1, <2>2 DEF Link
<1>6. Link(request[w])'
  BY <1>4 DEF Link, Idle
<1>7. \A u, v \in Workers : u # v => Apart(request[u], request[v])'
  BY <1>4, IdleLink DEF LinkInv, Apart, Idle
<1>8. \A p \in Payments : payments'[p].status = "absent" => Unrefunded(p)'
  BY <1>1, <1>2 DEF LinkInv
<1> QED BY <1>5, <1>6, <1>7, <1>8 DEF LinkInv

(* A direct write of a refund, of the payments of Editable.                 *)
Rewriting(f) ==
  \/ \E status \in RefundStatus, p \in Editable, n \in Amount : RewriteRefund(f, status, p, n)
  \/ DeleteRefund(f)

LEMMA RewriteWrites ==
  ASSUME LinkInv, NEW f \in Refunds, Rewriting(f)
  PROVE  /\ payments' = payments /\ request' = request
         /\ refunds[f].pay \in Editable /\ refunds'[f].pay \in Editable
         /\ payments[refunds'[f].pay].status # "absent" \/ refunds'[f].status = "deleted"
         /\ Requested(f) /\ Requested(f)'
         /\ \A z \in Refunds : z # f => refunds'[z] = refunds[z]
<1>1. refunds \in [Refunds -> RefundRow]
  BY DEF LinkInv, TypeOK
<1>2. ASSUME NEW status \in RefundStatus, NEW p \in Editable, NEW n \in Amount,
             RewriteRefund(f, status, p, n)
      PROVE  /\ refunds'[f].pay = p /\ refunds'[f].status # "absent"
             /\ \A z \in Refunds : z # f => refunds'[z] = refunds[z]
  BY <1>1, <1>2 DEF RewriteRefund, RefundStatus
<1>3. ASSUME DeleteRefund(f)
      PROVE  /\ refunds'[f].pay = refunds[f].pay /\ refunds'[f].status = "deleted"
             /\ \A z \in Refunds : z # f => refunds'[z] = refunds[z]
  BY <1>1, <1>3 DEF DeleteRefund, RefundRow
<1> QED BY <1>2, <1>3 DEF Rewriting, RewriteRefund, DeleteRefund, Written, Requested

LEMMA LinkRewrite ==
  ASSUME LinkInv, TypeOK', NEW f \in Refunds, Rewriting(f)
  PROVE  LinkInv'
<1>1. /\ payments' = payments /\ request' = request
      /\ payments[refunds'[f].pay].status # "absent" \/ refunds'[f].status = "deleted"
      /\ \A z \in Refunds : z # f => refunds'[z] = refunds[z]
  BY RewriteWrites
<1>2. \A z \in Refunds : Current(refunds'[z], z) /\ (Requested(z)' <=> Requested(z))
  BY RewriteWrites DEF Current, Requested
<1>3. \A p \in Payments : payments[p].status = "absent" /\ Unrefunded(p) => Unrefunded(p)'
  BY <1>1 DEF Unrefunded
<1>4. ASSUME NEW v \in Workers PROVE Link(request[v])'
  <2>1. Link(request[v]) /\ request[v].ref \in Refunds /\ request[v].pay \in Payments
    BY DEF LinkInv, TypeOK, Request
  <2>2. Current(request[v].refund, request[v].ref) => Current(request[v].refund, request[v].ref)'
    BY <1>1, <1>2, <2>1, StillCurrent
  <2> QED BY <1>1, <1>2, <1>3, <2>1, <2>2 DEF Link
<1>5. \A u, v \in Workers : u # v => Apart(request[u], request[v])'
  BY <1>1 DEF LinkInv, Apart
<1>6. \A p \in Payments : payments'[p].status = "absent" => Unrefunded(p)'
  BY <1>1, <1>3 DEF LinkInv
<1> QED BY <1>4, <1>5, <1>6 DEF LinkInv

(* What a completion writes.                                                *)
LEMMA SettleWrites ==
  ASSUME LinkInv, NEW w \in Workers, SettleCommit(w)
  PROVE  LET r == request[w] IN
         /\ r.stage = "settling" /\ r.op = "complete" /\ r.pay \in Payments /\ r.ref \in Refunds
         /\ payments[r.pay].status # "absent"
         /\ refunds' = [refunds EXCEPT ![r.ref] = [r.refund EXCEPT !.status = "completed"]]
         /\ payments'[r.pay] = RefundedPayment(payments[r.pay], r.refund.amount)
         /\ payments'[r.pay] = r.payment
         /\ payments'[r.pay].status # "absent"
         /\ payments'[r.pay].refunded = payments[r.pay].refunded + r.refund.amount
         /\ \A p \in Payments : p # r.pay => payments'[p] = payments[p]
<1> DEFINE r == request[w]
<1>1. /\ r \in Request /\ Link(r) /\ payments \in [Payments -> PaymentRow]
      /\ refunds \in [Refunds -> RefundRow]
  BY DEF LinkInv, TypeOK
<1>2. /\ r.stage = "settling"
      /\ refunds' = [refunds EXCEPT ![r.ref] = [r.refund EXCEPT !.status = "completed"]]
      /\ payments' = [payments EXCEPT ![r.pay] = r.payment]
  BY DEF SettleCommit
<1>3. /\ r.op = "complete" /\ r.payment = RefundedPayment(payments[r.pay], r.refund.amount)
      /\ payments[r.pay].status # "absent"
  BY <1>1, <1>2 DEF Link
<1>4. r.pay \in Payments /\ r.ref \in Refunds /\ r.refund \in RefundRow
  BY <1>1 DEF Request
<1>5. payments'[r.pay] = r.payment /\ \A p \in Payments : p # r.pay => payments'[p] = payments[p]
  BY <1>1, <1>2, <1>4
<1>6. payments[r.pay] \in PaymentRow /\ r.refund.amount \in Nat
  BY <1>1, <1>4 DEF RefundRow
<1>7. r.payment.refunded = payments[r.pay].refunded + r.refund.amount
  BY <1>3, <1>6, RefundedType
<1>8. r.payment.status # "absent"
  BY <1>3, <1>6 DEF RefundedPayment
<1> QED BY <1>2, <1>3, <1>4, <1>5, <1>7, <1>8

LEMMA LinkSettle ==
  ASSUME LinkInv, TypeOK', NEW w \in Workers, SettleCommit(w)
  PROVE  LinkInv'
<1> DEFINE r == request[w]
<1>1. /\ r.stage = "settling" /\ r.op = "complete" /\ r.pay \in Payments
      /\ payments[r.pay].status # "absent" /\ payments'[r.pay].status # "absent"
      /\ refunds' = [refunds EXCEPT ![r.ref] = [r.refund EXCEPT !.status = "completed"]]
      /\ \A p \in Payments : p # r.pay => payments'[p] = payments[p]
  BY SettleWrites
<1>2. request' = [request EXCEPT ![w] = Idle] /\ request \in [Workers -> Request]
  BY DEF SettleCommit, Done, LinkInv, TypeOK
<1>3. /\ \A z \in Refunds : Current(refunds'[z], z) /\ (Requested(z)' <=> Requested(z))
      /\ \A p \in Payments : p # r.pay /\ Unrefunded(p) => Unrefunded(p)'
  BY <1>1, RefundSaved DEF RefundOps
<1>4. request'[w] = Idle /\ \A v \in Workers : v # w => request'[v] = request[v]
  BY <1>2
<1>5. ASSUME NEW v \in Workers, v # w PROVE Link(request[v])'
  <2>1. /\ Link(request[v]) /\ request[v].ref \in Refunds /\ request[v].pay \in Payments
        /\ Apart(request[v], r)
    BY <1>2, <1>5 DEF LinkInv, Request
  <2>2. Current(request[v].refund, request[v].ref) => Current(request[v].refund, request[v].ref)'
    BY <1>3, <1>4, <1>5, <2>1, StillCurrent
  <2>3. CASE request[v].stage \in {"settling", "checked"}
    <3>1. request[v].pay # r.pay
      BY <1>1, <2>1, <2>3 DEF Apart, Link
    <3> QED BY <1>1, <1>3, <1>4, <1>5, <2>1, <2>2, <2>3, <3>1 DEF Link
  <2>4. CASE request[v].stage \notin {"settling", "checked"}
    BY <1>3, <1>4, <1>5, <2>1, <2>2, <2>4 DEF Link
  <2> QED BY <2>3, <2>4
<1>6. Link(request[w])'
  BY <1>4 DEF Link, Idle
<1>7. \A u, v \in Workers : u # v => Apart(request[u], request[v])'
  BY <1>4 DEF LinkInv, Apart, Idle
<1>8. \A p \in Payments : payments'[p].status = "absent" => Unrefunded(p)'
  BY <1>1, <1>3 DEF LinkInv
<1> QED BY <1>5, <1>6, <1>7, <1>8 DEF LinkInv

LEMMA LinkCheck ==
  ASSUME LinkInv, TypeOK', NEW w \in Workers, NEW p \in Payments, NEW i \in Invoices,
         NEW n \in Amount, CheckPayment(w, p, i, n)
  PROVE  LinkInv'
<1> DEFINE q == [Idle EXCEPT !.stage = "checked", !.op = "pay", !.inv = i,
                             !.pay = p, !.amount = n, !.row = invoices[i]]
<1>1. /\ Begin(w, q) /\ UNCHANGED <<payments, refunds>>
      /\ payments[p].status = "absent" /\ Unrefunded(p)
      /\ \A v \in Workers : IsIdle(v) \/ request[v].pay # p \/ request[v].op # "pay"
  BY DEF CheckPayment, rows, Unrefunded
<1>2. q.stage = "checked" /\ q.op = "pay" /\ q.pay = p
  BY DEF Idle
<1> HIDE DEF q
<1>3. Link(q)
  BY <1>1, <1>2 DEF Link
<1>4. ASSUME NEW v \in Workers, v # w PROVE Apart(request[v], q)
  <2>1. request[v].stage = "checked" => request[v].op = "pay"
    BY DEF LinkInv, Link
  <2> QED BY <1>1, <1>2, <2>1 DEF Apart, IsIdle
<1> QED BY <1>1, <1>3, <1>4, LinkBegin

LEMMA LinkLoad ==
  ASSUME LinkInv, TypeOK', NEW w \in Workers, NEW f \in Refunds, NEW op \in RefundOps,
         LoadRefund(w, f, op)
  PROVE  LinkInv'
<1> DEFINE q == [Idle EXCEPT !.stage = "loaded", !.op = op, !.ref = f,
                             !.pay = refunds[f].pay, !.refund = refunds[f]]
<1>1. Begin(w, q) /\ UNCHANGED <<payments, refunds>> /\ refunds[f].status # "absent"
  BY DEF LoadRefund, rows, Required
<1>2. /\ q.stage = "loaded" /\ q.ref = f /\ q.pay = refunds[f].pay /\ q.refund = refunds[f]
  BY DEF Idle
<1> HIDE DEF q
<1>3. Link(q) /\ \A v \in Workers : Apart(request[v], q)
  BY <1>1, <1>2 DEF Link, Requested, Apart, Current
<1> QED BY <1>1, <1>3, LinkBegin

LEMMA LinkSettleRead ==
  ASSUME LinkInv, TypeOK', NEW w \in Workers, SettleRead(w)
  PROVE  LinkInv'
<1> DEFINE r == request[w]
           p == RefundedPayment(payments[r.pay], r.refund.amount)
           q == [r EXCEPT !.stage = "settling", !.payment = p, !.inv = p.inv,
                          !.row = invoices[p.inv],
                          !.collected = Collected(p.inv) - Net(payments[r.pay]) + Net(p)]
<1>1. /\ Begin(w, q) /\ UNCHANGED <<payments, refunds>>
      /\ r.stage = "loaded" /\ r.op = "complete" /\ PaymentFree(w, r.pay)
      /\ payments[r.pay].status # "absent"
  BY DEF SettleRead, rows
<1>2. r \in Request /\ Link(r)
  BY DEF LinkInv, TypeOK
<1> HIDE DEF p
<1>3. /\ q.stage = "settling" /\ q.op = r.op /\ q.ref = r.ref /\ q.pay = r.pay
      /\ q.refund = r.refund /\ q.payment = p
  BY <1>2 DEF Request
<1> HIDE DEF q
<1>4. Link(q)
  BY <1>1, <1>2, <1>3 DEF Link, RefundOps, p
<1>5. \A v \in Workers : v # w => Apart(request[v], q)
  BY <1>1, <1>3 DEF Apart, PaymentFree, Free
<1> QED BY <1>1, <1>4, <1>5, LinkBegin

LEMMA LinkNext == LinkInv /\ [Next]_vars => LinkInv'
<1> SUFFICES ASSUME LinkInv, [Next]_vars PROVE LinkInv'
  OBVIOUS
<1>0. TypeOK'
  BY TypeNext DEF LinkInv
<1>1. ASSUME NEW w \in Workers, NEW p \in Payments, NEW i \in Invoices, NEW n \in Amount,
             CheckPayment(w, p, i, n)
      PROVE  LinkInv'
  BY <1>0, <1>1, LinkCheck
<1>2. ASSUME NEW w \in Workers, InsertPayment(w) PROVE LinkInv'
  BY <1>0, <1>2, LinkInsert
<1>3. ASSUME NEW w \in Workers, SumCollections(w) PROVE LinkInv'
  <2> DEFINE q == [request[w] EXCEPT !.stage = "summed", !.collected = Collected(request[w].inv)]
  <2>1. q.stage = "summed"
    BY DEF LinkInv, TypeOK, Request
  <2>2. Begin(w, q) /\ UNCHANGED <<payments, refunds>>
    BY <1>3 DEF SumCollections, rows
  <2> HIDE DEF q
  <2> QED BY <1>0, <2>1, <2>2, LinkFree
<1>4. ASSUME NEW w \in Workers,
             SaveCollections(w) \/ IssueCredit(w) \/ ApplyCommit(w) \/ Abort(w)
      PROVE  LinkInv'
  <2>1. Done(w) /\ UNCHANGED <<payments, refunds>>
    BY <1>4 DEF SaveCollections, IssueCredit, ApplyCommit, Abort, rows
  <2> QED BY <1>0, <2>1, LinkDone
<1>5. ASSUME NEW w \in Workers, NEW n \in Totals, NEW status \in InvoiceStatus,
             SaveLoaded(w, n, status)
      PROVE  LinkInv'
  BY <1>0, <1>5, LinkDone DEF SaveLoaded
<1>6. ASSUME NEW w \in Workers, NEW f \in Refunds, NEW op \in {"approve", "reject", "complete"},
             LoadRefund(w, f, op)
      PROVE  LinkInv'
  BY <1>0, <1>6, LinkLoad DEF RefundOps
<1>7. ASSUME NEW w \in Workers, SaveDecision(w) PROVE LinkInv'
  BY <1>0, <1>7, LinkDecision
<1>8. ASSUME NEW w \in Workers, SettleRead(w) PROVE LinkInv'
  BY <1>0, <1>8, LinkSettleRead
<1>9. ASSUME NEW w \in Workers, SettleCommit(w) PROVE LinkInv'
  BY <1>0, <1>9, LinkSettle
<1>10. ASSUME NEW w \in Workers, NEW c \in Credits, LoadCredit(w, c) PROVE LinkInv'
  <2> DEFINE q == [Idle EXCEPT !.stage = "loaded", !.op = "issue", !.cred = c,
                               !.credit = credits[c]]
  <2>1. q.stage = "loaded" /\ q.op \notin RefundOps
    BY DEF Idle, RefundOps
  <2>2. Begin(w, q) /\ UNCHANGED <<payments, refunds>>
    BY <1>10 DEF LoadCredit, rows
  <2> HIDE DEF q
  <2> QED BY <1>0, <2>1, <2>2, LinkFree
<1>11. ASSUME NEW w \in Workers, NEW c \in Credits, NEW i \in Invoices, NEW n \in Amount,
              ApplyRead(w, c, i, n)
       PROVE  LinkInv'
  <2> DEFINE q == [Idle EXCEPT !.stage = "applying", !.op = "apply", !.cred = c, !.inv = i,
                     !.amount = n, !.row = invoices[i], !.collected = Collected(i) + n]
  <2>1. q.stage = "applying"
    BY DEF Idle
  <2>2. Begin(w, q) /\ UNCHANGED <<payments, refunds>>
    BY <1>11 DEF ApplyRead, rows
  <2> HIDE DEF q
  <2> QED BY <1>0, <2>1, <2>2, LinkFree
<1>12. ASSUME NEW w \in Workers, NEW i \in Invoices, NEW op \in InvoiceOps,
              LoadInvoice(w, i, op)
       PROVE  LinkInv'
  <2> DEFINE q == [Idle EXCEPT !.stage = "loaded", !.op = op, !.inv = i, !.row = invoices[i]]
  <2>1. q.stage = "loaded" /\ q.op \notin RefundOps
    BY SetsAssumption DEF Idle, RefundOps
  <2>2. Begin(w, q) /\ UNCHANGED <<payments, refunds>>
    BY <1>12 DEF LoadInvoice, rows
  <2> HIDE DEF q
  <2> QED BY <1>0, <2>1, <2>2, LinkFree
<1>13. ASSUME NEW p \in Payments, DeletePayment(p) PROVE LinkInv'
  BY <1>0, <1>13, LinkDelete
<1>14. ASSUME NEW f \in Refunds, NEW p \in Payments, NEW n \in Amount, RequestRefund(f, p, n)
       PROVE  LinkInv'
  BY <1>0, <1>14, LinkRequest
<1>15. ASSUME UNCHANGED <<payments, refunds, request>> PROVE LinkInv'
  <2>1. \A v \in Workers : Link(request[v])'
    BY <1>15 DEF LinkInv, Link, Unrefunded, Requested, Current
  <2>2. \A u, v \in Workers : u # v => Apart(request[u], request[v])'
    BY <1>15 DEF LinkInv, Apart
  <2>3. \A p \in Payments : payments'[p].status = "absent" => Unrefunded(p)'
    BY <1>15 DEF LinkInv, Unrefunded
  <2> QED BY <1>0, <2>1, <2>2, <2>3 DEF LinkInv
<1>16. ASSUME NEW c \in Credits, NEW n \in Totals, CreateCredit(c, n) PROVE LinkInv'
  BY <1>15, <1>16 DEF CreateCredit
<1>17. ASSUME NEW i \in Invoices, DueDatePasses(i) PROVE LinkInv'
  BY <1>15, <1>17 DEF DueDatePasses
<1>18. CASE UNCHANGED vars
  BY <1>15, <1>18 DEF vars
<1>19. ASSUME NEW f \in Refunds, Rewriting(f) PROVE LinkInv'
  BY <1>0, <1>19, LinkRewrite
<1> QED
  BY <1>1, <1>2, <1>3, <1>4, <1>5, <1>6, <1>7, <1>8, <1>9, <1>10, <1>11, <1>12, <1>13,
     <1>14, <1>16, <1>17, <1>18, <1>19 DEF Next, Rewriting

LEMMA LinkInit == Init => LinkInv
<1> SUFFICES ASSUME Init PROVE LinkInv
  OBVIOUS
<1>1. \A w \in Workers : request[w] = Idle
  BY DEF Init
<1>2. \A p \in Payments : Unrefunded(p)
  BY DEF Init, Unrefunded, NoRefund
<1> QED BY <1>1, <1>2, TypeInit, IdleLink DEF LinkInv
-----------------------------------------------------------------------------
(* What the completed refunds of a payment paid out, a sum over the refund  *)
(* table, and how it changes with one row of it.                            *)

Share(f, p) == IF f \in CompletedRefunds(p) THEN refunds[f].amount ELSE 0

LEMMA PaidOutType ==
  ASSUME TypeOK, IsFiniteSet(Refunds), NEW p
  PROVE  PaidOut(p) \in Int
<1> DEFINE amounts == [r \in Refunds |-> refunds[r].amount]
<1>1. \A r \in Refunds : amounts[r] \in Int
  BY DEF TypeOK, RefundRow
<1>2. PaidOut(p) = Sum(amounts, CompletedRefunds(p))
  BY DEF PaidOut, SumOver, Sum
<1>3. CompletedRefunds(p) \in SUBSET Refunds
  BY DEF CompletedRefunds
<1> HIDE DEF amounts
<1> QED BY <1>1, <1>2, <1>3, SumInt

LEMMA OneRefundPaid ==
  ASSUME TypeOK, TypeOK', IsFiniteSet(Refunds), NEW f \in Refunds,
         \A r \in Refunds : r # f => refunds'[r] = refunds[r], NEW p
  PROVE  PaidOut(p)' = PaidOut(p) - Share(f, p) + Share(f, p)'
<1> DEFINE old == [r \in Refunds |-> refunds[r].amount]
           new == [r \in Refunds |-> refunds'[r].amount]
           T == CompletedRefunds(p)
           U == CompletedRefunds(p)'
<1>1. \A r \in Refunds : old[r] \in Int /\ new[r] \in Int
  BY DEF TypeOK, RefundRow
<1>2. \A r \in Refunds : r # f => old[r] = new[r]
  OBVIOUS
<1>3. T \in SUBSET Refunds /\ U \in SUBSET Refunds /\ T \ {f} = U \ {f}
  BY DEF CompletedRefunds
<1>4. PaidOut(p) = Sum(old, T) /\ PaidOut(p)' = Sum(new, U)
  BY DEF PaidOut, SumOver, Sum
<1>5. /\ Share(f, p) = IF f \in T THEN old[f] ELSE 0
      /\ Share(f, p)' = IF f \in U THEN new[f] ELSE 0
  BY DEF Share
<1> HIDE DEF old, new, T, U
<1>6. Sum(new, U) = Sum(old, T) - (IF f \in T THEN old[f] ELSE 0)
                      + (IF f \in U THEN new[f] ELSE 0)
  BY <1>1, <1>2, <1>3, SumChange
<1> QED BY <1>4, <1>5, <1>6

LEMMA NothingPaidOut ==
  ASSUME NEW p, Unrefunded(p) PROVE PaidOut(p) = 0
<1>1. CompletedRefunds(p) = {}
  BY DEF Unrefunded, CompletedRefunds
<1> QED BY <1>1, SumEmpty DEF PaidOut, SumOver, Sum

(* The steps that write one of the two tables.                              *)
LEMMA RefundSteps ==
  ASSUME [Next]_vars
  PROVE  \/ UNCHANGED <<payments, refunds>>
         \/ \E w \in Workers : InsertPayment(w) \/ SaveDecision(w) \/ SettleCommit(w)
         \/ \E p \in Payments : DeletePayment(p)
         \/ \E f \in Refunds, p \in Payments, n \in Amount : RequestRefund(f, p, n)
         \/ \E f \in Refunds : Rewriting(f)
<1> DEFINE Still == UNCHANGED <<payments, refunds>>
<1>1. ASSUME NEW w \in Workers, NEW p \in Payments, NEW i \in Invoices, NEW n \in Amount, CheckPayment(w, p, i, n) PROVE Still
  BY <1>1 DEF CheckPayment, rows
<1>2. ASSUME NEW w \in Workers, SumCollections(w) \/ SaveCollections(w) PROVE Still
  BY <1>2 DEF SumCollections, SaveCollections, rows
<1>3. ASSUME NEW w \in Workers, NEW f \in Refunds, NEW op \in {"approve", "reject", "complete"},
             LoadRefund(w, f, op) PROVE Still
  BY <1>3 DEF LoadRefund, rows
<1>4. ASSUME NEW w \in Workers, SettleRead(w) PROVE Still
  BY <1>4 DEF SettleRead, rows
<1>5. ASSUME NEW w \in Workers, NEW c \in Credits, LoadCredit(w, c) PROVE Still
  BY <1>5 DEF LoadCredit, rows
<1>6. ASSUME NEW w \in Workers, IssueCredit(w) \/ ApplyCommit(w) \/ Abort(w) PROVE Still
  BY <1>6 DEF IssueCredit, ApplyCommit, Abort, rows
<1>7. ASSUME NEW w \in Workers, NEW c \in Credits, NEW i \in Invoices, NEW n \in Amount,
             ApplyRead(w, c, i, n) PROVE Still
  BY <1>7 DEF ApplyRead, rows
<1>8. ASSUME NEW w \in Workers, NEW i \in Invoices, NEW op \in InvoiceOps, LoadInvoice(w, i, op) PROVE Still
  BY <1>8 DEF LoadInvoice, rows
<1>9. ASSUME NEW w \in Workers, NEW n \in Totals, NEW status \in InvoiceStatus,
             SaveLoaded(w, n, status) PROVE Still
  BY <1>9 DEF SaveLoaded, rows
<1>10. ASSUME NEW c \in Credits, NEW n \in Totals, CreateCredit(c, n) PROVE Still
  BY <1>10 DEF CreateCredit
<1>11. ASSUME NEW i \in Invoices, DueDatePasses(i) PROVE Still
  BY <1>11 DEF DueDatePasses
<1>12. UNCHANGED vars => Still
  BY DEF vars
<1> HIDE DEF Still
<1>13. \/ Still
       \/ \E w \in Workers : InsertPayment(w) \/ SaveDecision(w) \/ SettleCommit(w)
       \/ \E p \in Payments : DeletePayment(p)
       \/ \E f \in Refunds, p \in Payments, n \in Amount : RequestRefund(f, p, n)
       \/ \E f \in Refunds : Rewriting(f)
  BY <1>1, <1>2, <1>3, <1>4, <1>5, <1>6, <1>7, <1>8, <1>9, <1>10, <1>11, <1>12
  DEF Next, Rewriting
<1> QED BY <1>13 DEF Still

-----------------------------------------------------------------------------
(* No completed refund is missing from its payment.                         *)

AccountedInv == LinkInv /\ RefundsAccounted

LEMMA AccountedKept ==
  ASSUME AccountedInv, UNCHANGED <<payments, refunds>> PROVE RefundsAccounted'
BY DEF AccountedInv, RefundsAccounted, PaidOut, CompletedRefunds, SumOver

(* A payment that appears or goes has no refund.                            *)
LEMMA UnrefundedZero ==
  ASSUME NEW d \in Payments, Unrefunded(d), UNCHANGED refunds
  PROVE  PaidOut(d)' = 0 /\ \A p \in Payments : PaidOut(p)' = PaidOut(p)
<1>1. Unrefunded(d)' /\ \A p \in Payments : PaidOut(p)' = PaidOut(p)
  BY DEF Unrefunded, PaidOut, CompletedRefunds, SumOver
<1> QED BY <1>1, NothingPaidOut

LEMMA InsertAccounted ==
  ASSUME LinkInv, NEW w \in Workers, InsertPayment(w)
  PROVE  /\ request[w].pay \in Payments /\ Unrefunded(request[w].pay) /\ UNCHANGED refunds
         /\ payments'[request[w].pay].refunded = 0
         /\ \A p \in Payments : p # request[w].pay => payments'[p] = payments[p]
<1>1. /\ request[w] \in Request /\ Link(request[w]) /\ payments \in [Payments -> PaymentRow]
  BY DEF LinkInv, TypeOK
<1> QED BY <1>1 DEF Link, Request, InsertPayment

LEMMA DeleteAccounted ==
  ASSUME LinkInv, NEW d \in Payments, DeletePayment(d)
  PROVE  /\ Unrefunded(d) /\ UNCHANGED refunds /\ payments'[d].refunded = 0
         /\ \A p \in Payments : p # d => payments'[p] = payments[p]
BY DEF DeletePayment, Unrefunded, LinkInv, TypeOK, NoPayment

(* A requested refund is not completed, before or after.                    *)
LEMMA RequestShare ==
  ASSUME LinkInv, NEW f \in Refunds, NEW d \in Payments, NEW n, RequestRefund(f, d, n), NEW p
  PROVE  /\ Share(f, p) = 0 /\ Share(f, p)' = 0 /\ UNCHANGED payments
         /\ \A r \in Refunds : r # f => refunds'[r] = refunds[r]
BY DEF RequestRefund, LinkInv, TypeOK, Share, CompletedRefunds

(* A decision never completes a refund; a completion completes one and      *)
(* leaves what is refunded on other payments alone.                         *)
LEMMA DecisionShare ==
  ASSUME LinkInv, NEW w \in Workers, SaveDecision(w), NEW f, f = request[w].ref, NEW p
  PROVE  /\ f \in Refunds /\ UNCHANGED payments /\ Share(f, p)' = 0
         /\ \A r \in Refunds : r # f => refunds'[r] = refunds[r]
<1> DEFINE s == IF request[w].op = "approve" THEN "approved" ELSE "rejected"
<1>1. /\ request[w].stage = "loaded" /\ request[w].op \in RefundOps
      /\ refunds' = [refunds EXCEPT ![request[w].ref] = [request[w].refund EXCEPT !.status = s]]
      /\ payments' = payments /\ s # "absent" /\ s # "completed"
  BY DEF SaveDecision, RefundOps
<1> HIDE DEF s
<1>2. /\ refunds'[request[w].ref].status = s
      /\ \A r \in Refunds : r # request[w].ref => refunds'[r] = refunds[r]
  BY <1>1, RefundSaved
<1>3. request[w].ref \in Refunds
  BY <1>1, LinkedPayment
<1> QED BY <1>1, <1>2, <1>3 DEF Share, CompletedRefunds

LEMMA SettleShare ==
  ASSUME LinkInv, NEW w \in Workers, SettleCommit(w),
         NEW f, f = request[w].ref, NEW d, d = request[w].pay
  PROVE  /\ \A z \in Refunds : z # f => refunds'[z] = refunds[z]
         /\ Share(f, d)' = request[w].refund.amount
         /\ \A p : p # d => Share(f, p)' = 0 /\ (p \notin Editable => Share(f, p) = 0)
<1> DEFINE r == request[w]
<1>1. /\ r.stage = "settling" /\ r.op = "complete" /\ r.ref \in Refunds
      /\ refunds' = [refunds EXCEPT ![r.ref] = [r.refund EXCEPT !.status = "completed"]]
  BY SettleWrites
<1>2. /\ refunds'[r.ref].status = "completed" /\ refunds'[r.ref].pay = r.pay
      /\ refunds'[r.ref].amount = r.refund.amount
      /\ \A z \in Refunds : z # r.ref => refunds'[z] = refunds[z]
  BY <1>1, RefundSaved DEF RefundOps
<1>3. refunds[r.ref].pay = r.pay \/ refunds[r.ref].pay \in Editable
  BY <1>1, LinkedPayment DEF RefundOps, Current
<1> QED BY <1>1, <1>2, <1>3 DEF Share, CompletedRefunds

(* A direct write concerns the payments of Editable only.                   *)
LEMMA RewriteShare ==
  ASSUME LinkInv, NEW f \in Refunds, Rewriting(f), NEW p, p \notin Editable
  PROVE  Share(f, p) = 0 /\ Share(f, p)' = 0
BY RewriteWrites DEF Share, CompletedRefunds

LEMMA AccountedNext ==
  ASSUME IsFiniteSet(Refunds) PROVE AccountedInv /\ [Next]_vars => AccountedInv'
<1> SUFFICES ASSUME AccountedInv, [Next]_vars PROVE AccountedInv'
  OBVIOUS
<1>0. LinkInv /\ LinkInv' /\ TypeOK /\ TypeOK' /\ RefundsAccounted
  BY LinkNext DEF AccountedInv, LinkInv
<1>a. \A p \in Payments : /\ payments[p].refunded \in Nat /\ payments'[p].refunded \in Nat
                          /\ PaidOut(p) \in Int
  BY <1>0, PaidOutType DEF TypeOK, PaymentRow
<1>b. \A f \in Refunds, p \in Payments : Share(f, p) \in Nat
  BY <1>0 DEF TypeOK, RefundRow, Share
<1>c. \A w \in Workers : request[w].refund.amount \in Nat
  BY <1>0 DEF TypeOK, Request, RefundRow
<1> SUFFICES RefundsAccounted'
  BY <1>0 DEF AccountedInv
<1>1. ASSUME UNCHANGED <<payments, refunds>> PROVE RefundsAccounted'
  BY <1>1, AccountedKept
<1>2. ASSUME NEW w \in Workers, InsertPayment(w) PROVE RefundsAccounted'
  <2>0. PICK d : d = request[w].pay
    OBVIOUS
  <2>1. /\ d \in Payments /\ Unrefunded(d) /\ UNCHANGED refunds /\ payments'[d].refunded = 0
        /\ \A p \in Payments : p # d => payments'[p] = payments[p]
    BY <1>0, <1>2, <2>0, InsertAccounted
  <2>2. PaidOut(d)' = 0 /\ \A p \in Payments : PaidOut(p)' = PaidOut(p)
    BY <2>1, UnrefundedZero
  <2> QED BY <1>0, <1>a, <2>1, <2>2 DEF RefundsAccounted
<1>3. ASSUME NEW d \in Payments, DeletePayment(d) PROVE RefundsAccounted'
  <2>1. /\ Unrefunded(d) /\ UNCHANGED refunds /\ payments'[d].refunded = 0
        /\ \A p \in Payments : p # d => payments'[p] = payments[p]
    BY <1>0, <1>3, DeleteAccounted
  <2>2. PaidOut(d)' = 0 /\ \A p \in Payments : PaidOut(p)' = PaidOut(p)
    BY <2>1, UnrefundedZero
  <2> QED BY <1>0, <1>a, <2>1, <2>2 DEF RefundsAccounted
<1>4. ASSUME NEW f \in Refunds, NEW d \in Payments, NEW n \in Amount, RequestRefund(f, d, n)
      PROVE  RefundsAccounted'
  <2>1. ASSUME NEW p \in Payments PROVE PaidOut(p)' = PaidOut(p) /\ payments' = payments
    <3>1. /\ Share(f, p) = 0 /\ Share(f, p)' = 0 /\ UNCHANGED payments
          /\ \A r \in Refunds : r # f => refunds'[r] = refunds[r]
      BY <1>0, <1>4, RequestShare
    <3>2. PaidOut(p)' = PaidOut(p) - Share(f, p) + Share(f, p)'
      BY <1>0, <3>1, OneRefundPaid
    <3> QED BY <1>a, <3>1, <3>2
  <2> QED BY <1>0, <1>a, <2>1 DEF RefundsAccounted
<1>5. ASSUME NEW w \in Workers, SaveDecision(w) PROVE RefundsAccounted'
  <2>0. PICK f : f = request[w].ref
    OBVIOUS
  <2>1. ASSUME NEW p \in Payments 
        PROVE  PaidOut(p)' <= PaidOut(p) /\ PaidOut(p)' \in Int /\ payments' = payments
    <3>1. /\ f \in Refunds /\ Share(f, p)' = 0 /\ payments' = payments
          /\ \A r \in Refunds : r # f => refunds'[r] = refunds[r]
      BY <1>0, <1>5, <2>0, DecisionShare
    <3>2. PaidOut(p)' = PaidOut(p) - Share(f, p) + Share(f, p)'
      BY <1>0, <3>1, OneRefundPaid
    <3> QED BY <1>a, <1>b, <3>1, <3>2
  <2> QED BY <1>0, <1>a, <2>1 DEF RefundsAccounted
<1>6. ASSUME NEW w \in Workers, SettleCommit(w) PROVE RefundsAccounted'
  <2>0. PICK f, d : f = request[w].ref /\ d = request[w].pay
    OBVIOUS
  <2>1. /\ f \in Refunds /\ d \in Payments
        /\ payments'[d].refunded = payments[d].refunded + request[w].refund.amount
        /\ \A p \in Payments : p # d => payments'[p] = payments[p]
    BY <1>0, <1>6, <2>0, SettleWrites
  <2>2. /\ \A r \in Refunds : r # f => refunds'[r] = refunds[r]
        /\ Share(f, d)' = request[w].refund.amount
        /\ \A p : p # d => Share(f, p)' = 0
    BY <1>0, <1>6, <2>0, SettleShare
  <2>3. \A p \in Payments : PaidOut(p)' = PaidOut(p) - Share(f, p) + Share(f, p)'
    BY <1>0, <2>1, <2>2, OneRefundPaid
  <2>4. PaidOut(d)' <= PaidOut(d) + request[w].refund.amount /\ PaidOut(d)' \in Int
    BY <1>a, <1>b, <1>c, <2>1, <2>2, <2>3
  <2>5. \A p \in Payments : p # d => PaidOut(p)' <= PaidOut(p) /\ PaidOut(p)' \in Int
    BY <1>a, <1>b, <2>1, <2>2, <2>3
  <2>6. payments[d].refunded >= PaidOut(d) => payments'[d].refunded >= PaidOut(d)'
    BY <1>a, <1>c, <2>1, <2>4
  <2> QED BY <1>0, <1>a, <2>1, <2>5, <2>6 DEF RefundsAccounted
<1>7. ASSUME NEW f \in Refunds, Rewriting(f) PROVE RefundsAccounted'
  <2>1. payments' = payments /\ \A z \in Refunds : z # f => refunds'[z] = refunds[z]
    BY <1>0, <1>7, RewriteWrites
  <2>2. ASSUME NEW p \in Payments \ Editable PROVE PaidOut(p)' = PaidOut(p)
    <3>1. Share(f, p) = 0 /\ Share(f, p)' = 0
      BY <1>0, <1>7, RewriteShare
    <3>2. PaidOut(p)' = PaidOut(p) - Share(f, p) + Share(f, p)'
      BY <1>0, <2>1, OneRefundPaid
    <3> QED BY <1>a, <3>1, <3>2
  <2> QED BY <1>0, <1>a, <2>1, <2>2 DEF RefundsAccounted
<1> QED BY <1>1, <1>2, <1>3, <1>4, <1>5, <1>6, <1>7, RefundSteps

LEMMA NothingRefunded == Init => \A p \in Payments : payments[p].refunded = 0 /\ PaidOut(p) = 0
<1> SUFFICES ASSUME Init PROVE \A p \in Payments : payments[p].refunded = 0 /\ PaidOut(p) = 0
  OBVIOUS
<1>1. \A p \in Payments : Unrefunded(p) /\ payments[p].refunded = 0
  BY DEF Init, Unrefunded, NoRefund, NoPayment
<1> QED BY <1>1, NothingPaidOut

(* Whatever the interleaving of requests, crashes and deletions, with any   *)
(* number of completions under way, a payment says at least what its        *)
(* completed refunds paid out was refunded: none is missing.  Refunds may   *)
(* be rewritten and deleted directly at any moment, on the payments of      *)
(* Editable: those alone are not spoken of.                                 *)
THEOREM RefundsNeverMissing ==
  ASSUME IsFiniteSet(Refunds) PROVE Spec => []RefundsAccounted
<1>1. Init => AccountedInv
  <2> SUFFICES ASSUME Init PROVE RefundsAccounted
    BY LinkInit DEF AccountedInv
  <2> QED BY NothingRefunded DEF RefundsAccounted
<1>2. AccountedInv /\ [Next]_vars => AccountedInv'
  BY AccountedNext
<1>3. AccountedInv => RefundsAccounted
  BY DEF AccountedInv
<1> QED BY <1>1, <1>2, <1>3, PTL DEF Spec
-----------------------------------------------------------------------------
(* Requests that overlap, but never on one document: what a request decides *)
(* on, the refund it loaded, the credit note it issues or applies, or the   *)
(* invoice it is going to save, is not at the same time in the hands of     *)
(* another.  Requests served one at a time are the simplest case.           *)

Refunding(r) == r.stage \in {"loaded", "settling"} /\ r.op \in RefundOps
Crediting(r) == r.stage = "applying" \/ (r.stage = "loaded" /\ r.op = "issue")
Invoicing(r) ==
  \/ r.stage \in {"checked", "inserted", "summed", "settling", "applying"}
  \/ r.stage = "loaded" /\ r.op \in {"send", "view", "edit", "void"}

RefundsApart == \A v, w \in Workers :
  v # w /\ Refunding(request[v]) /\ Refunding(request[w]) => request[v].ref # request[w].ref
CreditsApart == \A v, w \in Workers :
  v # w /\ Crediting(request[v]) /\ Crediting(request[w]) => request[v].cred # request[w].cred
InvoicesApart == \A v, w \in Workers :
  v # w /\ Invoicing(request[v]) /\ Invoicing(request[w]) => request[v].inv # request[w].inv

LEMMA OneHandlerApart ==
  ASSUME \A v, w \in Workers : v = w
  PROVE  RefundsApart /\ CreditsApart /\ InvoicesApart
BY DEF RefundsApart, CreditsApart, InvoicesApart

-----------------------------------------------------------------------------
(* The refund a request has loaded is still the one in the table when it is *)
(* saved, unless it may have been written directly.                         *)

RefundHeld(r) ==
  Refunding(r) /\ r.pay \notin Editable =>
    r.refund = refunds[r.ref] /\ refunds[r.ref].status \in Required(r.op)

RefundsHeld == \A w \in Workers : RefundHeld(request[w])

LEMMA HeldBegin ==
  ASSUME LinkInv, RefundsHeld, UNCHANGED refunds, NEW w \in Workers, NEW q, Begin(w, q),
         RefundHeld(q)
  PROVE  RefundsHeld'
<1>1. request'[w] = q /\ \A v \in Workers : v # w => request'[v] = request[v]
  BY DEF LinkInv, TypeOK, Begin
<1> QED BY <1>1 DEF RefundsHeld, RefundHeld, Refunding

LEMMA HeldFree ==
  ASSUME LinkInv, RefundsHeld, UNCHANGED refunds, NEW w \in Workers, NEW q, Begin(w, q),
         q.stage \notin {"loaded", "settling"} \/ q.op \notin RefundOps
  PROVE  RefundsHeld'
<1>1. RefundHeld(q)
  BY DEF RefundHeld, Refunding
<1> QED BY <1>1, HeldBegin

(* A request that goes back to idle holds no refund.                        *)
LEMMA HeldDone ==
  ASSUME LinkInv, RefundsHeld, UNCHANGED refunds, NEW w \in Workers, Done(w)
  PROVE  RefundsHeld'
<1>1. Begin(w, Idle) /\ Idle.stage = "idle"
  BY DEF Done, Begin, Idle
<1> QED BY <1>1, HeldFree

(* The refund a request saves is not one another request holds.             *)
LEMMA HeldSaved ==
  ASSUME LinkInv, RefundsHeld, RefundsApart, NEW w \in Workers, Refunding(request[w]), Done(w),
         NEW s, s # "absent",
         refunds' = [refunds EXCEPT ![request[w].ref] = [request[w].refund EXCEPT !.status = s]]
  PROVE  RefundsHeld'
<1>1. \A r \in Refunds : r # request[w].ref => refunds'[r] = refunds[r]
  BY RefundSaved DEF Refunding
<1>2. request'[w].stage = "idle" /\ \A v \in Workers : v # w => request'[v] = request[v]
  BY DEF LinkInv, TypeOK, Done, Idle
<1>3. ASSUME NEW v \in Workers PROVE RefundHeld(request[v])'
  <2>1. CASE v = w
    BY <1>2, <2>1 DEF RefundHeld, Refunding
  <2>2. CASE v # w
    <3>1. request'[v] = request[v] /\ request[v].ref \in Refunds /\ RefundHeld(request[v])
      BY <1>2, <2>2 DEF LinkInv, TypeOK, Request, RefundsHeld
    <3>2. Refunding(request[v]) => refunds'[request[v].ref] = refunds[request[v].ref]
      BY <1>1, <2>2, <3>1 DEF RefundsApart
    <3> QED BY <3>1, <3>2 DEF RefundHeld, Refunding
  <2> QED BY <2>1, <2>2
<1> QED BY <1>3 DEF RefundsHeld

LEMMA HeldNext ==
  ASSUME RefundsApart, LinkInv, RefundsHeld, [Next]_vars PROVE RefundsHeld'
<1>1. ASSUME NEW w \in Workers, NEW p \in Payments, NEW i \in Invoices, NEW n \in Amount,
             CheckPayment(w, p, i, n)
      PROVE  RefundsHeld'
  <2> DEFINE q == [Idle EXCEPT !.stage = "checked", !.op = "pay", !.inv = i,
                               !.pay = p, !.amount = n, !.row = invoices[i]]
  <2>1. q.stage = "checked"
    BY DEF Idle
  <2>2. Begin(w, q) /\ UNCHANGED refunds
    BY <1>1 DEF CheckPayment, rows
  <2> HIDE DEF q
  <2> QED BY <2>1, <2>2, HeldFree
<1>2. ASSUME NEW w \in Workers, InsertPayment(w) PROVE RefundsHeld'
  <2> DEFINE q == [request[w] EXCEPT !.stage = "inserted"]
  <2>1. q.stage = "inserted"
    BY DEF LinkInv, TypeOK, Request
  <2>2. Begin(w, q) /\ UNCHANGED refunds
    BY <1>2 DEF InsertPayment
  <2> HIDE DEF q
  <2> QED BY <2>1, <2>2, HeldFree
<1>3. ASSUME NEW w \in Workers, SumCollections(w) PROVE RefundsHeld'
  <2> DEFINE q == [request[w] EXCEPT !.stage = "summed", !.collected = Collected(request[w].inv)]
  <2>1. q.stage = "summed"
    BY DEF LinkInv, TypeOK, Request
  <2>2. Begin(w, q) /\ UNCHANGED refunds
    BY <1>3 DEF SumCollections, rows
  <2> HIDE DEF q
  <2> QED BY <2>1, <2>2, HeldFree
<1>4. ASSUME NEW w \in Workers,
             SaveCollections(w) \/ IssueCredit(w) \/ ApplyCommit(w) \/ Abort(w)
      PROVE  RefundsHeld'
  <2>1. Done(w) /\ UNCHANGED refunds
    BY <1>4 DEF SaveCollections, IssueCredit, ApplyCommit, Abort, rows
  <2> QED BY <2>1, HeldDone
<1>17. ASSUME NEW w \in Workers, SaveDecision(w) PROVE RefundsHeld'
  <2> DEFINE s == IF request[w].op = "approve" THEN "approved" ELSE "rejected"
  <2>1. /\ Refunding(request[w]) /\ Done(w) /\ s # "absent"
        /\ refunds' = [refunds EXCEPT ![request[w].ref] = [request[w].refund EXCEPT !.status = s]]
    BY <1>17 DEF SaveDecision, Refunding, RefundOps
  <2> HIDE DEF s
  <2> QED BY <2>1, HeldSaved
<1>18. ASSUME NEW w \in Workers, SettleCommit(w) PROVE RefundsHeld'
  <2>1. /\ Refunding(request[w]) /\ Done(w)
        /\ refunds' = [refunds EXCEPT ![request[w].ref] =
                         [request[w].refund EXCEPT !.status = "completed"]]
    BY <1>18, SettleWrites DEF SettleCommit, Refunding, RefundOps
  <2> QED BY <2>1, HeldSaved
<1>5. ASSUME NEW w \in Workers, NEW n \in Totals, NEW status \in InvoiceStatus,
             SaveLoaded(w, n, status)
      PROVE  RefundsHeld'
  BY <1>5, HeldDone DEF SaveLoaded
<1>6. ASSUME NEW w \in Workers, NEW f \in Refunds, NEW op \in {"approve", "reject", "complete"},
             LoadRefund(w, f, op)
      PROVE  RefundsHeld'
  <2> DEFINE q == [Idle EXCEPT !.stage = "loaded", !.op = op, !.ref = f,
                               !.pay = refunds[f].pay, !.refund = refunds[f]]
  <2>1. q.op = op /\ q.ref = f /\ q.refund = refunds[f]
    BY DEF Idle
  <2>2. Begin(w, q) /\ UNCHANGED refunds /\ refunds[f].status \in Required(op)
    BY <1>6 DEF LoadRefund, rows
  <2> HIDE DEF q
  <2>3. RefundHeld(q)
    BY <2>1, <2>2 DEF RefundHeld, Refunding
  <2> QED BY <2>2, <2>3, HeldBegin
<1>7. ASSUME NEW w \in Workers, SettleRead(w) PROVE RefundsHeld'
  <2> DEFINE r == request[w]
             p == RefundedPayment(payments[r.pay], r.refund.amount)
             q == [r EXCEPT !.stage = "settling", !.payment = p, !.inv = p.inv,
                            !.row = invoices[p.inv],
                            !.collected = Collected(p.inv) - Net(payments[r.pay]) + Net(p)]
  <2>1. /\ Begin(w, q) /\ UNCHANGED refunds /\ r.stage = "loaded" /\ r.op = "complete"
    BY <1>7 DEF SettleRead, rows
  <2>2. r \in Request /\ RefundHeld(r)
    BY DEF LinkInv, TypeOK, RefundsHeld
  <2> HIDE DEF p
  <2>3. q.op = r.op /\ q.ref = r.ref /\ q.refund = r.refund /\ q.pay = r.pay
    BY <2>2 DEF Request
  <2> HIDE DEF q
  <2>4. RefundHeld(q)
    BY <2>1, <2>2, <2>3 DEF RefundHeld, Refunding, RefundOps
  <2> QED BY <2>1, <2>4, HeldBegin
<1>8. ASSUME NEW w \in Workers, NEW c \in Credits, LoadCredit(w, c) PROVE RefundsHeld'
  <2> DEFINE q == [Idle EXCEPT !.stage = "loaded", !.op = "issue", !.cred = c,
                               !.credit = credits[c]]
  <2>1. q.op \notin RefundOps
    BY DEF Idle, RefundOps
  <2>2. Begin(w, q) /\ UNCHANGED refunds
    BY <1>8 DEF LoadCredit, rows
  <2> HIDE DEF q
  <2> QED BY <2>1, <2>2, HeldFree
<1>9. ASSUME NEW w \in Workers, NEW c \in Credits, NEW i \in Invoices, NEW n \in Amount,
             ApplyRead(w, c, i, n)
      PROVE  RefundsHeld'
  <2> DEFINE q == [Idle EXCEPT !.stage = "applying", !.op = "apply", !.cred = c, !.inv = i,
                     !.amount = n, !.row = invoices[i], !.collected = Collected(i) + n]
  <2>1. q.stage = "applying"
    BY DEF Idle
  <2>2. Begin(w, q) /\ UNCHANGED refunds
    BY <1>9 DEF ApplyRead, rows
  <2> HIDE DEF q
  <2> QED BY <2>1, <2>2, HeldFree
<1>10. ASSUME NEW w \in Workers, NEW i \in Invoices, NEW op \in InvoiceOps,
              LoadInvoice(w, i, op)
       PROVE  RefundsHeld'
  <2> DEFINE q == [Idle EXCEPT !.stage = "loaded", !.op = op, !.inv = i, !.row = invoices[i]]
  <2>1. q.op \notin RefundOps
    BY SetsAssumption DEF Idle, RefundOps
  <2>2. Begin(w, q) /\ UNCHANGED refunds
    BY <1>10 DEF LoadInvoice, rows
  <2> HIDE DEF q
  <2> QED BY <2>1, <2>2, HeldFree
<1>11. ASSUME UNCHANGED <<refunds, request>> PROVE RefundsHeld'
  BY <1>11 DEF RefundsHeld, RefundHeld, Refunding
<1>12. ASSUME NEW f \in Refunds, NEW p \in Payments, NEW n \in Amount, RequestRefund(f, p, n)
       PROVE  RefundsHeld'
  <2>1. /\ refunds[f].status = "absent" /\ request' = request
        /\ \A r \in Refunds : r # f => refunds'[r] = refunds[r]
    BY <1>12 DEF RequestRefund, LinkInv, TypeOK
  <2>2. ASSUME NEW v \in Workers PROVE RefundHeld(request[v])'
    <3>1. CASE Refunding(request[v])
      <4>1. request[v].ref \in Refunds /\ request[v].ref # f
        BY <2>1, <3>1, LinkedPayment DEF Requested, Refunding
      <4> QED BY <2>1, <4>1 DEF RefundsHeld, RefundHeld, Refunding
    <3> QED BY <2>1, <3>1 DEF RefundHeld, Refunding
  <2> QED BY <2>2 DEF RefundsHeld
<1>13. ASSUME NEW p \in Payments, DeletePayment(p) PROVE RefundsHeld'
  BY <1>11, <1>13 DEF DeletePayment
<1>14. ASSUME NEW c \in Credits, NEW n \in Totals, CreateCredit(c, n) PROVE RefundsHeld'
  BY <1>11, <1>14 DEF CreateCredit
<1>15. ASSUME NEW i \in Invoices, DueDatePasses(i) PROVE RefundsHeld'
  BY <1>11, <1>15 DEF DueDatePasses
<1>16. CASE UNCHANGED vars
  BY <1>11, <1>16 DEF vars
<1>19. ASSUME NEW f \in Refunds, Rewriting(f) PROVE RefundsHeld'
  <2>1. /\ request' = request /\ refunds[f].pay \in Editable
        /\ \A z \in Refunds : z # f => refunds'[z] = refunds[z]
    BY <1>19, RewriteWrites
  <2>2. ASSUME NEW v \in Workers PROVE RefundHeld(request[v])'
    <3>1. CASE Refunding(request[v]) /\ request[v].pay \notin Editable
      <4>1. request[v].ref \in Refunds /\ request[v].ref # f
        BY <2>1, <3>1, LinkedPayment DEF Refunding, Current
      <4> QED BY <2>1, <4>1 DEF RefundsHeld, RefundHeld, Refunding
    <3> QED BY <2>1, <3>1 DEF RefundHeld, Refunding
  <2> QED BY <2>2 DEF RefundsHeld
<1> QED
  BY <1>1, <1>2, <1>3, <1>4, <1>5, <1>6, <1>7, <1>8, <1>9, <1>10, <1>12, <1>13, <1>14,
     <1>15, <1>16, <1>17, <1>18, <1>19 DEF Next, Rewriting

LEMMA HeldInit == Init => RefundsHeld
BY DEF Init, RefundsHeld, RefundHeld, Refunding, Idle

HeldInv == LinkInv /\ RefundsHeld

LEMMA HeldInvNext == HeldInv /\ RefundsApart /\ [Next]_vars => HeldInv'
BY LinkNext, HeldNext DEF HeldInv

(* What a request saves is the refund in the table with its status moved on *)
(* from the one the request required.                                       *)
LEMMA DecisionStatus ==
  ASSUME HeldInv, NEW w \in Workers, SaveDecision(w), NEW f, f = request[w].ref
  PROVE  /\ f \in Refunds
         /\ refunds[f].status = "pending" \/ {refunds[f].pay, request[w].pay} \subseteq Editable
         /\ refunds'[f].status \in {"approved", "rejected"} /\ refunds'[f].pay = request[w].pay
         /\ \A r \in Refunds : r # f => refunds'[r] = refunds[r]
<1> DEFINE s == IF request[w].op = "approve" THEN "approved" ELSE "rejected"
<1>1. /\ request[w].stage = "loaded" /\ request[w].op \in {"approve", "reject"}
      /\ refunds' = [refunds EXCEPT ![request[w].ref] = [request[w].refund EXCEPT !.status = s]]
      /\ s \in {"approved", "rejected"} /\ s # "absent"
  BY DEF SaveDecision
<1> HIDE DEF s
<1>2. /\ f \in Refunds /\ request[w].refund.pay = request[w].pay
      /\ Current(request[w].refund, f)
  BY <1>1, LinkedPayment DEF HeldInv, RefundOps
<1>3. refunds[f].status = "pending" \/ request[w].pay \in Editable
  BY <1>1 DEF HeldInv, RefundsHeld, RefundHeld, Refunding, RefundOps, Required
<1>4. /\ refunds'[request[w].ref].status = s /\ refunds'[request[w].ref].pay = request[w].pay
      /\ \A r \in Refunds : r # request[w].ref => refunds'[r] = refunds[r]
  BY <1>1, RefundSaved DEF HeldInv, RefundOps
<1> QED BY <1>1, <1>2, <1>3, <1>4 DEF Current

LEMMA SettleStatus ==
  ASSUME HeldInv, NEW w \in Workers, SettleCommit(w), NEW f, f = request[w].ref
  PROVE  /\ f \in Refunds
         /\ refunds[f].status = "approved" \/ request[w].pay \in Editable
         /\ refunds'[f].status = "completed" /\ refunds'[f].pay = request[w].pay
         /\ \A r \in Refunds : r # f => refunds'[r] = refunds[r]
<1>1. /\ request[w].stage = "settling" /\ request[w].op = "complete" /\ f \in Refunds
      /\ refunds' = [refunds EXCEPT ![request[w].ref] =
                       [request[w].refund EXCEPT !.status = "completed"]]
  BY SettleWrites DEF HeldInv
<1>2. refunds[f].status = "approved" \/ request[w].pay \in Editable
  BY <1>1 DEF HeldInv, RefundsHeld, RefundHeld, Refunding, RefundOps, Required
<1>3. /\ refunds'[request[w].ref].status = "completed"
      /\ refunds'[request[w].ref].pay = request[w].pay
      /\ \A r \in Refunds : r # request[w].ref => refunds'[r] = refunds[r]
  BY <1>1, RefundSaved DEF HeldInv, RefundOps
<1> QED BY <1>1, <1>2, <1>3

RefundMoves ==
  \A r \in Refunds :
    refunds'[r].status # refunds[r].status /\ refunds'[r].pay \notin Editable =>
      <<refunds[r].status, refunds'[r].status>> \in
        {<<"absent", "pending">>, <<"pending", "approved">>,
         <<"pending", "rejected">>, <<"approved", "completed">>}

LEMMA RefundStep == HeldInv /\ [Next]_vars => RefundMoves
<1> SUFFICES ASSUME HeldInv, [Next]_vars PROVE RefundMoves
  OBVIOUS
<1>1. ASSUME UNCHANGED <<payments, refunds>> PROVE RefundMoves
  BY <1>1 DEF RefundMoves
<1>2. ASSUME NEW w \in Workers, InsertPayment(w) PROVE RefundMoves
  BY <1>2 DEF InsertPayment, RefundMoves
<1>3. ASSUME NEW d \in Payments, DeletePayment(d) PROVE RefundMoves
  BY <1>3 DEF DeletePayment, RefundMoves
<1>4. ASSUME NEW f \in Refunds, NEW d \in Payments, NEW n \in Amount, RequestRefund(f, d, n)
      PROVE  RefundMoves
  BY <1>4 DEF RequestRefund, RefundMoves, HeldInv, LinkInv, TypeOK
<1>5. ASSUME NEW w \in Workers, SaveDecision(w) PROVE RefundMoves
  BY <1>5, DecisionStatus DEF RefundMoves
<1>6. ASSUME NEW w \in Workers, SettleCommit(w) PROVE RefundMoves
  BY <1>6, SettleStatus DEF RefundMoves
<1>7. ASSUME NEW f \in Refunds, Rewriting(f) PROVE RefundMoves
  BY <1>7, RewriteWrites DEF RefundMoves, HeldInv
<1> QED BY <1>1, <1>2, <1>3, <1>4, <1>5, <1>6, <1>7, RefundSteps

(* As long as no two requests hold one refund, a refund decided or paid     *)
(* stays so, and only an approved refund is ever paid, for any number of    *)
(* overlapping requests, crashes and deletions, and whatever is written     *)
(* directly on the payments of Editable.                                    *)
THEOREM RefundsProgress == Spec /\ []RefundsApart => RefundProgress
<1>1. Init => HeldInv
  BY LinkInit, HeldInit DEF HeldInv
<1>2. HeldInv /\ RefundsApart /\ [Next]_vars => HeldInv'
  BY HeldInvNext
<1>3. HeldInv /\ [Next]_vars => [RefundMoves]_vars
  BY RefundStep
<1> QED BY <1>1, <1>2, <1>3, PTL DEF Spec, RefundProgress, RefundMoves

-----------------------------------------------------------------------------
(* No refund is paid twice.                                                 *)

PaidOnceInv == HeldInv /\ RefundPaidOnce

LEMMA PaidOnceNext ==
  ASSUME IsFiniteSet(Refunds)
  PROVE  PaidOnceInv /\ RefundsApart /\ [Next]_vars => PaidOnceInv'
<1> SUFFICES ASSUME PaidOnceInv, RefundsApart, [Next]_vars PROVE PaidOnceInv'
  OBVIOUS
<1>0. /\ HeldInv /\ HeldInv' /\ LinkInv /\ TypeOK /\ TypeOK'
      /\ \A p \in Payments \ Editable : payments[p].refunded = PaidOut(p)
  BY HeldInvNext DEF PaidOnceInv, HeldInv, LinkInv, RefundPaidOnce
<1>a. \A p \in Payments : PaidOut(p) \in Int
  BY <1>0, PaidOutType
<1> SUFFICES RefundPaidOnce'
  BY <1>0 DEF PaidOnceInv
<1>1. ASSUME UNCHANGED <<payments, refunds>> PROVE RefundPaidOnce'
  BY <1>0, <1>1 DEF RefundPaidOnce, PaidOut, CompletedRefunds, SumOver
<1>2. ASSUME NEW w \in Workers, InsertPayment(w) PROVE RefundPaidOnce'
  <2>0. PICK d : d = request[w].pay
    OBVIOUS
  <2>1. /\ d \in Payments /\ Unrefunded(d) /\ UNCHANGED refunds /\ payments'[d].refunded = 0
        /\ \A p \in Payments : p # d => payments'[p] = payments[p]
    BY <1>0, <1>2, <2>0, InsertAccounted
  <2>2. PaidOut(d)' = 0 /\ \A p \in Payments : PaidOut(p)' = PaidOut(p)
    BY <2>1, UnrefundedZero
  <2> QED BY <1>0, <2>1, <2>2 DEF RefundPaidOnce
<1>3. ASSUME NEW d \in Payments, DeletePayment(d) PROVE RefundPaidOnce'
  <2>1. /\ Unrefunded(d) /\ UNCHANGED refunds /\ payments'[d].refunded = 0
        /\ \A p \in Payments : p # d => payments'[p] = payments[p]
    BY <1>0, <1>3, DeleteAccounted
  <2>2. PaidOut(d)' = 0 /\ \A p \in Payments : PaidOut(p)' = PaidOut(p)
    BY <2>1, UnrefundedZero
  <2> QED BY <1>0, <2>1, <2>2 DEF RefundPaidOnce
<1>4. ASSUME NEW f \in Refunds, NEW d \in Payments, NEW n \in Amount, RequestRefund(f, d, n)
      PROVE  RefundPaidOnce'
  <2>1. ASSUME NEW p \in Payments \ Editable PROVE payments'[p].refunded = PaidOut(p)'
    <3>1. /\ Share(f, p) = 0 /\ Share(f, p)' = 0 /\ UNCHANGED payments
          /\ \A r \in Refunds : r # f => refunds'[r] = refunds[r]
      BY <1>0, <1>4, RequestShare
    <3>2. PaidOut(p)' = PaidOut(p) - Share(f, p) + Share(f, p)'
      BY <1>0, <3>1, OneRefundPaid
    <3> QED BY <1>0, <1>a, <3>1, <3>2
  <2> QED BY <2>1 DEF RefundPaidOnce
<1>5. ASSUME NEW w \in Workers, SaveDecision(w) PROVE RefundPaidOnce'
  <2>0. PICK f : f = request[w].ref
    OBVIOUS
  <2>1. ASSUME NEW p \in Payments \ Editable PROVE payments'[p].refunded = PaidOut(p)'
    <3>1. /\ f \in Refunds /\ Share(f, p)' = 0 /\ payments' = payments
          /\ \A r \in Refunds : r # f => refunds'[r] = refunds[r]
      BY <1>0, <1>5, <2>0, DecisionShare
    <3>2. Share(f, p) = 0
      <4>1. refunds[f].status = "pending" \/ refunds[f].pay \in Editable
        BY <1>0, <1>5, <2>0, DecisionStatus
      <4> QED BY <4>1 DEF Share, CompletedRefunds
    <3>3. PaidOut(p)' = PaidOut(p) - Share(f, p) + Share(f, p)'
      BY <1>0, <3>1, OneRefundPaid
    <3> QED BY <1>0, <1>a, <3>1, <3>2, <3>3
  <2> QED BY <2>1 DEF RefundPaidOnce
<1>6. ASSUME NEW w \in Workers, SettleCommit(w) PROVE RefundPaidOnce'
  <2>0. PICK f, d : f = request[w].ref /\ d = request[w].pay
    OBVIOUS
  <2>1. /\ f \in Refunds /\ d \in Payments
        /\ payments'[d].refunded = payments[d].refunded + request[w].refund.amount
        /\ \A p \in Payments : p # d => payments'[p] = payments[p]
    BY <1>0, <1>6, <2>0, SettleWrites
  <2>2. /\ \A r \in Refunds : r # f => refunds'[r] = refunds[r]
        /\ Share(f, d)' = request[w].refund.amount
        /\ \A p : p # d => Share(f, p)' = 0 /\ (p \notin Editable => Share(f, p) = 0)
    BY <1>0, <1>6, <2>0, SettleShare
  <2>3. d \notin Editable => Share(f, d) = 0
    <3>1. refunds[f].status = "approved" \/ d \in Editable
      BY <1>0, <1>6, <2>0, SettleStatus
    <3> QED BY <3>1 DEF Share, CompletedRefunds
  <2>4. request[w].refund.amount \in Int
    BY <1>0 DEF TypeOK, Request, RefundRow
  <2>5. ASSUME NEW p \in Payments \ Editable PROVE payments'[p].refunded = PaidOut(p)'
    <3>1. PaidOut(p)' = PaidOut(p) - Share(f, p) + Share(f, p)'
      BY <1>0, <2>1, <2>2, OneRefundPaid
    <3>2. CASE p = d
      BY <1>0, <1>a, <2>1, <2>2, <2>3, <2>4, <3>1, <3>2
    <3>3. CASE p # d
      BY <1>0, <1>a, <2>1, <2>2, <3>1, <3>3
    <3> QED BY <3>2, <3>3
  <2> QED BY <2>5 DEF RefundPaidOnce
<1>7. ASSUME NEW f \in Refunds, Rewriting(f) PROVE RefundPaidOnce'
  <2>1. payments' = payments /\ \A z \in Refunds : z # f => refunds'[z] = refunds[z]
    BY <1>0, <1>7, RewriteWrites
  <2>2. ASSUME NEW p \in Payments \ Editable PROVE PaidOut(p)' = PaidOut(p)
    <3>1. Share(f, p) = 0 /\ Share(f, p)' = 0
      BY <1>0, <1>7, RewriteShare
    <3>2. PaidOut(p)' = PaidOut(p) - Share(f, p) + Share(f, p)'
      BY <1>0, <2>1, OneRefundPaid
    <3> QED BY <1>a, <3>1, <3>2
  <2> QED BY <1>0, <2>1, <2>2 DEF RefundPaidOnce
<1> QED BY <1>1, <1>2, <1>3, <1>4, <1>5, <1>6, <1>7, RefundSteps

(* As long as no two requests hold one refund, what a payment says was      *)
(* refunded is exactly what its completed refunds paid out, with any number *)
(* of overlapping completions of other refunds, crashes and deletions,      *)
(* whatever is written directly on the payments of Editable.                *)
THEOREM RefundsPaidOnce ==
  ASSUME IsFiniteSet(Refunds) PROVE Spec /\ []RefundsApart => []RefundPaidOnce
<1>1. Init => PaidOnceInv
  BY LinkInit, HeldInit, NothingRefunded DEF PaidOnceInv, HeldInv, RefundPaidOnce
<1>2. PaidOnceInv /\ RefundsApart /\ [Next]_vars => PaidOnceInv'
  BY PaidOnceNext
<1>3. PaidOnceInv => RefundPaidOnce
  BY DEF PaidOnceInv
<1> QED BY <1>1, <1>2, <1>3, PTL DEF Spec
-----------------------------------------------------------------------------
(* Credit notes: the note a request holds is still the one in the table.    *)

CreditFits(c) ==
  /\ credits[c].status = "absent" => used[c] = 0
  /\ credits[c].status = "draft" => used[c] = 0
  /\ credits[c].status \in {"issued", "applied"} =>
       /\ credits[c].unused + used[c] = credits[c].total
       /\ credits[c].status = "applied" <=> credits[c].unused = 0 /\ credits[c].total > 0

CreditHeld(r) ==
  /\ r.stage = "loaded" /\ r.op = "issue" =>
       r.credit = credits[r.cred] /\ r.credit.status = "draft"
  /\ r.stage = "applying" =>
       credits[r.cred].status = "issued" /\ 0 < r.amount /\ r.amount <= credits[r.cred].unused

CreditsHeld == \A w \in Workers : CreditHeld(request[w])
CreditsFit == \A c \in Credits : CreditFits(c)
CreditInv == TypeOK /\ CreditsFit /\ CreditsHeld

LEMMA CreditBegin ==
  ASSUME CreditInv, UNCHANGED <<credits, used>>, NEW w \in Workers, NEW q, Begin(w, q),
         CreditHeld(q)
  PROVE  CreditsFit' /\ CreditsHeld'
<1>1. request'[w] = q /\ \A v \in Workers : v # w => request'[v] = request[v]
  BY DEF CreditInv, TypeOK, Begin
<1>2. CreditsFit'
  BY DEF CreditInv, CreditsFit, CreditFits
<1> QED BY <1>1, <1>2 DEF CreditInv, CreditsHeld, CreditHeld

LEMMA CreditElsewhere ==
  ASSUME CreditInv, UNCHANGED <<credits, used>>, NEW w \in Workers, NEW q, Begin(w, q),
         q.stage # "applying", q.stage = "loaded" => q.op # "issue"
  PROVE  CreditsFit' /\ CreditsHeld'
<1>1. CreditHeld(q)
  BY DEF CreditHeld
<1> QED BY <1>1, CreditBegin

LEMMA CreditDone ==
  ASSUME CreditInv, UNCHANGED <<credits, used>>, NEW w \in Workers, Done(w)
  PROVE  CreditsFit' /\ CreditsHeld'
<1>1. Begin(w, Idle) /\ Idle.stage = "idle"
  BY DEF Done, Begin, Idle
<1> QED BY <1>1, CreditElsewhere

(* The note a request saves is not one another request holds.               *)
LEMMA CreditSaved ==
  ASSUME CreditInv, CreditsApart, NEW w \in Workers, Crediting(request[w]), Done(w),
         NEW c, c = request[w].cred, \A d \in Credits : d # c => credits'[d] = credits[d]
  PROVE  CreditsHeld'
<1>1. request'[w].stage = "idle" /\ \A v \in Workers : v # w => request'[v] = request[v]
  BY DEF CreditInv, TypeOK, Done, Idle
<1>2. ASSUME NEW v \in Workers PROVE CreditHeld(request[v])'
  <2>1. CASE v = w
    BY <1>1, <2>1 DEF CreditHeld
  <2>2. CASE v # w
    <3>1. request'[v] = request[v] /\ request[v].cred \in Credits /\ CreditHeld(request[v])
      BY <1>1, <2>2 DEF CreditInv, TypeOK, Request, CreditsHeld
    <3>2. Crediting(request[v]) => credits'[request[v].cred] = credits[request[v].cred]
      BY <2>2, <3>1 DEF CreditsApart
    <3> QED BY <3>1, <3>2 DEF CreditHeld, Crediting
  <2> QED BY <2>1, <2>2
<1> QED BY <1>2 DEF CreditsHeld

(* One note changes: only that one has to be looked at.                     *)
LEMMA OneCredit ==
  ASSUME CreditInv, NEW c \in Credits, CreditFits(c)',
         \A d \in Credits : d # c => credits'[d] = credits[d] /\ used'[d] = used[d]
  PROVE  CreditsFit'
BY DEF CreditInv, CreditsFit, CreditFits

LEMMA CreditIssued ==
  ASSUME CreditsApart, CreditInv, NEW w \in Workers, IssueCredit(w)
  PROVE  CreditsFit' /\ CreditsHeld'
<1>0. PICK c : c = request[w].cred
  OBVIOUS
<1>1. /\ request[w] \in Request /\ credits \in [Credits -> CreditRow] /\ c \in Credits
      /\ used \in [Credits -> Nat]
  BY <1>0 DEF CreditInv, TypeOK, Request
<1>2. request[w].credit = credits[c] /\ credits[c].status = "draft"
  BY <1>0 DEF IssueCredit, CreditInv, CreditsHeld, CreditHeld
<1>3. used[c] = 0
  BY <1>1, <1>2 DEF CreditInv, CreditsFit, CreditFits
<1>4. credits' = [credits EXCEPT ![c] = [credits[c] EXCEPT !.status = "issued",
                                                        !.unused = credits[c].total]]
  BY <1>0, <1>2 DEF IssueCredit
<1>5. /\ credits'[c].status = "issued" /\ credits'[c].unused = credits[c].total
      /\ credits'[c].total = credits[c].total
  BY <1>1, <1>4 DEF CreditRow
<1>6. used' = used /\ \A d \in Credits : d # c => credits'[d] = credits[d]
  BY <1>1, <1>4 DEF IssueCredit
<1>7. CreditFits(c)'
  <2>1. credits[c].total \in Nat
    BY <1>1 DEF CreditRow
  <2>2. credits'[c].status = "issued" /\ credits'[c].unused + used'[c] = credits'[c].total
    BY <1>1, <1>3, <1>5, <1>6, <2>1
  <2>3. ~(credits'[c].unused = 0 /\ credits'[c].total > 0)
    BY <1>5, <2>1
  <2> QED BY <2>2, <2>3 DEF CreditFits
<1>8. CreditsFit'
  BY <1>1, <1>6, <1>7, OneCredit
<1>9. CreditsHeld'
  BY <1>0, <1>6, CreditSaved DEF IssueCredit, Crediting
<1> QED BY <1>8, <1>9

LEMMA CreditApplied ==
  ASSUME CreditsApart, CreditInv, NEW w \in Workers, ApplyCommit(w)
  PROVE  CreditsFit' /\ CreditsHeld'
<1>0. PICK c, n : c = request[w].cred /\ n = request[w].amount
  OBVIOUS
<1>1. /\ request[w] \in Request /\ credits \in [Credits -> CreditRow] /\ c \in Credits
      /\ used \in [Credits -> Nat] /\ n \in Nat
  BY <1>0 DEF CreditInv, TypeOK, Request
<1>2. credits[c].status = "issued" /\ 0 < n /\ n <= credits[c].unused
  BY <1>0 DEF ApplyCommit, CreditInv, CreditsHeld, CreditHeld
<1>3. credits[c].unused + used[c] = credits[c].total 
  BY <1>1, <1>2 DEF CreditInv, CreditsFit, CreditFits
<1>4. /\ used' = [used EXCEPT ![c] = @ + n]
      /\ credits' = [credits EXCEPT ![c] = AppliedCredit(@, used'[c])]
  BY <1>0 DEF ApplyCommit
<1>5. used'[c] = used[c] + n /\ \A d \in Credits : d # c => used'[d] = used[d]
  BY <1>1, <1>4
<1>6. /\ credits'[c] = AppliedCredit(credits[c], used[c] + n)
      /\ \A d \in Credits : d # c => credits'[d] = credits[d]
  BY <1>1, <1>4, <1>5
<1>7. PICK row : row = credits[c]
  OBVIOUS
<1>8. row \in CreditRow /\ row.total \in Nat /\ row.unused \in Nat /\ used[c] \in Nat
  BY <1>1, <1>7 DEF CreditRow
<1>9. AtLeastZero(row.total - (used[c] + n)) = row.unused - n
  BY <1>1, <1>2, <1>3, <1>7, <1>8 DEF AtLeastZero
<1>10. row.total > 0
  BY <1>1, <1>2, <1>3, <1>7, <1>8
<1>11. /\ credits'[c].unused = row.unused - n /\ credits'[c].total = row.total
       /\ credits'[c].status = IF row.unused - n = 0 THEN "applied" ELSE "issued"
  BY <1>2, <1>6, <1>7, <1>8, <1>9, <1>10 DEF AppliedCredit, CreditRow
<1>12. CreditFits(c)'
  <2>1. credits'[c].unused + used'[c] = credits'[c].total
    BY <1>1, <1>3, <1>5, <1>7, <1>8, <1>11
  <2>2. credits'[c].status = "applied" <=> credits'[c].unused = 0 /\ credits'[c].total > 0
    BY <1>10, <1>11
  <2> QED BY <1>11, <2>1, <2>2 DEF CreditFits
<1>13. CreditsFit'
  BY <1>1, <1>5, <1>6, <1>12, OneCredit
<1>14. CreditsHeld'
  BY <1>0, <1>6, CreditSaved DEF ApplyCommit, Crediting
<1> QED BY <1>13, <1>14

LEMMA CreditNext == CreditInv /\ CreditsApart /\ [Next]_vars => CreditInv'
<1> SUFFICES ASSUME CreditInv, CreditsApart, [Next]_vars PROVE CreditInv'
  OBVIOUS
<1>0. TypeOK /\ TypeOK'
  BY TypeNext DEF CreditInv
<1>a. \A w \in Workers : request[w] \in Request
  BY <1>0 DEF TypeOK
<1> DEFINE Good == CreditsFit' /\ CreditsHeld'
<1> SUFFICES Good
  BY <1>0 DEF CreditInv
<1>1. ASSUME NEW w \in Workers, NEW p \in Payments, NEW i \in Invoices, NEW n \in Amount,
             CheckPayment(w, p, i, n)
      PROVE  Good
  <2> DEFINE q == [Idle EXCEPT !.stage = "checked", !.op = "pay", !.inv = i,
                               !.pay = p, !.amount = n, !.row = invoices[i]]
  <2>1. q.stage = "checked"
    BY DEF Idle
  <2>2. Begin(w, q) /\ UNCHANGED <<credits, used>>
    BY <1>1 DEF CheckPayment, rows
  <2> HIDE DEF q
  <2> QED BY <2>1, <2>2, CreditElsewhere
<1>2. ASSUME NEW w \in Workers, InsertPayment(w) PROVE Good
  <2> DEFINE q == [request[w] EXCEPT !.stage = "inserted"]
  <2>1. q.stage = "inserted"
    BY <1>a DEF Request
  <2>2. Begin(w, q) /\ UNCHANGED <<credits, used>>
    BY <1>2 DEF InsertPayment
  <2> HIDE DEF q
  <2> QED BY <2>1, <2>2, CreditElsewhere
<1>3. ASSUME NEW w \in Workers, SumCollections(w) PROVE Good
  <2> DEFINE q == [request[w] EXCEPT !.stage = "summed", !.collected = Collected(request[w].inv)]
  <2>1. q.stage = "summed"
    BY <1>a DEF Request
  <2>2. Begin(w, q) /\ UNCHANGED <<credits, used>>
    BY <1>3 DEF SumCollections, rows
  <2> HIDE DEF q
  <2> QED BY <2>1, <2>2, CreditElsewhere
<1>4. ASSUME NEW w \in Workers,
             SaveCollections(w) \/ SaveDecision(w) \/ SettleCommit(w) \/ Abort(w)
      PROVE  Good
  <2>1. Done(w) /\ UNCHANGED <<credits, used>>
    BY <1>4 DEF SaveCollections, SaveDecision, SettleCommit, Abort, rows
  <2> QED BY <2>1, CreditDone
<1>5. ASSUME NEW w \in Workers, NEW n \in Totals, NEW status \in InvoiceStatus,
             SaveLoaded(w, n, status)
      PROVE  Good
  <2>1. Done(w) /\ UNCHANGED <<credits, used>>
    BY <1>5 DEF SaveLoaded
  <2> QED BY <2>1, CreditDone
<1>6. ASSUME NEW w \in Workers, NEW f \in Refunds, NEW op \in {"approve", "reject", "complete"},
             LoadRefund(w, f, op)
      PROVE  Good
  <2> DEFINE q == [Idle EXCEPT !.stage = "loaded", !.op = op, !.ref = f,
                               !.pay = refunds[f].pay, !.refund = refunds[f]]
  <2>1. q.stage = "loaded" /\ q.op # "issue"
    BY DEF Idle
  <2>2. Begin(w, q) /\ UNCHANGED <<credits, used>>
    BY <1>6 DEF LoadRefund, rows
  <2> HIDE DEF q
  <2> QED BY <2>1, <2>2, CreditElsewhere
<1>7. ASSUME NEW w \in Workers, SettleRead(w) PROVE Good
  <2> DEFINE r == request[w]
             p == RefundedPayment(payments[r.pay], r.refund.amount)
             q == [r EXCEPT !.stage = "settling", !.payment = p, !.inv = p.inv,
                            !.row = invoices[p.inv],
                            !.collected = Collected(p.inv) - Net(payments[r.pay]) + Net(p)]
  <2>1. Begin(w, q) /\ UNCHANGED <<credits, used>>
    BY <1>7 DEF SettleRead, rows
  <2> HIDE DEF p
  <2>2. q.stage = "settling"
    BY <1>a DEF Request
  <2> HIDE DEF q
  <2> QED BY <2>1, <2>2, CreditElsewhere
<1>8. ASSUME NEW w \in Workers, NEW c \in Credits, LoadCredit(w, c) PROVE Good
  <2> DEFINE q == [Idle EXCEPT !.stage = "loaded", !.op = "issue", !.cred = c,
                               !.credit = credits[c]]
  <2>1. q.stage = "loaded" /\ q.cred = c /\ q.credit = credits[c]
    BY DEF Idle
  <2>2. Begin(w, q) /\ UNCHANGED <<credits, used>> /\ credits[c].status = "draft"
    BY <1>8 DEF LoadCredit, rows
  <2> HIDE DEF q
  <2>3. CreditHeld(q)
    BY <2>1, <2>2 DEF CreditHeld
  <2> QED BY <2>2, <2>3, CreditBegin
<1>9. ASSUME NEW w \in Workers, NEW c \in Credits, NEW i \in Invoices, NEW n \in Amount,
             ApplyRead(w, c, i, n)
      PROVE  Good
  <2> DEFINE q == [Idle EXCEPT !.stage = "applying", !.op = "apply", !.cred = c, !.inv = i,
                     !.amount = n, !.row = invoices[i], !.collected = Collected(i) + n]
  <2>1. q.stage = "applying" /\ q.cred = c /\ q.amount = n
    BY DEF Idle
  <2>2. Begin(w, q) /\ UNCHANGED <<credits, used>> /\ Applicable(c, i, n)
    BY <1>9 DEF ApplyRead, rows
  <2> HIDE DEF q
  <2>3. 0 < n /\ n <= credits[c].unused /\ credits[c].status = "issued"
    <3>1. credits[c].unused \in Int /\ invoices[i].due \in Int /\ n \in Int /\ 0 < n
      BY <1>0, BoundsAssumption DEF TypeOK, CreditRow, InvoiceRow, Amount
    <3> QED BY <2>2, <3>1 DEF Applicable, Smaller
  <2>4. CreditHeld(q)
    BY <2>1, <2>3 DEF CreditHeld
  <2> QED BY <2>2, <2>4, CreditBegin
<1>10. ASSUME NEW w \in Workers, NEW i \in Invoices, NEW op \in InvoiceOps,
              LoadInvoice(w, i, op)
       PROVE  Good
  <2> DEFINE q == [Idle EXCEPT !.stage = "loaded", !.op = op, !.inv = i, !.row = invoices[i]]
  <2>1. q.stage = "loaded" /\ q.op # "issue"
    BY SetsAssumption DEF Idle
  <2>2. Begin(w, q) /\ UNCHANGED <<credits, used>>
    BY <1>10 DEF LoadInvoice, rows
  <2> HIDE DEF q
  <2> QED BY <2>1, <2>2, CreditElsewhere
<1>11. ASSUME NEW w \in Workers, IssueCredit(w) PROVE Good
  BY <1>11, CreditIssued
<1>12. ASSUME NEW w \in Workers, ApplyCommit(w) PROVE Good
  BY <1>12, CreditApplied
<1>13. ASSUME NEW c \in Credits, NEW n \in Totals, CreateCredit(c, n) PROVE Good
  <2>1. /\ credits[c].status = "absent" /\ request' = request /\ used' = used
        /\ credits' = [credits EXCEPT ![c] = [status |-> "draft", total |-> n, unused |-> n]]
    BY <1>13 DEF CreateCredit
  <2>2. /\ credits'[c].status = "draft" /\ credits'[c].total = n
        /\ \A d \in Credits : d # c => credits'[d] = credits[d]
    BY <1>0, <2>1 DEF TypeOK
  <2>3. CreditFits(c)'
    BY <2>1, <2>2 DEF CreditInv, CreditsFit, CreditFits
  <2>4. CreditsFit'
    BY <2>1, <2>2, <2>3, OneCredit
  <2>5. ASSUME NEW v \in Workers PROVE CreditHeld(request[v])'
    <3>1. request[v].cred \in Credits /\ CreditHeld(request[v])
      BY <1>a DEF Request, CreditInv, CreditsHeld
    <3> QED BY <2>1, <2>2, <3>1 DEF CreditHeld
  <2> QED BY <2>4, <2>5 DEF CreditsHeld
<1>14. ASSUME UNCHANGED <<credits, used, request>> PROVE Good
  BY <1>14 DEF CreditInv, CreditsFit, CreditsHeld, CreditFits, CreditHeld
<1>15. ASSUME NEW p \in Payments, DeletePayment(p) PROVE Good
  BY <1>14, <1>15 DEF DeletePayment
<1>16. ASSUME NEW f \in Refunds, NEW p \in Payments, NEW n \in Amount, RequestRefund(f, p, n)
       PROVE  Good
  BY <1>14, <1>16 DEF RequestRefund
<1>17. ASSUME NEW i \in Invoices, DueDatePasses(i) PROVE Good
  BY <1>14, <1>17 DEF DueDatePasses
<1>18. UNCHANGED vars => Good
  BY <1>14 DEF vars
<1>19. ASSUME NEW f \in Refunds, Rewriting(f) PROVE Good
  BY <1>14, <1>19 DEF Rewriting, RewriteRefund, DeleteRefund
<1> HIDE DEF Good
<1> QED
  BY <1>1, <1>2, <1>3, <1>4, <1>5, <1>6, <1>7, <1>8, <1>9, <1>10, <1>11, <1>12, <1>13,
     <1>15, <1>16, <1>17, <1>18, <1>19 DEF Next, Rewriting

(* As long as no two requests hold one credit note, it is worth its total   *)
(* once: what was applied and what is left add up to it.                    *)
THEOREM CreditsConserved == Spec /\ []CreditsApart => []CreditConserved
<1>1. Init => CreditInv
  <2> SUFFICES ASSUME Init PROVE CreditInv
    OBVIOUS
  <2>1. CreditsFit
    BY DEF Init, CreditsFit, CreditFits, NoCredit
  <2>2. CreditsHeld
    BY DEF Init, CreditsHeld, CreditHeld, Idle
  <2> QED BY <2>1, <2>2, TypeInit DEF CreditInv
<1>2. CreditInv /\ CreditsApart /\ [Next]_vars => CreditInv'
  BY CreditNext
<1>3. CreditInv => CreditConserved
  BY DEF CreditInv, CreditsFit, CreditFits, CreditConserved
<1> QED BY <1>1, <1>2, <1>3, PTL DEF Spec
-----------------------------------------------------------------------------
(* What the completed payments of an invoice come to, a sum over the        *)
(* payment table; taken keeps it, whatever the interleaving.                *)

CountedPayments(i) == {p \in Payments : payments[p].status = "completed" /\ payments[p].inv = i}
Counted(i) == Sum([p \in Payments |-> payments[p].amount - payments[p].refunded],
                  CountedPayments(i))
Part(p, i) == IF payments[p].inv = i THEN Net(payments[p]) ELSE 0

TakenIsSum == \A i \in Invoices : taken[i] = Counted(i)
TakenInv == LinkInv /\ TakenIsSum

LEMMA RecordedIs == ASSUME NEW i PROVE Recorded(i) = credited[i] + Counted(i)
BY DEF Recorded, Counted, CountedPayments, SumOver, Sum

LEMMA OnePaymentCounted ==
  ASSUME TypeOK, TypeOK', IsFiniteSet(Payments), NEW d \in Payments,
         \A p \in Payments : p # d => payments'[p] = payments[p], NEW i
  PROVE  Counted(i)' = Counted(i) - Part(d, i) + Part(d, i)'
<1> DEFINE old == [p \in Payments |-> payments[p].amount - payments[p].refunded]
           new == [p \in Payments |-> payments'[p].amount - payments'[p].refunded]
           T == CountedPayments(i)
           U == CountedPayments(i)'
<1>1. \A p \in Payments : old[p] \in Int /\ new[p] \in Int
  BY DEF TypeOK, PaymentRow
<1>2. \A p \in Payments : p # d => old[p] = new[p]
  OBVIOUS
<1>3. T \in SUBSET Payments /\ U \in SUBSET Payments /\ T \ {d} = U \ {d}
  BY DEF CountedPayments
<1>4. Counted(i) = Sum(old, T) /\ Counted(i)' = Sum(new, U)
  BY DEF Counted
<1>5. /\ Part(d, i) = IF d \in T THEN old[d] ELSE 0
      /\ Part(d, i)' = IF d \in U THEN new[d] ELSE 0
  BY DEF Part, Net, CountedPayments
<1> HIDE DEF old, new, T, U
<1>6. Sum(new, U) = Sum(old, T) - (IF d \in T THEN old[d] ELSE 0)
                      + (IF d \in U THEN new[d] ELSE 0)
  BY <1>1, <1>2, <1>3, SumChange
<1> QED BY <1>4, <1>5, <1>6

LEMMA NothingCounted ==
  ASSUME NEW i, CountedPayments(i) = {} PROVE Counted(i) = 0
BY SumEmpty DEF Counted

(* The steps that write the payments or what is taken.                      *)
LEMMA PaymentSteps ==
  ASSUME [Next]_vars
  PROVE  \/ UNCHANGED <<payments, taken>>
         \/ \E w \in Workers : InsertPayment(w) \/ SettleCommit(w)
         \/ \E p \in Payments : DeletePayment(p)
<1> DEFINE Still == UNCHANGED <<payments, taken>>
<1>1. ASSUME NEW w \in Workers, NEW p \in Payments, NEW i \in Invoices, NEW n \in Amount,
             CheckPayment(w, p, i, n)
      PROVE  Still
  BY <1>1 DEF CheckPayment, rows
<1>2. ASSUME NEW w \in Workers, SumCollections(w) \/ SaveCollections(w) PROVE Still
  BY <1>2 DEF SumCollections, SaveCollections, rows
<1>3. ASSUME NEW w \in Workers, NEW f \in Refunds, NEW op \in {"approve", "reject", "complete"},
             LoadRefund(w, f, op)
      PROVE  Still
  BY <1>3 DEF LoadRefund, rows
<1>4. ASSUME NEW w \in Workers, SaveDecision(w) \/ SettleRead(w) PROVE Still
  BY <1>4 DEF SaveDecision, SettleRead, rows
<1>5. ASSUME NEW w \in Workers, NEW c \in Credits, LoadCredit(w, c) PROVE Still
  BY <1>5 DEF LoadCredit, rows
<1>6. ASSUME NEW w \in Workers, IssueCredit(w) \/ ApplyCommit(w) \/ Abort(w) PROVE Still
  BY <1>6 DEF IssueCredit, ApplyCommit, Abort, rows
<1>7. ASSUME NEW w \in Workers, NEW c \in Credits, NEW i \in Invoices, NEW n \in Amount,
             ApplyRead(w, c, i, n)
      PROVE  Still
  BY <1>7 DEF ApplyRead, rows
<1>8. ASSUME NEW w \in Workers, NEW i \in Invoices, NEW op \in InvoiceOps, LoadInvoice(w, i, op)
      PROVE  Still
  BY <1>8 DEF LoadInvoice, rows
<1>9. ASSUME NEW w \in Workers, NEW n \in Totals, NEW status \in InvoiceStatus,
             SaveLoaded(w, n, status)
      PROVE  Still
  BY <1>9 DEF SaveLoaded
<1>10. ASSUME NEW f \in Refunds, NEW p \in Payments, NEW n \in Amount, RequestRefund(f, p, n)
       PROVE  Still
  BY <1>10 DEF RequestRefund
<1>11. ASSUME NEW c \in Credits, NEW n \in Totals, CreateCredit(c, n) PROVE Still
  BY <1>11 DEF CreateCredit
<1>12. ASSUME NEW i \in Invoices, DueDatePasses(i) PROVE Still
  BY <1>12 DEF DueDatePasses
<1>13. UNCHANGED vars => Still
  BY DEF vars
<1>15. ASSUME NEW f \in Refunds, Rewriting(f) PROVE Still
  BY <1>15 DEF Rewriting, RewriteRefund, DeleteRefund
<1> HIDE DEF Still
<1>14. \/ Still
       \/ \E w \in Workers : InsertPayment(w) \/ SettleCommit(w)
       \/ \E p \in Payments : DeletePayment(p)
  BY <1>1, <1>2, <1>3, <1>4, <1>5, <1>6, <1>7, <1>8, <1>9, <1>10, <1>11, <1>12, <1>13,
     <1>15 DEF Next, Rewriting
<1> QED BY <1>14 DEF Still

(* What a completion does to what is taken.                                 *)
LEMMA SettleTaken ==
  ASSUME LinkInv, NEW w \in Workers, SettleCommit(w), NEW d, d = request[w].pay
  PROVE  /\ d \in Payments /\ payments[d].inv \in Invoices
         /\ payments'[d].inv = payments[d].inv
         /\ \A p \in Payments : p # d => payments'[p] = payments[p]
         /\ payments[d].status # "completed" => payments'[d].status # "completed"
         /\ taken' = [taken EXCEPT ![payments[d].inv] =
                        @ - Net(payments[d]) + Net(payments'[d])]
<1>1. /\ d \in Payments /\ payments'[d] = RefundedPayment(payments[d], request[w].refund.amount)
      /\ payments'[d] = request[w].payment
      /\ \A p \in Payments : p # d => payments'[p] = payments[p]
  BY SettleWrites
<1>2. payments[d] \in PaymentRow /\ payments[d].inv \in Invoices
  BY <1>1 DEF LinkInv, TypeOK, PaymentRow
<1>3. payments'[d].inv = payments[d].inv
  BY <1>1, <1>2 DEF RefundedPayment
<1>4. payments[d].status # "completed" => payments'[d].status # "completed"
  BY <1>1 DEF RefundedPayment
<1>5. taken' = TakenAfter(d, payments'[d])
  BY <1>1 DEF SettleCommit
<1> QED BY <1>1, <1>2, <1>3, <1>4, <1>5 DEF TakenAfter

LEMMA TakenNext ==
  ASSUME IsFiniteSet(Payments) PROVE TakenInv /\ [Next]_vars => TakenInv'
<1> SUFFICES ASSUME TakenInv, [Next]_vars PROVE TakenInv'
  OBVIOUS
<1>0. LinkInv /\ LinkInv' /\ TypeOK /\ TypeOK' /\ \A i \in Invoices : taken[i] = Counted(i)
  BY LinkNext DEF TakenInv, LinkInv, TakenIsSum
<1>a. /\ payments \in [Payments -> PaymentRow] /\ taken \in [Invoices -> Int]
      /\ payments' \in [Payments -> PaymentRow]
  BY <1>0 DEF TypeOK
<1>b. \A p \in Payments : Net(payments[p]) \in Int /\ Net(payments'[p]) \in Int
  BY <1>a, NetType
<1> SUFFICES ASSUME NEW i \in Invoices PROVE taken'[i] = Counted(i)'
  BY <1>0 DEF TakenInv, TakenIsSum
<1>1. ASSUME UNCHANGED <<payments, taken>> PROVE taken'[i] = Counted(i)'
  BY <1>0, <1>1 DEF Counted, CountedPayments
<1>2. ASSUME NEW w \in Workers, InsertPayment(w) PROVE taken'[i] = Counted(i)'
  <2>0. PICK d, j, n : d = request[w].pay /\ j = request[w].inv /\ n = request[w].amount
    OBVIOUS
  <2>1. /\ request[w] \in Request /\ Link(request[w]) /\ d \in Payments /\ j \in Invoices
        /\ n \in Nat
    BY <1>0, <2>0 DEF LinkInv, TypeOK, Request
  <2>2. /\ payments[d].status = "absent"
        /\ payments' = [payments EXCEPT ![d] =
             [status |-> "completed", inv |-> j, amount |-> n, refunded |-> 0]]
        /\ taken' = [taken EXCEPT ![j] = @ + n]
    BY <1>2, <2>0, <2>1 DEF InsertPayment, Link
  <2>3. Part(d, i) = 0
    BY <2>2 DEF Part, Net
  <2>4. Part(d, i)' = IF j = i THEN n ELSE 0
    <3>1. payments'[d] = [status |-> "completed", inv |-> j, amount |-> n, refunded |-> 0]
      BY <1>a, <2>1, <2>2
    <3> QED BY <2>1, <3>1 DEF Part, Net
  <2>5. Counted(i)' = Counted(i) - Part(d, i) + Part(d, i)'
    BY <1>0, <1>a, <2>1, <2>2, OnePaymentCounted
  <2>6. taken'[i] = taken[i] + (IF j = i THEN n ELSE 0)
    BY <1>a, <2>1, <2>2
  <2>7. taken[i] \in Int
    BY <1>a
  <2> QED BY <1>0, <2>1, <2>3, <2>4, <2>5, <2>6, <2>7
<1>3. ASSUME NEW w \in Workers, SettleCommit(w) PROVE taken'[i] = Counted(i)'
  <2>0. PICK d : d = request[w].pay
    OBVIOUS
  <2>1. /\ d \in Payments /\ payments'[d].inv = payments[d].inv
        /\ \A p \in Payments : p # d => payments'[p] = payments[p]
        /\ taken' = [taken EXCEPT ![payments[d].inv] =
                       @ - Net(payments[d]) + Net(payments'[d])]
    BY <1>0, <1>3, <2>0, SettleTaken
  <2>2. Counted(i)' = Counted(i) - Part(d, i) + Part(d, i)'
    BY <1>0, <2>1, OnePaymentCounted
  <2>3. taken'[i] = taken[i] - Part(d, i) + Part(d, i)'
    <3>1. CASE payments[d].inv = i
      BY <1>a, <2>1, <3>1 DEF Part
    <3>2. CASE payments[d].inv # i
      <4>1. Part(d, i) = 0 /\ Part(d, i)' = 0 /\ taken'[i] = taken[i] /\ taken[i] \in Int
        BY <1>a, <2>1, <3>2 DEF Part
      <4> QED BY <4>1
    <3> QED BY <3>1, <3>2
  <2> QED BY <1>0, <2>2, <2>3
<1>4. ASSUME NEW d \in Payments, DeletePayment(d) PROVE taken'[i] = Counted(i)'
  <2>1. /\ payments' = [payments EXCEPT ![d] = NoPayment]
        /\ taken' = [taken EXCEPT ![payments[d].inv] = @ - Net(payments[d])]
    BY <1>4 DEF DeletePayment
  <2>2. payments'[d].status = "absent" /\ \A p \in Payments : p # d => payments'[p] = payments[p]
    BY <1>a, <2>1 DEF NoPayment
  <2>3. Part(d, i)' = 0
    BY <2>2 DEF Part, Net
  <2>4. Counted(i)' = Counted(i) - Part(d, i) + Part(d, i)'
    BY <1>0, <2>2, OnePaymentCounted
  <2>5. taken'[i] = taken[i] - Part(d, i)
    <3>1. CASE payments[d].inv = i
      BY <1>a, <2>1, <3>1 DEF Part
    <3>2. CASE payments[d].inv # i
      <4>1. Part(d, i) = 0 /\ taken'[i] = taken[i] /\ taken[i] \in Int
        BY <1>a, <2>1, <3>2 DEF Part
      <4> QED BY <4>1
    <3> QED BY <3>1, <3>2
  <2>6. Part(d, i) \in Int /\ taken[i] \in Int
    BY <1>a, <1>b DEF Part
  <2> QED BY <1>0, <2>3, <2>4, <2>5, <2>6
<1> QED BY <1>1, <1>2, <1>3, <1>4, PaymentSteps

LEMMA TakenInit == Init => TakenInv
<1> SUFFICES ASSUME Init PROVE TakenInv
  OBVIOUS
<1>1. ASSUME NEW i \in Invoices PROVE taken[i] = Counted(i)
  <2>1. CountedPayments(i) = {} /\ taken[i] = 0
    BY DEF Init, CountedPayments, NoPayment
  <2> QED BY <2>1, NothingCounted
<1> QED BY <1>1, LinkInit DEF TakenInv, TakenIsSum

(* What the model keeps as taken is the sum over the payment table that the *)
(* code computes, whatever the interleaving, the crashes and the deletions. *)
THEOREM TakenSummed == ASSUME IsFiniteSet(Payments) PROVE Spec => []TakenIsSum
<1>1. TakenInv /\ [Next]_vars => TakenInv'
  BY TakenNext
<1>2. TakenInv => TakenIsSum
  BY DEF TakenInv
<1> QED BY <1>1, <1>2, TakenInit, PTL DEF Spec
-----------------------------------------------------------------------------
(* Balances and statuses of invoices, when no two requests hold one invoice *)
(* and there is no crash and no deletion.  Outside the request that is      *)
(* writing a payment, an invoice fits what is collected on it; a request    *)
(* that will save an invoice holds the row in the table, and the sum it     *)
(* holds is the one after its own commit.                                   *)

InvoiceEdits == {"send", "view", "edit", "void"}

Fits(row, n) ==
  /\ row.paid = Smaller(n, row.total) /\ row.due = AtLeastZero(row.total - n)
  /\ row.status \notin {"void", "refunded"} =>
       (row.status = "paid" <=> row.total > 0 /\ n >= row.total)

Holds(r) ==
  /\ \/ r.stage \in {"checked", "inserted", "summed", "settling", "applying"}
     \/ r.stage = "loaded" /\ r.op \in InvoiceEdits
     => r.row = invoices[r.inv]
  /\ r.stage = "summed" => r.collected = Collected(r.inv)
  /\ r.stage = "applying" => r.collected = Collected(r.inv) + r.amount
  /\ r.stage = "settling" =>
       /\ r.inv = payments[r.pay].inv
       /\ r.collected = Collected(r.inv) - Net(payments[r.pay]) + Net(r.payment)
  /\ r.stage = "loaded" /\ r.op = "edit" => Collected(r.inv) = 0

Unsummed(r, i) == r.stage \in {"inserted", "summed"} /\ r.inv = i
Settling(i) == \E w \in Workers : Unsummed(request[w], i)

RowsHeld == \A w \in Workers : Holds(request[w])
InvoicesFit == \A i \in Invoices :
  Settling(i) \/ Fits(invoices[i], Collected(i))

BalanceInv == TakenInv /\ RowsHeld /\ InvoicesFit

(* Invoice.save makes a row fit the sum it is given, and what the row says  *)
(* is paid is as good a sum as the one it was computed from.                *)
LEMMA SettledFits ==
  ASSUME NEW row \in InvoiceRow, NEW n \in Int, NEW pastDue \in BOOLEAN
  PROVE  Fits(Settled(row, n, pastDue), n)
<1> DEFINE paid == Smaller(n, row.total)
           status == StatusFor(row, paid)
           s == Settled(row, n, pastDue)
<1>1. row.total \in Nat /\ row.status \in InvoiceStatus
  BY DEF InvoiceRow
<1>2. /\ s.total = row.total /\ s.paid = paid /\ s.due = AtLeastZero(row.total - n)
      /\ s.status = IF pastDue /\ status \notin {"paid", "void", "refunded"}
                    THEN "overdue" ELSE status
  BY DEF Settled
<1>3. paid \in Int /\ (paid >= row.total <=> n >= row.total)
  BY <1>1 DEF Smaller
<1> HIDE DEF paid
<1>4. status \notin {"void", "refunded"} => (status = "paid" <=> row.total > 0 /\ n >= row.total)
  BY <1>1, <1>3 DEF StatusFor
<1> HIDE DEF status, s
<1>5. s.status \notin {"void", "refunded"} => (s.status = "paid" <=> row.total > 0 /\ n >= row.total)
  BY <1>2, <1>4
<1> QED BY <1>2, <1>5 DEF Fits, paid, s

LEMMA SettledPaid ==
  ASSUME NEW row \in InvoiceRow, NEW n \in Int, NEW pastDue \in BOOLEAN,
         row.paid = Smaller(n, row.total)
  PROVE  Fits(Settled(row, row.paid, pastDue), n)
<1> DEFINE s == Settled(row, row.paid, pastDue)
<1>1. row.total \in Nat /\ row.paid \in Int
  BY DEF InvoiceRow
<1>2. Fits(s, row.paid) /\ s.total = row.total
  BY <1>1, SettledFits DEF Settled
<1> HIDE DEF s
<1>3. /\ Smaller(row.paid, row.total) = Smaller(n, row.total)
      /\ AtLeastZero(row.total - row.paid) = AtLeastZero(row.total - n)
      /\ row.paid >= row.total <=> n >= row.total
  BY <1>1 DEF Smaller, AtLeastZero
<1>4. Fits(s, n)
  BY <1>2, <1>3 DEF Fits
<1> QED BY <1>4 DEF s

LEMMA CollectedInt == ASSUME TypeOK PROVE \A i \in Invoices : Collected(i) \in Int
BY DEF TypeOK, Collected

(* A request that goes on without saving an invoice.                        *)
LEMMA BalanceBegin ==
  ASSUME TypeOK, RowsHeld, InvoicesFit, UNCHANGED <<invoices, payments, taken, credited>>,
         NEW w \in Workers, NEW q, Begin(w, q), Holds(q),
         \A i \in Invoices : Unsummed(request[w], i) => Unsummed(q, i)
  PROVE  RowsHeld' /\ InvoicesFit'
<1>1. request'[w] = q /\ \A v \in Workers : v # w => request'[v] = request[v]
  BY DEF TypeOK, Begin
<1>2. RowsHeld'
  BY <1>1 DEF RowsHeld, Holds, Collected
<1>3. \A i \in Invoices : Settling(i) => Settling(i)'
  BY <1>1 DEF Settling, Unsummed
<1>4. InvoicesFit'
  BY <1>3 DEF InvoicesFit, Collected
<1> QED BY <1>2, <1>4

(* A request that starts, or that holds no invoice.                         *)
LEMMA BalanceStart ==
  ASSUME TypeOK, RowsHeld, InvoicesFit, UNCHANGED <<invoices, payments, taken, credited>>,
         NEW w \in Workers, NEW q, Begin(w, q), Holds(q),
         request[w].stage \notin {"inserted", "summed"}
  PROVE  RowsHeld' /\ InvoicesFit'
BY BalanceBegin DEF Unsummed

(* What a request writes on its own invoice leaves what another holds true. *)
LEMMA OthersHold ==
  ASSUME InvoicesApart, TypeOK, RowsHeld, NEW w \in Workers, Invoicing(request[w]),
         NEW i \in Invoices, i = request[w].inv,
         \A j \in Invoices \ {i} : invoices'[j] = invoices[j] /\ Collected(j)' = Collected(j),
         NEW v \in Workers, v # w, request'[v] = request[v],
         request[v].stage = "settling" =>
           payments'[request[v].pay] = payments[request[v].pay]
  PROVE  Holds(request[v])'
<1>1. CASE Invoicing(request[v])
  <2>1. request[v].inv \in Invoices \ {i}
    BY <1>1 DEF InvoicesApart, TypeOK, Request
  <2>2. /\ invoices'[request[v].inv] = invoices[request[v].inv]
        /\ Collected(request[v].inv)' = Collected(request'[v].inv)
    BY <2>1 DEF Collected
  <2>3. Holds(request[v])
    BY DEF RowsHeld
  <2> QED BY <2>2, <2>3 DEF Holds, Collected
<1>2. CASE ~Invoicing(request[v])
  BY <1>2 DEF Invoicing, Holds, InvoiceEdits
<1> QED BY <1>1, <1>2

(* The invoice one request is going to save is summed by no other.          *)
LEMMA NotSettling ==
  ASSUME InvoicesApart, NEW w \in Workers, Invoicing(request[w]),
         request[w].stage \notin {"inserted", "summed"}
  PROVE  ~Settling(request[w].inv)
BY DEF InvoicesApart, Invoicing, Settling, Unsummed

(* A request that ends having saved at most its own invoice, i.             *)
LEMMA BalanceSaved ==
  ASSUME InvoicesApart, TypeOK, RowsHeld, InvoicesFit, NEW w \in Workers, Done(w),
         Invoicing(request[w]), NEW i \in Invoices, i = request[w].inv,
         \A j \in Invoices \ {i} : invoices'[j] = invoices[j] /\ Collected(j)' = Collected(j),
         \A v \in Workers : v # w /\ request[v].stage = "settling" =>
           payments'[request[v].pay] = payments[request[v].pay],
         Fits(invoices'[i], Collected(i)')
  PROVE  RowsHeld' /\ InvoicesFit'
<1>1. request'[w].stage = "idle" /\ \A v \in Workers : v # w => request'[v] = request[v]
  BY DEF TypeOK, Done, Idle
<1>2. RowsHeld'
  <2>1. Holds(request[w])'
    BY <1>1 DEF Holds
  <2>2. \A v \in Workers : v # w => Holds(request[v])'
    BY <1>1, OthersHold
  <2> QED BY <2>1, <2>2 DEF RowsHeld
<1>3. ASSUME NEW j \in Invoices
      PROVE  Settling(j)' \/ Fits(invoices'[j], Collected(j)')
  <2>1. CASE j = i
    BY <2>1
  <2>2. CASE j # i
    <3>1. Settling(j) => Settling(j)'
      BY <1>1, <2>2 DEF Settling, Unsummed
    <3> QED BY <2>2, <3>1 DEF InvoicesFit
  <2> QED BY <2>1, <2>2
<1>4. InvoicesFit'
  BY <1>3 DEF InvoicesFit
<1> QED BY <1>2, <1>4

LEMMA BalanceCollections ==
  ASSUME InvoicesApart, BalanceInv, NEW w \in Workers, SaveCollections(w)
  PROVE  RowsHeld' /\ InvoicesFit'
<1>0. TypeOK /\ RowsHeld /\ InvoicesFit
  BY DEF BalanceInv, TakenInv, LinkInv
<1>1. PICK i, r : i = request[w].inv /\ r = request[w]
  OBVIOUS
<1>2. /\ r \in Request /\ i \in Invoices /\ invoices \in [Invoices -> InvoiceRow]
      /\ late[i] \in BOOLEAN
  BY <1>0, <1>1 DEF TypeOK, Request
<1>3. /\ r.stage = "summed" /\ Done(w)
      /\ invoices' = [invoices EXCEPT ![i] = Settled(r.row, r.collected, late[i])]
      /\ \A j : Collected(j)' = Collected(j)
  BY <1>1 DEF SaveCollections, SaveInvoice, Collected
<1>4. r.row = invoices[i] /\ r.collected = Collected(i)
  BY <1>0, <1>1, <1>2, <1>3 DEF RowsHeld, Holds, InvoicesFit
<1>5. Fits(invoices'[i], Collected(i)')
  <2>1. Collected(i) \in Int /\ invoices[i] \in InvoiceRow
    BY <1>0, <1>2, CollectedInt
  <2>2. Fits(Settled(invoices[i], Collected(i), late[i]), Collected(i))
    BY <1>2, <1>4, <2>1, SettledFits
  <2> QED BY <1>2, <1>3, <1>4, <2>2
<1>6. \A j \in Invoices \ {i} : invoices'[j] = invoices[j]
  BY <1>2, <1>3
<1>7. Invoicing(request[w]) /\ payments' = payments
  BY <1>1, <1>3 DEF Invoicing, SaveCollections
<1> QED BY <1>0, <1>1, <1>2, <1>3, <1>5, <1>6, <1>7, BalanceSaved

LEMMA BalanceSettled ==
  ASSUME InvoicesApart, BalanceInv, NEW w \in Workers, SettleCommit(w)
  PROVE  RowsHeld' /\ InvoicesFit'
<1>0. TypeOK /\ RowsHeld /\ InvoicesFit /\ LinkInv
  BY DEF BalanceInv, TakenInv, LinkInv
<1>1. PICK i, r, d : i = request[w].inv /\ r = request[w] /\ d = request[w].pay
  OBVIOUS
<1>2. /\ r \in Request /\ i \in Invoices /\ invoices \in [Invoices -> InvoiceRow]
      /\ late[i] \in BOOLEAN /\ taken \in [Invoices -> Int]
  BY <1>0, <1>1 DEF TypeOK, Request
<1>3. /\ r.stage = "settling" /\ Done(w) /\ credited' = credited
      /\ IF payments[d].status = "completed"
         THEN invoices' = [invoices EXCEPT ![i] = Settled(r.row, r.collected, late[i])]
         ELSE invoices' = invoices
  BY <1>1 DEF SettleCommit, SaveInvoice
<1>4. /\ r.row = invoices[i] /\ i = payments[d].inv
      /\ r.collected = Collected(i) - Net(payments[d]) + Net(r.payment)
  BY <1>0, <1>1, <1>3 DEF RowsHeld, Holds
<1>5. /\ payments[d].status # "completed" => payments'[d].status # "completed"
      /\ taken' = [taken EXCEPT ![i] = @ - Net(payments[d]) + Net(payments'[d])]
      /\ d \in Payments
  BY <1>0, <1>1, <1>4, SettleTaken
<1>6. payments'[d] = r.payment
  BY <1>0, <1>1, SettleWrites
<1>7. /\ Net(payments[d]) \in Int /\ Net(r.payment) \in Int
      /\ taken[i] \in Int /\ credited[i] \in Int
  BY <1>0, <1>2, <1>5, NetType DEF TypeOK, Request
<1>8. Collected(i)' = r.collected /\ r.collected \in Int
  BY <1>2, <1>3, <1>4, <1>5, <1>6, <1>7 DEF Collected
<1>9. \A j \in Invoices \ {i} : Collected(j)' = Collected(j)
  BY <1>2, <1>3, <1>5 DEF Collected
<1>10. \A j \in Invoices \ {i} : invoices'[j] = invoices[j]
  BY <1>2, <1>3
<1>11. Invoicing(request[w])
  BY <1>1, <1>3 DEF Invoicing
<1>12. Fits(invoices'[i], Collected(i)')
  <2>1. CASE payments[d].status = "completed"
    <3>1. invoices[i] \in InvoiceRow
      BY <1>0, <1>2 DEF InvoicesFit
    <3>2. Fits(Settled(invoices[i], r.collected, late[i]), r.collected)
      BY <1>2, <1>8, <3>1, SettledFits
    <3>3. invoices'[i] = Settled(invoices[i], r.collected, late[i])
      BY <1>2, <1>3, <1>4, <2>1
    <3> QED BY <1>8, <3>2, <3>3
  <2>2. CASE payments[d].status # "completed"
    <3>1. Net(payments[d]) = 0 /\ Net(r.payment) = 0
      BY <1>5, <1>6, <2>2 DEF Net
    <3>2. Collected(i)' = Collected(i)
      BY <1>4, <1>7, <1>8, <3>1 DEF Collected
    <3>3. ~Settling(i)
      BY <1>1, <1>3, <1>11, NotSettling
    <3> QED BY <1>0, <1>2, <1>3, <2>2, <3>2, <3>3 DEF InvoicesFit
  <2> QED BY <2>1, <2>2
<1>13. \A v \in Workers : v # w /\ request[v].stage = "settling" =>
         payments'[request[v].pay] = payments[request[v].pay]
  <2> SUFFICES ASSUME NEW v \in Workers, v # w, request[v].stage = "settling"
               PROVE  payments'[request[v].pay] = payments[request[v].pay]
    OBVIOUS
  <2>1. request[v].pay # d
    BY <1>0, <1>1, <1>3 DEF LinkInv, Apart
  <2>2. request[v].op \in RefundOps
    BY <1>0 DEF LinkInv, Link, RefundOps
  <2>3. request[v].pay \in Payments
    BY <1>0, <2>2, LinkedPayment
  <2> QED BY <1>0, <1>1, <2>1, <2>3, SettleTaken
<1> QED BY <1>0, <1>1, <1>2, <1>3, <1>9, <1>10, <1>12, <1>13, <1>11, BalanceSaved

LEMMA BalanceApplied ==
  ASSUME InvoicesApart, BalanceInv, NEW w \in Workers, ApplyCommit(w)
  PROVE  RowsHeld' /\ InvoicesFit'
<1>0. TypeOK /\ RowsHeld /\ InvoicesFit
  BY DEF BalanceInv, TakenInv, LinkInv
<1>1. PICK i, r : i = request[w].inv /\ r = request[w]
  OBVIOUS
<1>2. /\ r \in Request /\ i \in Invoices /\ invoices \in [Invoices -> InvoiceRow]
      /\ late[i] \in BOOLEAN /\ r.amount \in Nat /\ credited \in [Invoices -> Nat]
      /\ taken[i] \in Int
  BY <1>0, <1>1 DEF TypeOK, Request
<1>3. /\ r.stage = "applying" /\ Done(w) /\ taken' = taken
      /\ credited' = [credited EXCEPT ![i] = @ + r.amount]
      /\ invoices' = [invoices EXCEPT ![i] = Settled(r.row, r.collected, late[i])]
  BY <1>1 DEF ApplyCommit, SaveInvoice
<1>4. r.row = invoices[i] /\ r.collected = Collected(i) + r.amount
  BY <1>0, <1>1, <1>2, <1>3 DEF RowsHeld, Holds, InvoicesFit
<1>5. Collected(i)' = r.collected /\ r.collected \in Int
  BY <1>2, <1>3, <1>4 DEF Collected
<1>6. Fits(invoices'[i], Collected(i)')
  <2>1. invoices[i] \in InvoiceRow
    BY <1>2
  <2>2. Fits(Settled(invoices[i], r.collected, late[i]), r.collected)
    BY <1>2, <1>4, <1>5, <2>1, SettledFits
  <2> QED BY <1>2, <1>3, <1>4, <1>5, <2>2
<1>7. \A j \in Invoices \ {i} : invoices'[j] = invoices[j] /\ Collected(j)' = Collected(j)
  BY <1>2, <1>3 DEF Collected
<1>8. Invoicing(request[w]) /\ payments' = payments
  BY <1>1, <1>3 DEF Invoicing, ApplyCommit
<1> QED BY <1>0, <1>1, <1>2, <1>3, <1>6, <1>7, <1>8, BalanceSaved

(* send, view, edit and void: what is paid does not change, and only an     *)
(* invoice on which nothing is collected gets another total.                *)
LEMMA BalanceEdited ==
  ASSUME InvoicesApart, BalanceInv, NEW w \in Workers, NEW n \in Totals, NEW status \in InvoiceStatus,
         SaveLoaded(w, n, status)
  PROVE  RowsHeld' /\ InvoicesFit'
<1>0. TypeOK /\ RowsHeld /\ InvoicesFit
  BY DEF BalanceInv, TakenInv, LinkInv
<1>1. PICK i, r, row : i = request[w].inv /\ r = request[w] /\ row = Edited(r.op, r.row, n, status)
  OBVIOUS
<1>2. /\ r \in Request /\ i \in Invoices /\ invoices \in [Invoices -> InvoiceRow]
      /\ late[i] \in BOOLEAN /\ r.row \in InvoiceRow /\ n \in Nat
  BY <1>0, <1>1, BoundsAssumption DEF TypeOK, Request, Totals
<1>3. /\ r.stage = "loaded" /\ r.op \in InvoiceEdits /\ Done(w)
      /\ invoices' = [invoices EXCEPT ![i] = Settled(row, row.paid, late[i])]
      /\ \A j : Collected(j)' = Collected(j)
  BY <1>1 DEF SaveLoaded, SaveInvoice, Collected, InvoiceEdits
<1>4. r.row = invoices[i] /\ (r.op = "edit" => Collected(i) = 0)
  BY <1>0, <1>1, <1>3 DEF RowsHeld, Holds
<1>5. Invoicing(request[w]) /\ payments' = payments
  BY <1>1, <1>3 DEF Invoicing, InvoiceEdits, SaveLoaded
<1>6. ~Settling(i)
  BY <1>1, <1>3, <1>5, NotSettling
<1>7. /\ r.row.paid = Smaller(Collected(i), r.row.total)
      /\ Collected(i) \in Int /\ r.row.total \in Nat /\ r.row.paid \in Int
  BY <1>0, <1>2, <1>4, <1>6, CollectedInt DEF InvoicesFit, Fits, InvoiceRow
<1>8. /\ row \in InvoiceRow /\ row.paid = r.row.paid
      /\ row.total = IF r.op = "edit" THEN n ELSE r.row.total
  <2>1. row \in InvoiceRow
    BY <1>1, <1>2, <1>3, EditedType DEF InvoiceEdits
  <2>2. CASE r.op = "edit"
    BY <1>1, <1>2, <2>1, <2>2 DEF Edited, InvoiceRow
  <2>3. CASE r.op = "send"
    BY <1>1, <1>2, <2>1, <2>3 DEF Edited, InvoiceRow
  <2>4. CASE r.op = "view"
    BY <1>1, <1>2, <2>1, <2>4 DEF Edited, InvoiceRow
  <2>5. CASE r.op = "void"
    BY <1>1, <1>2, <2>1, <2>5 DEF Edited, InvoiceRow
  <2> QED BY <1>3, <2>2, <2>3, <2>4, <2>5 DEF InvoiceEdits
<1>9. row.paid = Smaller(Collected(i), row.total)
  BY <1>2, <1>4, <1>7, <1>8 DEF Smaller
<1>10. Fits(invoices'[i], Collected(i)')
  <2>1. Fits(Settled(row, row.paid, late[i]), Collected(i))
    BY <1>2, <1>7, <1>8, <1>9, SettledPaid
  <2> QED BY <1>2, <1>3, <2>1
<1>11. \A j \in Invoices \ {i} : invoices'[j] = invoices[j] /\ Collected(j)' = Collected(j)
  BY <1>2, <1>3
<1> QED BY <1>0, <1>1, <1>2, <1>3, <1>10, <1>11, <1>5, BalanceSaved

LEMMA BalanceInserted ==
  ASSUME InvoicesApart, BalanceInv, NEW w \in Workers, InsertPayment(w)
  PROVE  RowsHeld' /\ InvoicesFit'
<1>0. TypeOK /\ RowsHeld /\ InvoicesFit /\ LinkInv
  BY DEF BalanceInv, TakenInv, LinkInv
<1>1. PICK i, q : i = request[w].inv /\ q = [request[w] EXCEPT !.stage = "inserted"]
  OBVIOUS
<1>2. /\ request[w] \in Request /\ i \in Invoices /\ taken \in [Invoices -> Int]
      /\ payments \in [Payments -> PaymentRow]
  BY <1>0, <1>1 DEF TypeOK, Request
<1>3. /\ q.stage = "inserted" /\ q.inv = i /\ q.row = request[w].row
  BY <1>1, <1>2 DEF Request
<1>4. /\ request[w].stage = "checked" /\ request' = [request EXCEPT ![w] = q]
      /\ invoices' = invoices /\ credited' = credited
      /\ taken' = [taken EXCEPT ![i] = @ + request[w].amount]
      /\ \A p \in Payments : p # request[w].pay => payments'[p] = payments[p]
  BY <1>1, <1>2 DEF InsertPayment, Begin
<1>5. request'[w] = q /\ \A v \in Workers : v # w => request'[v] = request[v]
  BY <1>0, <1>4 DEF TypeOK
<1>6. Invoicing(request[w]) /\ q.row = invoices[i]
  BY <1>0, <1>1, <1>3, <1>4 DEF RowsHeld, Holds, Invoicing
<1>7. \A j \in Invoices \ {i} : invoices'[j] = invoices[j] /\ Collected(j)' = Collected(j)
  BY <1>2, <1>4 DEF Collected
<1>8. \A v \in Workers : v # w /\ request[v].stage = "settling" =>
        payments'[request[v].pay] = payments[request[v].pay]
  <2> SUFFICES ASSUME NEW v \in Workers, v # w, request[v].stage = "settling"
               PROVE  payments'[request[v].pay] = payments[request[v].pay]
    OBVIOUS
  <2>1. request[v].op \in RefundOps
    BY <1>0 DEF LinkInv, Link, RefundOps
  <2>2. request[v].pay \in Payments /\ payments[request[v].pay].status # "absent"
    BY <1>0, <2>1, LinkedPayment
  <2>3. payments[request[w].pay].status = "absent"
    BY <1>0, <1>4 DEF LinkInv, Link
  <2> QED BY <1>4, <2>2, <2>3
<1>9. RowsHeld'
  <2>1. Holds(request[w])'
    BY <1>3, <1>4, <1>5, <1>6 DEF Holds
  <2>2. \A v \in Workers : v # w => Holds(request[v])'
    BY <1>0, <1>1, <1>2, <1>5, <1>6, <1>7, <1>8, OthersHold
  <2> QED BY <2>1, <2>2 DEF RowsHeld
<1>10. Settling(i)' /\ \A j \in Invoices : j # i /\ Settling(j) => Settling(j)'
  BY <1>1, <1>3, <1>5 DEF Settling, Unsummed
<1>11. InvoicesFit'
  BY <1>0, <1>4, <1>7, <1>10 DEF InvoicesFit
<1> QED BY <1>9, <1>11

(* What may be edited has nothing collected on it.                          *)
LEMMA UnlockedUncollected ==
  ASSUME TypeOK, TakenIsSum, NEW i \in Invoices, ~FinanciallyLocked(i)
  PROVE  Collected(i) = 0
<1>1. CountedPayments(i) = {} /\ ~(credited[i] > 0)
  BY DEF FinanciallyLocked, CountedPayments
<1>2. taken[i] = 0
  BY <1>1, NothingCounted DEF TakenIsSum
<1>3. credited[i] = 0
  BY <1>1 DEF TypeOK
<1> QED BY <1>2, <1>3 DEF Collected

LEMMA BalanceNext ==
  ASSUME Events = {}, IsFiniteSet(Payments)
  PROVE  BalanceInv /\ InvoicesApart /\ [Next]_vars => BalanceInv'
<1> SUFFICES ASSUME BalanceInv, InvoicesApart, [Next]_vars PROVE BalanceInv'
  OBVIOUS
<1>0. TypeOK /\ RowsHeld /\ InvoicesFit /\ TakenInv /\ TakenInv' /\ LinkInv
  BY TakenNext DEF BalanceInv, TakenInv, LinkInv
<1>a. \A w \in Workers : request[w] \in Request /\ Holds(request[w]) /\ Link(request[w])
  BY <1>0 DEF TypeOK, RowsHeld, LinkInv
<1> DEFINE Good == RowsHeld' /\ InvoicesFit'
<1> SUFFICES Good
  BY <1>0 DEF BalanceInv
<1>1. ASSUME NEW w \in Workers, NEW p \in Payments, NEW i \in Invoices, NEW n \in Amount,
             CheckPayment(w, p, i, n)
      PROVE  Good
  <2> DEFINE q == [Idle EXCEPT !.stage = "checked", !.op = "pay", !.inv = i,
                               !.pay = p, !.amount = n, !.row = invoices[i]]
  <2>1. q.stage = "checked" /\ q.inv = i /\ q.row = invoices[i]
    BY DEF Idle
  <2>2. /\ Begin(w, q) /\ request[w].stage = "idle"
        /\ UNCHANGED <<invoices, payments, taken, credited>>
    BY <1>1 DEF CheckPayment, rows, IsIdle
  <2> HIDE DEF q
  <2>3. Holds(q)
    BY <2>1 DEF Holds
  <2> QED BY <1>0, <2>2, <2>3, BalanceStart
<1>2. ASSUME NEW w \in Workers, InsertPayment(w) PROVE Good
  BY <1>2, BalanceInserted
<1>3. ASSUME NEW w \in Workers, SumCollections(w) PROVE Good
  <2> DEFINE q == [request[w] EXCEPT !.stage = "summed", !.collected = Collected(request[w].inv)]
  <2>1. /\ q.stage = "summed" /\ q.inv = request[w].inv /\ q.row = request[w].row
        /\ q.collected = Collected(request[w].inv)
    BY <1>a DEF Request
  <2>2. /\ Begin(w, q) /\ request[w].stage = "inserted"
        /\ UNCHANGED <<invoices, payments, taken, credited>>
    BY <1>3 DEF SumCollections, rows
  <2> HIDE DEF q
  <2>3. Holds(q)
    BY <1>a, <2>1, <2>2 DEF Holds
  <2>4. \A i \in Invoices : Unsummed(request[w], i) => Unsummed(q, i)
    BY <2>1 DEF Unsummed
  <2> QED BY <1>0, <2>2, <2>3, <2>4, BalanceBegin
<1>4. ASSUME NEW w \in Workers, SaveCollections(w) PROVE Good
  BY <1>4, BalanceCollections
<1>5. ASSUME NEW w \in Workers, NEW f \in Refunds, NEW op \in {"approve", "reject", "complete"},
             LoadRefund(w, f, op)
      PROVE  Good
  <2> DEFINE q == [Idle EXCEPT !.stage = "loaded", !.op = op, !.ref = f,
                               !.pay = refunds[f].pay, !.refund = refunds[f]]
  <2>1. q.stage = "loaded" /\ q.op \notin InvoiceEdits /\ q.op # "edit"
    BY DEF Idle, InvoiceEdits
  <2>2. /\ Begin(w, q) /\ request[w].stage = "idle"
        /\ UNCHANGED <<invoices, payments, taken, credited>>
    BY <1>5 DEF LoadRefund, rows, IsIdle
  <2> HIDE DEF q
  <2>3. Holds(q)
    BY <2>1 DEF Holds
  <2> QED BY <1>0, <2>2, <2>3, BalanceStart
<1>6. ASSUME NEW w \in Workers, Begin(w, Idle), request[w].stage \notin {"inserted", "summed"},
             UNCHANGED <<invoices, payments, taken, credited>>
      PROVE  Good
  <2>1. Holds(Idle)
    BY DEF Idle, Holds
  <2> QED BY <1>0, <1>6, <2>1, BalanceStart
<1>7. ASSUME NEW w \in Workers, SaveDecision(w) \/ IssueCredit(w) \/ Abort(w) PROVE Good
  <2>1. /\ Begin(w, Idle) /\ request[w].stage \notin {"inserted", "summed"}
        /\ UNCHANGED <<invoices, payments, taken, credited>>
    BY <1>7 DEF SaveDecision, IssueCredit, Abort, Done, Begin, rows
  <2> QED BY <1>6, <2>1
<1>8. ASSUME NEW w \in Workers, SettleRead(w) PROVE Good
  <2> DEFINE r == request[w]
             p == RefundedPayment(payments[r.pay], r.refund.amount)
             q == [r EXCEPT !.stage = "settling", !.payment = p, !.inv = p.inv,
                            !.row = invoices[p.inv],
                            !.collected = Collected(p.inv) - Net(payments[r.pay]) + Net(p)]
  <2>1. /\ Begin(w, q) /\ r.stage = "loaded"
        /\ UNCHANGED <<invoices, payments, taken, credited>>
    BY <1>8 DEF SettleRead, rows
  <2>2. p.inv = payments[r.pay].inv
    BY DEF RefundedPayment
  <2> HIDE DEF p
  <2>3. /\ q.stage = "settling" /\ q.inv = p.inv /\ q.pay = r.pay /\ q.payment = p
        /\ q.row = invoices[p.inv]
        /\ q.collected = Collected(p.inv) - Net(payments[r.pay]) + Net(p)
    BY <1>a DEF Request
  <2> HIDE DEF q
  <2>4. Holds(q)
    BY <2>2, <2>3 DEF Holds
  <2> QED BY <1>0, <2>1, <2>4, BalanceStart
<1>9. ASSUME NEW w \in Workers, SettleCommit(w) PROVE Good
  BY <1>9, BalanceSettled
<1>10. ASSUME NEW w \in Workers, NEW c \in Credits, LoadCredit(w, c) PROVE Good
  <2> DEFINE q == [Idle EXCEPT !.stage = "loaded", !.op = "issue", !.cred = c,
                               !.credit = credits[c]]
  <2>1. q.stage = "loaded" /\ q.op \notin InvoiceEdits /\ q.op # "edit"
    BY DEF Idle, InvoiceEdits
  <2>2. /\ Begin(w, q) /\ request[w].stage = "idle"
        /\ UNCHANGED <<invoices, payments, taken, credited>>
    BY <1>10 DEF LoadCredit, rows, IsIdle
  <2> HIDE DEF q
  <2>3. Holds(q)
    BY <2>1 DEF Holds
  <2> QED BY <1>0, <2>2, <2>3, BalanceStart
<1>11. ASSUME NEW w \in Workers, NEW c \in Credits, NEW i \in Invoices, NEW n \in Amount,
              ApplyRead(w, c, i, n)
       PROVE  Good
  <2> DEFINE q == [Idle EXCEPT !.stage = "applying", !.op = "apply", !.cred = c, !.inv = i,
                     !.amount = n, !.row = invoices[i], !.collected = Collected(i) + n]
  <2>1. /\ q.stage = "applying" /\ q.inv = i /\ q.amount = n /\ q.row = invoices[i]
        /\ q.collected = Collected(i) + n
    BY DEF Idle
  <2>2. /\ Begin(w, q) /\ request[w].stage = "idle"
        /\ UNCHANGED <<invoices, payments, taken, credited>>
    BY <1>11 DEF ApplyRead, rows, IsIdle
  <2> HIDE DEF q
  <2>3. Holds(q)
    BY <2>1 DEF Holds
  <2> QED BY <1>0, <2>2, <2>3, BalanceStart
<1>12. ASSUME NEW w \in Workers, ApplyCommit(w) PROVE Good
  BY <1>12, BalanceApplied
<1>13. ASSUME NEW w \in Workers, NEW i \in Invoices, NEW op \in InvoiceOps,
              LoadInvoice(w, i, op)
       PROVE  Good
  <2> DEFINE q == [Idle EXCEPT !.stage = "loaded", !.op = op, !.inv = i, !.row = invoices[i]]
  <2>1. q.stage = "loaded" /\ q.op = op /\ q.inv = i /\ q.row = invoices[i]
    BY DEF Idle
  <2>2. /\ Begin(w, q) /\ request[w].stage = "idle" /\ MayLoad(op, i)
        /\ UNCHANGED <<invoices, payments, taken, credited>>
    BY <1>13 DEF LoadInvoice, rows, IsIdle
  <2> HIDE DEF q
  <2>3. op = "edit" => Collected(i) = 0
    <3>1. op = "edit" => ~FinanciallyLocked(i)
      BY <2>2 DEF MayLoad
    <3> QED BY <1>0, <3>1, UnlockedUncollected DEF TakenInv
  <2>4. Holds(q)
    BY <2>1, <2>3 DEF Holds
  <2> QED BY <1>0, <2>2, <2>4, BalanceStart
<1>14. ASSUME NEW w \in Workers, NEW n \in Totals, NEW status \in InvoiceStatus,
              SaveLoaded(w, n, status)
       PROVE  Good
  BY <1>14, BalanceEdited
<1>15. ASSUME UNCHANGED <<invoices, payments, taken, credited, request>> PROVE Good
  BY <1>0, <1>15 DEF RowsHeld, Holds, InvoicesFit, Settling, Collected
<1>16. ASSUME NEW p \in Payments, DeletePayment(p) PROVE Good
  BY <1>16 DEF DeletePayment
<1>17. ASSUME NEW f \in Refunds, NEW p \in Payments, NEW n \in Amount, RequestRefund(f, p, n)
       PROVE  Good
  BY <1>15, <1>17 DEF RequestRefund
<1>18. ASSUME NEW c \in Credits, NEW n \in Totals, CreateCredit(c, n) PROVE Good
  BY <1>15, <1>18 DEF CreateCredit
<1>19. ASSUME NEW i \in Invoices, DueDatePasses(i) PROVE Good
  BY <1>15, <1>19 DEF DueDatePasses
<1>20. UNCHANGED vars => Good
  BY <1>15 DEF vars
<1>21. ASSUME NEW f \in Refunds, Rewriting(f) PROVE Good
  BY <1>15, <1>21 DEF Rewriting, RewriteRefund, DeleteRefund
<1> HIDE DEF Good
<1> QED
  BY <1>1, <1>2, <1>3, <1>4, <1>5, <1>7, <1>8, <1>9, <1>10, <1>11, <1>12, <1>13, <1>14,
     <1>16, <1>17, <1>18, <1>19, <1>20, <1>21 DEF Next, Rewriting

LEMMA BalanceInit == Init => BalanceInv
<1> SUFFICES ASSUME Init PROVE BalanceInv
  OBVIOUS
<1>1. RowsHeld
  BY DEF Init, RowsHeld, Holds, Idle
<1>2. ASSUME NEW i \in Invoices PROVE Fits(invoices[i], Collected(i))
  <2>1. PICK n \in Totals : invoices[i] = NewInvoice(n)
    BY DEF Init
  <2>2. n \in Nat /\ Collected(i) = 0
    BY BoundsAssumption DEF Totals, Init, Collected
  <2> QED BY <2>1, <2>2 DEF NewInvoice, Fits, Smaller, AtLeastZero
<1> QED BY <1>1, <1>2, TakenInit DEF BalanceInv, InvoicesFit

(* Between requests an invoice fits what the rows against it come to.       *)
LEMMA QuietFits ==
  ASSUME BalanceInv, Quiet, NEW i \in Invoices
  PROVE  Fits(invoices[i], Recorded(i))
<1>1. ~Settling(i)
  BY DEF Quiet, IsIdle, Settling, Unsummed
<1>2. Collected(i) = Recorded(i)
  <2>1. taken[i] = Counted(i) /\ taken[i] \in Int /\ credited[i] \in Int
    BY DEF BalanceInv, TakenInv, TakenIsSum, LinkInv, TypeOK
  <2> QED BY <2>1, RecordedIs DEF Collected
<1> QED BY <1>1, <1>2 DEF BalanceInv, InvoicesFit

(* When no two requests hold one invoice, and with no crash and no deletion, *)
(* the balance stored on every invoice is what its payments and credits     *)
(* come to.                                                                 *)
THEOREM BalancesMatch ==
  ASSUME Events = {}, IsFiniteSet(Payments)
  PROVE  Spec /\ []InvoicesApart => []BalanceMatchesCollections
<1>1. BalanceInv /\ InvoicesApart /\ [Next]_vars => BalanceInv'
  BY BalanceNext
<1>2. BalanceInv => BalanceMatchesCollections
  BY QuietFits DEF BalanceMatchesCollections, Fits
<1> QED BY <1>1, <1>2, BalanceInit, PTL DEF Spec

(* Under the same conditions an invoice in force is paid exactly when it    *)
(* has a total and the money recorded against it covers that.               *)
THEOREM PaidIsCovered ==
  ASSUME Events = {}, IsFiniteSet(Payments)
  PROVE  Spec /\ []InvoicesApart => []PaidMeansCovered
<1>1. BalanceInv /\ InvoicesApart /\ [Next]_vars => BalanceInv'
  BY BalanceNext
<1>2. BalanceInv => PaidMeansCovered
  <2> SUFFICES ASSUME BalanceInv, Quiet, NEW i \in Invoices,
                      invoices[i].status \notin {"void", "refunded"}
               PROVE  invoices[i].status = "paid" <=>
                        invoices[i].total > 0 /\ Recorded(i) >= invoices[i].total
    BY DEF PaidMeansCovered
  <2> QED BY QuietFits DEF Fits
<1> QED BY <1>1, <1>2, BalanceInit, PTL DEF Spec
====
