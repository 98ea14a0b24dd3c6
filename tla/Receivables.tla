----------------------------- MODULE Receivables -----------------------------
(***************************************************************************)
(* Customer invoices and what is collected against them (apps/billing):    *)
(* payments, refunds, credit notes and the void and edit operations.       *)
(*                                                                         *)
(* The balance of an invoice is stored on its row and recomputed from the  *)
(* payments and credit applications after each of them changes.  Only      *)
(* credit-note application and refund completion lock rows; every other    *)
(* request reads a row, decides, and saves the whole row later, in         *)
(* autocommit.  A request is therefore modelled as the steps between       *)
(* which another request may commit.                                       *)
(*                                                                         *)
(*   payment:  checked -> inserted -> summed -> (invoice saved)            *)
(*   refund:   loaded -> (decision saved) or settling -> (committed);      *)
(*             or rewritten or deleted through the plain REST endpoints    *)
(*   credit:   applying -> (committed), approval loaded -> (saved)         *)
(*   invoice:  loaded -> (saved)                                           *)
(***************************************************************************)
EXTENDS Integers, FiniteSets, Functions

CONSTANTS
  Invoices, Payments, Refunds, Credits,   \* primary keys
  Workers,       \* request handlers running at the same time
  MaxAmount,     \* BOUND: largest total of a document, amount of a payment or refund
  MaxUse,        \* BOUND: no credit note is used beyond it in the model
  MaxRefunded,   \* BOUND: no payment is refunded beyond it in the model
  Prepayments,   \* whether a customer prepayment account is configured
  InvoiceOps,    \* invoice operations in use, of {"send", "view", "edit", "void"}
  Editable,      \* payments whose refunds are also rewritten or deleted directly
  Events         \* subset of {"crash", "delete_payment"}

ASSUME SetsAssumption ==
  /\ Invoices # {} /\ Payments # {} /\ Refunds # {} /\ Credits # {}
  /\ Prepayments \in BOOLEAN /\ Editable \subseteq Payments
  /\ InvoiceOps \subseteq {"send", "view", "edit", "void"}
  /\ Events \subseteq {"crash", "delete_payment"}
ASSUME BoundsAssumption == MaxAmount \in Nat \ {0} /\ MaxUse \in Nat
                    /\ MaxRefunded \in Nat

VARIABLES
  invoices,   \* Invoice rows: status, total, amount_paid, amount_due
  late,       \* invoices whose due date has passed
  payments,   \* Payment rows
  refunds,    \* Refund rows
  credits,    \* CreditNote rows
  used,       \* sum of the CreditNoteApplication rows of a note
  taken,      \* sum of the completed Payment rows of an invoice, net of refunds
  credited,   \* sum of the CreditNoteApplication rows of an invoice
  request     \* what each request handler holds in memory

rows == <<invoices, late, payments, refunds, credits, used, taken, credited>>
vars == <<invoices, late, payments, refunds, credits, used, taken, credited, request>>

-----------------------------------------------------------------------------
Amount == 1 .. MaxAmount
Totals == 0 .. MaxAmount

InvoiceStatus == {"draft", "sent", "viewed", "partial", "paid", "overdue",
                  "void", "refunded"}
InvoiceRow == [status: InvoiceStatus, total: Nat, paid: Int, due: Nat]
PaymentRow == [status: {"absent", "completed", "refunded"}, inv: Invoices,
               amount: Nat, refunded: Nat]
RefundStatus == {"pending", "approved", "completed", "rejected", "cancelled"}
RefundRow == [status: RefundStatus \cup {"absent", "deleted"}, pay: Payments, amount: Nat]
CreditRow == [status: {"absent", "draft", "issued", "applied"},
              total: Nat, unused: Nat]

Ops == {"pay", "approve", "reject", "complete", "issue", "apply",
        "send", "view", "edit", "void"}
Stages == {"idle", "checked", "inserted", "summed", "loaded", "settling", "applying"}
Request == [stage: Stages, op: Ops, inv: Invoices, pay: Payments, ref: Refunds,
            cred: Credits, amount: Nat, collected: Int, row: InvoiceRow,
            payment: PaymentRow, refund: RefundRow, credit: CreditRow]

AnInvoice == CHOOSE i \in Invoices : TRUE
APayment == CHOOSE p \in Payments : TRUE
NewInvoice(n) == [status |-> "draft", total |-> n, paid |-> 0, due |-> n]
NoPayment == [status |-> "absent", inv |-> AnInvoice, amount |-> 0, refunded |-> 0]
NoRefund == [status |-> "absent", pay |-> APayment, amount |-> 0]
NoCredit == [status |-> "absent", total |-> 0, unused |-> 0]
Idle == [stage |-> "idle", op |-> "pay", inv |-> AnInvoice, pay |-> APayment,
         ref |-> CHOOSE r \in Refunds : TRUE, cred |-> CHOOSE c \in Credits : TRUE,
         amount |-> 0, collected |-> 0, row |-> NewInvoice(0),
         payment |-> NoPayment, refund |-> NoRefund, credit |-> NoCredit]

Init ==
  /\ invoices \in [Invoices -> {NewInvoice(n) : n \in Totals}]
  /\ late = [i \in Invoices |-> FALSE]
  /\ payments = [p \in Payments |-> NoPayment]
  /\ refunds = [r \in Refunds |-> NoRefund]
  /\ credits = [c \in Credits |-> NoCredit]
  /\ used = [c \in Credits |-> 0]
  /\ taken = [i \in Invoices |-> 0]
  /\ credited = [i \in Invoices |-> 0]
  /\ request = [w \in Workers |-> Idle]

-----------------------------------------------------------------------------
(* Balances.                                                               *)

Smaller(a, b) == IF a < b THEN a ELSE b
Unclamped(n) == n                            \* Fault: amount_due not clamped
AtLeastZero(n) == IF n < 0 THEN 0 ELSE n

(* What a payment contributes to its invoice.                              *)
NetGross(row) == IF row.status = "completed" THEN row.amount ELSE 0  \* Fault: no refunds
Net(row) == IF row.status = "completed" THEN row.amount - row.refunded ELSE 0

(* recalculate_amount_paid_from_collections: the sums over both tables.    *)
CollectedPaymentsOnly(i) == taken[i]         \* Fault: credits left out
Collected(i) == taken[i] + credited[i]

(* The sum over payments after row p has become new. *)
TakenAfter(p, new) ==
  [taken EXCEPT ![new.inv] = @ - Net(payments[p]) + Net(new)]

(* Invoice.save: balances, then the status they call for, then overdue.    *)
DemotedLate(row, paid) ==                    \* Fault: a paid invoice stays paid
  IF paid >= row.total /\ row.total > 0
  THEN IF row.status \in {"void", "refunded"} THEN row.status ELSE "paid"
  ELSE IF paid > 0
       THEN IF row.status \in {"void", "refunded", "paid"} THEN row.status ELSE "partial"
       ELSE IF row.status = "partial" THEN "sent" ELSE row.status
StatusFor(row, paid) ==
  IF paid >= row.total /\ row.total > 0
  THEN IF row.status \in {"void", "refunded"} THEN row.status ELSE "paid"
  ELSE IF paid > 0
       THEN IF row.status \in {"void", "refunded"} THEN row.status ELSE "partial"
       ELSE IF row.status \in {"paid", "partial"} THEN "sent" ELSE row.status

Settled(row, collected, pastDue) ==
  LET paid == Smaller(collected, row.total)
      status == StatusFor(row, paid)
  IN [status |-> IF pastDue /\ status \notin {"paid", "void", "refunded"}
                 THEN "overdue" ELSE status,
      total |-> row.total, paid |-> paid, due |-> AtLeastZero(row.total - collected)]

-----------------------------------------------------------------------------
(* Row locks: a refund completion holds its refund and its payment, a      *)
(* credit application holds its note and its invoice.                      *)

Free(w, stage, field, key) ==
  \A v \in Workers \ {w} : request[v].stage = stage => request[v][field] # key

(* What no completion of any handler has locked. *)
Unlocked(field, key) ==
  \A v \in Workers : request[v].stage = "settling" => request[v][field] # key

RefundFree(w, r) == Free(w, "settling", "ref", r)
PaymentFree(w, p) == Free(w, "settling", "pay", p)
CreditFree(w, c) == Free(w, "applying", "cred", c)
InvoiceFree(w, i) == Free(w, "applying", "inv", i)

Begin(w, r) == request' = [request EXCEPT ![w] = r]
Done(w) == request' = [request EXCEPT ![w] = Idle]
IsIdle(w) == request[w].stage = "idle"

SaveInvoice(w, i, row) ==
  /\ InvoiceFree(w, i)
  /\ invoices' = [invoices EXCEPT ![i] = row]

-----------------------------------------------------------------------------
(* Payments (PaymentCreateSerializer, Payment.save).                       *)

(* The invoice is refreshed and only refused when its status is paid; more *)
(* than the balance needs a prepayment account.                            *)
CheckPayment(w, p, i, n) ==
  /\ IsIdle(w)
  /\ payments[p].status = "absent"
  /\ \A v \in Workers : IsIdle(v) \/ request[v].pay # p \/ request[v].op # "pay"
  /\ \A r \in Refunds : refunds[r].status = "absent" \/ refunds[r].pay # p
  /\ invoices[i].status # "paid"
  /\ n <= invoices[i].due \/ Prepayments
  /\ Begin(w, [Idle EXCEPT !.stage = "checked", !.op = "pay", !.inv = i,
                           !.pay = p, !.amount = n, !.row = invoices[i]])
  /\ UNCHANGED rows

InsertPayment(w) ==
  LET r == request[w] IN
  /\ r.stage = "checked"
  /\ payments' = [payments EXCEPT ![r.pay] =
       [status |-> "completed", inv |-> r.inv, amount |-> r.amount, refunded |-> 0]]
  /\ taken' = [taken EXCEPT ![r.inv] = @ + r.amount]
  /\ Begin(w, [r EXCEPT !.stage = "inserted"])
  /\ UNCHANGED <<invoices, late, refunds, credits, used, credited>>

(* recalculate_amount_paid_from_collections sums what is in the tables ... *)
SumCollections(w) ==
  LET r == request[w] IN
  /\ r.stage = "inserted"
  /\ Begin(w, [r EXCEPT !.stage = "summed",
                        !.collected = Collected(r.inv)])
  /\ UNCHANGED rows

(* ... and saves the whole invoice row it loaded before the payment.       *)
SaveCollections(w) ==
  LET r == request[w] IN
  /\ r.stage = "summed"
  /\ SaveInvoice(w, r.inv, Settled(r.row, r.collected, late[r.inv]))
  /\ Done(w)
  /\ UNCHANGED <<late, payments, refunds, credits, used, taken, credited>>

(* DELETE /payments: refunds protect the row, the invoice is left alone.   *)
Unrefunded(p) ==
  \A r \in Refunds : refunds[r].status \in {"absent", "deleted"} \/ refunds[r].pay # p

DeletePayment(p) ==
  /\ "delete_payment" \in Events
  /\ payments[p].status # "absent"
  /\ Unrefunded(p) /\ Unlocked("pay", p)
  /\ payments' = [payments EXCEPT ![p] = NoPayment]
  /\ taken' = [taken EXCEPT ![payments[p].inv] = @ - Net(payments[p])]
  /\ UNCHANGED <<invoices, late, refunds, credits, used, credited, request>>

-----------------------------------------------------------------------------
(* Refunds.                                                                *)

(* Payment.refund and POST /refunds: bounded by what was refunded so far,  *)
(* not by the refunds still pending.                                       *)
RequestRefund(r, p, n) ==
  /\ refunds[r].status = "absent"
  /\ payments[p].status # "absent"
  /\ n <= payments[p].amount - payments[p].refunded
  /\ refunds' = [refunds EXCEPT ![r] = [status |-> "pending", pay |-> p, amount |-> n]]
  /\ UNCHANGED <<invoices, late, payments, credits, used, taken, credited, request>>

(* Fault: a rejected refund can be approved after all.                     *)
RequiredLoose(op) ==
  IF op = "complete" THEN {"approved"} ELSE {"pending", "rejected", "completed"}
Required(op) == IF op = "complete" THEN {"approved"} ELSE {"pending"}

(* approve, reject and complete test the status of the row they loaded.    *)
LoadRefund(w, r, op) ==
  /\ IsIdle(w)
  /\ refunds[r].status \in Required(op)
  /\ Begin(w, [Idle EXCEPT !.stage = "loaded", !.op = op, !.ref = r,
                           !.pay = refunds[r].pay, !.refund = refunds[r]])
  /\ UNCHANGED rows

(* A copy whose payment has been deleted cannot be saved: the foreign key  *)
(* refuses it.                                                             *)
SaveDecision(w) ==
  LET r == request[w] IN
  /\ r.stage = "loaded" /\ r.op \in {"approve", "reject"}
  /\ RefundFree(w, r.ref) /\ payments[r.pay].status # "absent"
  /\ refunds' = [refunds EXCEPT ![r.ref] =
       [r.refund EXCEPT !.status = IF r.op = "approve" THEN "approved" ELSE "rejected"]]
  /\ Done(w)
  /\ UNCHANGED <<invoices, late, payments, credits, used, taken, credited>>

(* The payment row complete saves.                                         *)
RefundedOffByOne(row, n) ==                  \* Fault: > for >=
  [status |-> IF row.refunded + n > row.amount THEN "refunded" ELSE row.status,
   inv |-> row.inv, amount |-> row.amount, refunded |-> row.refunded + n]
RefundedPayment(row, n) ==
  [status |-> IF row.refunded + n >= row.amount THEN "refunded" ELSE row.status,
   inv |-> row.inv, amount |-> row.amount, refunded |-> row.refunded + n]

(* complete, inside its transaction: the payment is locked and read, and   *)
(* the invoice sums include the change.                                    *)
SettleReadUnlocked(w) ==                     \* Fault: select_for_update dropped
  LET r == request[w]
      p == RefundedPayment(payments[r.pay], r.refund.amount)
      i == p.inv
  IN
  /\ r.stage = "loaded" /\ r.op = "complete"
  /\ RefundFree(w, r.ref) /\ payments[r.pay].status # "absent"
  /\ payments[r.pay].refunded + r.refund.amount <= MaxRefunded
  /\ Begin(w, [r EXCEPT !.stage = "settling", !.payment = p, !.inv = i, !.row = invoices[i],
       !.collected = Collected(i) - Net(payments[r.pay]) + Net(p)])
  /\ UNCHANGED rows
SettleRead(w) ==
  LET r == request[w]
      p == RefundedPayment(payments[r.pay], r.refund.amount)
      i == p.inv
  IN
  /\ r.stage = "loaded" /\ r.op = "complete"
  /\ RefundFree(w, r.ref) /\ PaymentFree(w, r.pay) /\ payments[r.pay].status # "absent"
  /\ payments[r.pay].refunded + r.refund.amount <= MaxRefunded
  /\ Begin(w, [r EXCEPT !.stage = "settling", !.payment = p, !.inv = i, !.row = invoices[i],
       !.collected = Collected(i) - Net(payments[r.pay]) + Net(p)])
  /\ UNCHANGED rows

(* Its commit.  The invoice is recomputed only if the payment was          *)
(* completed before.                                                       *)
SettleCommit(w) ==
  LET r == request[w] IN
  /\ r.stage = "settling"
  /\ refunds' = [refunds EXCEPT ![r.ref] = [r.refund EXCEPT !.status = "completed"]]
  /\ payments' = [payments EXCEPT ![r.pay] = r.payment]
  /\ taken' = TakenAfter(r.pay, r.payment)
  /\ IF payments[r.pay].status = "completed"
     THEN SaveInvoice(w, r.inv, Settled(r.row, r.collected, late[r.inv]))
     ELSE UNCHANGED invoices
  /\ Done(w)
  /\ UNCHANGED <<late, credits, used, credited>>

(* PATCH /refunds: status, payment and amount are writable, and neither    *)
(* payment nor invoice hears of it.                                        *)
Written(r) ==
  /\ refunds[r].status \notin {"absent", "deleted"}
  /\ refunds[r].pay \in Editable /\ Unlocked("ref", r)

RewriteRefund(r, status, p, n) ==
  /\ Written(r) /\ payments[p].status # "absent"
  /\ refunds' = [refunds EXCEPT ![r] = [status |-> status, pay |-> p, amount |-> n]]
  /\ UNCHANGED <<invoices, late, payments, credits, used, taken, credited, request>>

(* DELETE /refunds.  A handler that has loaded the refund writes it again. *)
DeleteRefund(r) ==
  /\ Written(r)
  /\ refunds' = [refunds EXCEPT ![r].status = "deleted"]
  /\ UNCHANGED <<invoices, late, payments, credits, used, taken, credited, request>>

-----------------------------------------------------------------------------
(* Credit notes.                                                           *)

CreateCredit(c, n) ==
  /\ credits[c].status = "absent"
  /\ credits' = [credits EXCEPT ![c] = [status |-> "draft", total |-> n, unused |-> n]]
  /\ UNCHANGED <<invoices, late, payments, refunds, used, taken, credited, request>>

(* approve: a draft that was loaded is given its full balance and issued.  *)
LoadCredit(w, c) ==
  /\ IsIdle(w)
  /\ credits[c].status = "draft"
  /\ Begin(w, [Idle EXCEPT !.stage = "loaded", !.op = "issue", !.cred = c,
                           !.credit = credits[c]])
  /\ UNCHANGED rows

IssueCredit(w) ==
  LET r == request[w] IN
  /\ r.stage = "loaded" /\ r.op = "issue"
  /\ CreditFree(w, r.cred)
  /\ credits' = [credits EXCEPT ![r.cred] =
       [r.credit EXCEPT !.status = "issued", !.unused = r.credit.total]]
  /\ Done(w)
  /\ UNCHANGED <<invoices, late, payments, refunds, used, taken, credited>>

(* apply, with both rows locked.                                           *)
Applicable(c, i, n) ==
  /\ credits[c].status = "issued"
  /\ invoices[i].status \notin {"void", "refunded"}
  /\ n <= Smaller(credits[c].unused, invoices[i].due)

ApplyRead(w, c, i, n) ==
  /\ IsIdle(w)
  /\ CreditFree(w, c) /\ InvoiceFree(w, i)
  /\ Applicable(c, i, n)
  /\ used[c] + n <= MaxUse
  /\ Begin(w, [Idle EXCEPT !.stage = "applying", !.op = "apply", !.cred = c, !.inv = i,
       !.amount = n, !.row = invoices[i],
       !.collected = Collected(i) + n])
  /\ UNCHANGED rows

(* CreditNote.calculate_totals of an issued note.                          *)
AppliedCreditKept(row, sum) ==               \* Fault: unused_amount not reduced
  [row EXCEPT !.status = IF row.total = sum /\ row.total > 0 THEN "applied" ELSE @]
AppliedCredit(row, sum) ==
  LET left == AtLeastZero(row.total - sum)
  IN [row EXCEPT !.unused = left,
                 !.status = IF left = 0 /\ row.total > 0 THEN "applied" ELSE @]

ApplyCommit(w) ==
  LET r == request[w] IN
  /\ r.stage = "applying"
  /\ used' = [used EXCEPT ![r.cred] = @ + r.amount]
  /\ credited' = [credited EXCEPT ![r.inv] = @ + r.amount]
  /\ credits' = [credits EXCEPT ![r.cred] = AppliedCredit(@, used'[r.cred])]
  /\ SaveInvoice(w, r.inv, Settled(r.row, r.collected, late[r.inv]))
  /\ Done(w)
  /\ UNCHANGED <<late, payments, refunds, taken>>

-----------------------------------------------------------------------------
(* Invoices.                                                               *)

(* invoice_is_financially_locked *)
FinanciallyLocked(i) ==
  \/ invoices[i].status \in {"void", "refunded"}
  \/ invoices[i].paid > 0
  \/ \E p \in Payments : payments[p].status = "completed" /\ payments[p].inv = i
  \/ credited[i] > 0

(* The records that keep an invoice from being voided.                     *)
Blocked(i) ==
  \/ invoices[i].paid > 0
  \/ \E p \in Payments : payments[p].status # "absent" /\ payments[p].inv = i
  \/ credited[i] > 0

MayLoad(op, i) ==
  CASE op = "send" -> invoices[i].status # "void"
    [] op = "view" -> invoices[i].status = "sent"
    [] op = "edit" -> ~FinanciallyLocked(i)
    [] op = "void" -> invoices[i].status \notin {"paid", "void", "refunded"} /\ ~Blocked(i)
    [] OTHER       -> FALSE

LoadInvoice(w, i, op) ==
  /\ IsIdle(w)
  /\ MayLoad(op, i)
  /\ Begin(w, [Idle EXCEPT !.stage = "loaded", !.op = op, !.inv = i,
                           !.row = invoices[i]])
  /\ UNCHANGED rows

(* The row each of them saves; an edit sets a total and may set a status.  *)
Edited(op, row, n, status) ==
  CASE op = "send" -> [row EXCEPT !.status = IF @ = "draft" THEN "sent" ELSE @]
    [] op = "view" -> [row EXCEPT !.status = "viewed"]
    [] op = "edit" -> [row EXCEPT !.total = n, !.status = status]
    [] OTHER       -> [row EXCEPT !.status = "void"]

SaveLoaded(w, n, status) ==
  LET r == request[w]
      row == Edited(r.op, r.row, n, status)
  IN
  /\ r.stage = "loaded" /\ r.op \in {"send", "view", "edit", "void"}
  /\ SaveInvoice(w, r.inv, Settled(row, row.paid, late[r.inv]))
  /\ Done(w)
  /\ UNCHANGED <<late, payments, refunds, credits, used, taken, credited>>

(* The clock passes the due date.                                          *)
DueDatePasses(i) ==
  /\ ~late[i]
  /\ late' = [late EXCEPT ![i] = TRUE]
  /\ UNCHANGED <<invoices, payments, refunds, credits, used, taken, credited, request>>

(* A refusal or a rollback drops what the request holds.  Once a payment   *)
(* is inserted the request can only be cut short by a crash or by an error *)
(* of the ledger posting, and the invoice is then not recomputed.          *)
Abort(w) ==
  /\ ~IsIdle(w)
  /\ request[w].stage \in {"inserted", "summed"} => "crash" \in Events
  /\ Done(w)
  /\ UNCHANGED rows

Next ==
  \/ \E w \in Workers :
       \/ \E p \in Payments, i \in Invoices, n \in Amount : CheckPayment(w, p, i, n)
       \/ InsertPayment(w) \/ SumCollections(w) \/ SaveCollections(w)
       \/ \E r \in Refunds, op \in {"approve", "reject", "complete"} : LoadRefund(w, r, op)
       \/ SaveDecision(w) \/ SettleRead(w) \/ SettleCommit(w)
       \/ \E c \in Credits : LoadCredit(w, c)
       \/ IssueCredit(w)
       \/ \E c \in Credits, i \in Invoices, n \in Amount : ApplyRead(w, c, i, n)
       \/ ApplyCommit(w)
       \/ \E i \in Invoices, op \in InvoiceOps : LoadInvoice(w, i, op)
       \/ \E n \in Totals, status \in InvoiceStatus : SaveLoaded(w, n, status)
       \/ Abort(w)
  \/ \E p \in Payments : DeletePayment(p)
  \/ \E r \in Refunds, p \in Payments, n \in Amount : RequestRefund(r, p, n)
  \/ \E r \in Refunds, status \in RefundStatus, p \in Editable, n \in Amount :
       RewriteRefund(r, status, p, n)
  \/ \E r \in Refunds : DeleteRefund(r)
  \/ \E c \in Credits, n \in Totals : CreateCredit(c, n)
  \/ \E i \in Invoices : DueDatePasses(i)

Spec == Init /\ [][Next]_vars

-----------------------------------------------------------------------------
(* Every row and every in-memory copy has the columns of its model.        *)
TypeOK ==
  /\ invoices \in [Invoices -> InvoiceRow]
  /\ late \in [Invoices -> BOOLEAN]
  /\ payments \in [Payments -> PaymentRow]
  /\ refunds \in [Refunds -> RefundRow]
  /\ credits \in [Credits -> CreditRow]
  /\ used \in [Credits -> Nat]
  /\ taken \in [Invoices -> Int]
  /\ credited \in [Invoices -> Nat]
  /\ request \in [Workers -> Request]

Quiet == \A w \in Workers : IsIdle(w)
SumOver(f, S) == SumFunctionOnSet(f, S)
CompletedRefunds(p) == {r \in Refunds : refunds[r].status = "completed" /\ refunds[r].pay = p}
PaidOut(p) == SumOver([r \in Refunds |-> refunds[r].amount], CompletedRefunds(p))

(* What the payment and application rows of an invoice come to.            *)
Recorded(i) == credited[i] +
  SumOver([p \in Payments |-> payments[p].amount - payments[p].refunded],
          {p \in Payments : payments[p].status = "completed" /\ payments[p].inv = i})

-----------------------------------------------------------------------------
(* What holds when requests do not overlap, crash or delete payments.      *)

(* The balance stored on an invoice is what the payments and credits       *)
(* recorded against it come to, capped at the total, whatever sequence of  *)
(* payments, refunds, credits, edits and voids led there.                  *)
BalanceMatchesCollections ==
  Quiet => \A i \in Invoices :
    /\ invoices[i].paid = Smaller(Recorded(i), invoices[i].total)
    /\ invoices[i].due = AtLeastZero(invoices[i].total - Recorded(i))

(* An invoice in force is paid exactly when it has a total and the money   *)
(* recorded against it covers that, even after a refund takes some of it   *)
(* back: the status goes back with the balance.  One for nothing is never  *)
(* paid, whatever is recorded against it.                                  *)
PaidMeansCovered ==
  Quiet => \A i \in Invoices :
    invoices[i].status \notin {"void", "refunded"} =>
      (invoices[i].status = "paid" <=>
         invoices[i].total > 0 /\ Recorded(i) >= invoices[i].total)

(* A credit note is worth its total once: what was applied and what is     *)
(* left add up to it, and one that is worth something is closed exactly    *)
(* when nothing is left.                                                   *)
CreditConserved ==
  \A c \in Credits :
    credits[c].status \in {"issued", "applied"} =>
      /\ credits[c].unused + used[c] = credits[c].total
      /\ credits[c].status = "applied" <=> credits[c].unused = 0 /\ credits[c].total > 0

(* What a payment says was refunded is what its completed refunds paid     *)
(* out: none is paid twice and none is forgotten.  The code does not keep  *)
(* the two in step when a refund is rewritten or deleted directly: that    *)
(* puts the payments it names out, and must leave the others exact.        *)
RefundPaidOnce ==
  \A p \in Payments \ Editable : payments[p].refunded = PaidOut(p)

(* A refund decided or paid stays so; complete pays only what was approved *)
(* and only once.  A PATCH or DELETE of a refund undoes this for the       *)
(* refunds of the payments it names, and for no others.                    *)
RefundProgress ==
  [][\A r \in Refunds :
       refunds'[r].status # refunds[r].status /\ refunds'[r].pay \notin Editable =>
         <<refunds[r].status, refunds'[r].status>> \in
           {<<"absent", "pending">>, <<"pending", "approved">>,
            <<"pending", "rejected">>, <<"approved", "completed">>}]_vars

-----------------------------------------------------------------------------
(* What holds whatever the interleaving.                                   *)

(* No completed refund is missing from its payment, however many are       *)
(* completed at once: complete adds to the payment row under its lock.     *)
(* Again but for the payments whose refunds are written directly.          *)
RefundsAccounted ==
  \A p \in Payments \ Editable : payments[p].refunded >= PaidOut(p)

(* A payment that still counts towards its invoice has money left: a       *)
(* refund that takes all of it, or more, takes it out of the sum, so what  *)
(* is collected on an invoice never turns negative.                        *)
CountedPaymentsPositive ==
  \A p \in Payments :
    payments[p].status = "completed" => payments[p].refunded < payments[p].amount

-----------------------------------------------------------------------------
(* What the repository says and the code does not do.                      *)

(* "Refund amount cannot exceed the remaining refundable payment amount":  *)
(* refunds requested before others complete are not counted.               *)
RefundWithinPayment ==
  \A p \in Payments : payments[p].refunded <= payments[p].amount
=============================================================================
