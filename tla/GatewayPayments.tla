--------------------------- MODULE GatewayPayments ---------------------------
(***************************************************************************)
(* Online payments of one invoice.  The customer is sent to the gateway    *)
(* with a reference and the amount due; that the charge succeeded is heard *)
(* from the browser that comes back, from the gateway's webhook, which is  *)
(* repeated until it is answered with success, and from a client that asks *)
(* for a confirmation.  Each of them verifies the charge with the gateway, *)
(* looks for a payment of that reference and records one if there is none. *)
(*                                                                         *)
(*   verifying -> looking -> checking -> recording -> creating             *)
(*     -> inside -> holding -> (committed) -> answered                     *)
(*   looking, recording -> existing -> summed -> (saved) -> answered       *)
(*                                                                         *)
(* Sources: apps/billing/paystack_views.py, gateway_payments.py, Payment   *)
(* and Invoice of models.py, confirm_payment_intent of views.py, and the   *)
(* number of a payment (accounting/document_numbering.py).                 *)
(***************************************************************************)
EXTENDS Naturals, FiniteSets

CONSTANTS
  Refs,        \* references of charges
  Handlers,    \* request handlers running at the same time
  MaxTotal,    \* bound on the total of the invoice
  Others,      \* requests in use besides webhooks, of {"callback", "confirm", "edit"}
  MaxFailures, \* bound on the crashes, failed calls and failed follow-ups
  MaxChanges,  \* bound on the confirmations asked for and the changes by staff
  NoRef

ASSUME GatewayAssumption ==
  /\ NoRef \notin Refs /\ Others \subseteq {"callback", "confirm", "edit"}
  /\ MaxTotal \in Nat \ {0} /\ MaxFailures \in Nat /\ MaxChanges \in Nat

VARIABLES
  invoice,    \* the row: total, amount_paid, whether its status is void, whether
              \*   it has a branch, and whether there is such a row
  charge,     \* gateway: per reference, how far it got and its amount
  copies,     \* completed Payment rows per reference
  collected,  \* sum of the completed payments, others than online included
  owed,       \* gateway: charges whose webhook is not answered yet
  told,       \* per reference: what the browser was told at the end
  bank,       \* is a settlement account configured
  barred,     \* charges whose payments are refused a number
  handler,    \* what each request handler holds in memory
  failures, changes,
  dismissed,  \* history: webhooks answered though the charge was not verified
              \*   or its invoice not found
  causes      \* history: what has happened that the code does not allow for

vars == <<invoice, charge, copies, collected, owed, told, bank, barred,
          handler, failures, changes, dismissed, causes>>
tables == <<invoice, copies, collected>>
gateway == <<charge, owed, told>>
settings == <<bank, barred>>
history == <<failures, changes, dismissed, causes>>

Stages == {"idle", "verifying", "looking", "checking", "recording", "creating",
           "inside", "holding", "committed", "existing", "summed", "editing"}
Kinds == {"callback", "webhook", "confirm", "edit"}
Idle == [stage |-> "idle", kind |-> "edit", ref |-> NoRef, total |-> 0, void |-> FALSE,
         sum |-> 0, again |-> FALSE]

TypeOK ==
  /\ invoice \in [total : 0 .. MaxTotal, paid : Nat, void : BOOLEAN, numbered : BOOLEAN,
                  there : BOOLEAN]
  /\ charge \in [Refs -> [state : {"none", "open", "paid"}, amount : 0 .. MaxTotal]]
  /\ copies \in [Refs -> Nat] /\ collected \in Nat
  /\ owed \subseteq Refs /\ dismissed \subseteq Refs
  /\ told \in [Refs -> {"nothing", "success", "failed"}]
  /\ bank \in BOOLEAN /\ barred \subseteq Refs
  /\ handler \in [Handlers -> [stage : Stages, kind : Kinds, ref : Refs \cup {NoRef},
                               total : 0 .. MaxTotal, void : BOOLEAN, sum : Nat,
                               again : BOOLEAN]]
  /\ \A h \in Handlers :
       handler[h].stage \notin {"idle", "editing"} => handler[h].ref \in Refs
  /\ failures \in 0 .. MaxFailures /\ changes \in 0 .. MaxChanges
  /\ causes \subseteq {"overlap", "edited", "voided", "partial", "overtaken"}

Init ==
  /\ \E n, k \in 0 .. MaxTotal, b \in BOOLEAN :
       /\ k <= n
       /\ invoice = [total |-> n, paid |-> k, void |-> FALSE, numbered |-> b,
                     there |-> TRUE]
       /\ collected = k
  /\ charge = [r \in Refs |-> [state |-> "none", amount |-> 0]]
  /\ copies = [r \in Refs |-> 0]
  /\ owed = {} /\ told = [r \in Refs |-> "nothing"] /\ bank = TRUE /\ barred = {}
  /\ handler = [h \in Handlers |-> Idle]
  /\ failures = 0 /\ changes = 0 /\ dismissed = {} /\ causes = {}

-----------------------------------------------------------------------------
Smaller(a, b) == IF a < b THEN a ELSE b
PaidUp == invoice.paid >= invoice.total    \* nothing is due

(* Invoice.save sets the status to paid where a total above zero is paid,  *)
(* and leaves the status void as it is.                                    *)
StatusPaid == PaidUp /\ invoice.total > 0 /\ ~invoice.void

(* recalculate_amount_paid_from_collections and Invoice.save on a row that *)
(* was read with this total and status; a row that was deleted is inserted.*)
Saved(total, void, sum) ==
  [invoice EXCEPT !.total = total, !.paid = Smaller(sum, total), !.void = void, !.there = TRUE]

At(h, stage) == handler[h].stage = stage
Becomes(h, stage) ==
  handler' = [handler EXCEPT ![h] = [@ EXCEPT !.stage = stage, !.total = 0,
                                                   !.void = FALSE, !.sum = 0]]
RowFree(h) == \A g \in Handlers \ {h} : ~At(g, "holding")

(* The transactions that record a payment, from the number of it on.       *)
Numbering == {g \in Handlers : handler[g].stage \in {"inside", "holding"}}

(* The counter row of the payment numbers is locked from the allocation to *)
(* the end of the transaction; an invoice without a branch does not use it.*)
NumberFree(h) == invoice.numbered => Numbering \subseteq {h}

(* What refuses a payment in Payment.save: the number (its date is in a    *)
(* period that is locked; without a branch, the number after that of the   *)
(* last payment may be taken, or be taken by a transaction of another      *)
(* handler), the invoice that is gone, the status paid.                    *)
NumberRefused(h) ==
  handler[h].ref \in barred \/ (~invoice.numbered /\ Numbering # {})
Refused(h) == NumberRefused(h) \/ ~invoice.there \/ StatusPaid

Fails == failures < MaxFailures /\ failures' = failures + 1

AnswerAlways(h, done) ==                    \* Fault: a failure is answered too
  LET r == handler[h].ref IN
  /\ handler' = [handler EXCEPT ![h] = Idle]
  /\ owed' = IF handler[h].kind = "webhook" THEN owed \ {r} ELSE owed
  /\ told' = IF handler[h].kind = "callback"
             THEN [told EXCEPT ![r] = IF done THEN "success" ELSE "failed"] ELSE told
  /\ UNCHANGED charge

(* The answer: to the gateway 200 or 500, to the browser where it is sent. *)
Answer(h, done) ==
  LET r == handler[h].ref IN
  /\ handler' = [handler EXCEPT ![h] = Idle]
  /\ owed' = IF handler[h].kind = "webhook" /\ done THEN owed \ {r} ELSE owed
  /\ told' = IF handler[h].kind = "callback"
             THEN [told EXCEPT ![r] = IF done THEN "success" ELSE "failed"] ELSE told
  /\ UNCHANGED charge

-----------------------------------------------------------------------------
(* The customer and the gateway.                                           *)

Open(r, n) ==
  /\ charge[r].state = "none" /\ invoice.there
  /\ charge' = [charge EXCEPT ![r] = [state |-> "open", amount |-> n]]
  /\ UNCHANGED <<tables, owed, told, settings, handler>>

(* initiate_paystack_payment: a new reference for the amount due now.      *)
Initiate(r) ==
  /\ ~PaidUp /\ ~invoice.void /\ bank
  /\ Open(r, invoice.total - invoice.paid)
  /\ UNCHANGED history

(* create_payment_intent: a charge for the amount the client names, whatever*)
(* the status of the invoice and the accounts.                             *)
CreateIntent(r, n) ==
  /\ Open(r, n)
  /\ causes' = IF n < invoice.total - invoice.paid THEN causes \cup {"partial"} ELSE causes
  /\ UNCHANGED <<failures, changes, dismissed>>

CustomerPays(r) ==
  /\ charge[r].state = "open"
  /\ charge' = [charge EXCEPT ![r].state = "paid"]
  /\ owed' = owed \cup {r}
  /\ UNCHANGED <<tables, told, settings, handler, history>>

(* The settlement account is taken from the controls, and configured again.*)
BankChanges ==
  /\ bank' = ~bank
  /\ bank => changes < MaxChanges
  /\ changes' = IF bank THEN changes + 1 ELSE changes
  /\ UNCHANGED <<tables, gateway, barred, handler, failures, dismissed, causes>>

(* The period in which a charge was paid is locked, or the last number of a*)
(* payment leads to one that is taken.                                     *)
NumbersBarred(r) ==
  /\ charge[r].state = "paid" /\ r \notin barred /\ changes < MaxChanges
  /\ barred' = barred \cup {r} /\ changes' = changes + 1
  /\ UNCHANGED <<tables, gateway, bank, handler, failures, dismissed, causes>>

NumbersFreed(r) ==
  /\ barred' = barred \ {r}
  /\ UNCHANGED <<tables, gateway, bank, handler, history>>

Receive(h, kind, r) ==
  /\ At(h, "idle")
  /\ handler' = [handler EXCEPT ![h] = [Idle EXCEPT !.stage = "verifying",
                                                    !.kind = kind, !.ref = r]]

Webhook(h, r) ==
  /\ r \in owed
  /\ Receive(h, "webhook", r)
  /\ UNCHANGED <<tables, gateway, settings, history>>

(* The browser comes back, whether or not the customer has paid.           *)
Callback(h, r) ==
  /\ "callback" \in Others
  /\ charge[r].state # "none" /\ told[r] = "nothing"
  /\ Receive(h, "callback", r)
  /\ UNCHANGED <<tables, gateway, settings, history>>

Confirm(h, r) ==
  /\ "confirm" \in Others
  /\ charge[r].state # "none" /\ changes < MaxChanges
  /\ changes' = changes + 1
  /\ Receive(h, "confirm", r)
  /\ UNCHANGED <<tables, gateway, settings, failures, dismissed, causes>>

-----------------------------------------------------------------------------
(* The request handlers.                                                   *)

Verified(h) ==
  /\ At(h, "verifying") /\ charge[handler[h].ref].state = "paid"
  /\ Becomes(h, "looking")
  /\ UNCHANGED <<tables, gateway, settings, history>>

(* The charge is not paid, or the gateway could not be asked.  The webhook *)
(* is then answered as if it had been handled.                             *)
NotVerified(h) ==
  /\ At(h, "verifying")
  /\ \/ charge[handler[h].ref].state # "paid" /\ UNCHANGED failures
     \/ Fails
  /\ IF handler[h].kind = "webhook"
     THEN /\ Answer(h, TRUE)
          /\ dismissed' = dismissed \cup {handler[h].ref}
     ELSE /\ Answer(h, FALSE)
          /\ UNCHANGED dismissed
  /\ UNCHANGED <<tables, settings, changes, causes>>

(* The first search for a payment of the reference, in the views.  A       *)
(* webhook whose invoice is not found is answered as if it had been handled.*)
Look(h) ==
  LET r == handler[h].ref IN
  /\ At(h, "looking")
  /\ IF invoice.there
     THEN /\ Becomes(h, IF copies[r] > 0 THEN "existing" ELSE "checking")
          /\ UNCHANGED <<gateway, dismissed>>
     ELSE /\ Answer(h, handler[h].kind = "webhook")
          /\ dismissed' = IF handler[h].kind = "webhook" THEN dismissed \cup {r} ELSE dismissed
  /\ UNCHANGED <<tables, settings, failures, changes, causes>>

(* An invoice that is paid already takes no payment; to the browser and    *)
(* the gateway that is a success, to a client that confirms an error.      *)
Check(h) ==
  /\ At(h, "checking")
  /\ IF ~invoice.there THEN Answer(h, FALSE)
     ELSE IF PaidUp THEN Answer(h, handler[h].kind # "confirm")
     ELSE Becomes(h, "recording") /\ UNCHANGED gateway
  /\ UNCHANGED <<tables, settings, history>>

Creating(r) == {g \in Handlers : /\ handler[g].stage \in {"creating", "inside", "holding"}
                                 /\ handler[g].ref = r}

(* record_gateway_payment searches again and needs a settlement account.   *)
(* After a payment that was there the caller repairs a second time.        *)
Record(h) ==
  LET r == handler[h].ref IN
  /\ At(h, "recording")
  /\ IF copies[r] > 0
     THEN /\ handler' = [handler EXCEPT ![h].stage = "existing",
                                        ![h].again = handler[h].kind # "confirm"]
          /\ UNCHANGED <<gateway, causes>>
     ELSE IF bank
     THEN /\ Becomes(h, "creating")
          /\ causes' = IF Creating(r) = {} THEN causes ELSE causes \cup {"overlap"}
          /\ UNCHANGED gateway
     ELSE Answer(h, FALSE) /\ UNCHANGED causes
  /\ UNCHANGED <<tables, settings, failures, changes, dismissed>>

ReadInside(h) ==
  /\ handler' = [handler EXCEPT ![h].stage = "inside",
                       ![h].total = invoice.total, ![h].void = invoice.void,
                       ![h].sum = collected + charge[handler[h].ref].amount]
  /\ UNCHANGED gateway

CreateAnyway(h) ==                          \* Fault: Payment.save does not check
  /\ At(h, "creating") /\ NumberFree(h)
  /\ ReadInside(h)
  /\ UNCHANGED <<tables, settings, history>>

(* Payment.save in a transaction: the number, then the invoice is read and *)
(* refused if it is paid, then the payment is inserted and summed with the *)
(* payments other transactions have committed.                             *)
Create(h) ==
  /\ At(h, "creating") /\ NumberFree(h)
  /\ \/ Refused(h) /\ Answer(h, FALSE)
     \/ /\ handler[h].ref \notin barred /\ invoice.there /\ ~StatusPaid
        /\ ReadInside(h)
  /\ UNCHANGED <<tables, settings, history>>

(* The first UPDATE of the invoice locks its row.                          *)
Hold(h) ==
  /\ At(h, "inside") /\ RowFree(h)
  /\ handler' = [handler EXCEPT ![h].stage = "holding"]
  /\ UNCHANGED <<tables, gateway, settings, history>>

Reading == {g \in Handlers : handler[g].stage \in {"summed", "editing"}}

CommitFirstSum(h) ==                        \* Fault: no second recalculation
  LET r == handler[h].ref IN
  /\ At(h, "holding")
  /\ copies' = [copies EXCEPT ![r] = @ + 1]
  /\ collected' = collected + charge[r].amount
  /\ invoice' = Saved(handler[h].total, handler[h].void, handler[h].sum)
  /\ Becomes(h, "committed")
  /\ causes' = IF Reading = {} THEN causes ELSE causes \cup {"overtaken"}
  /\ UNCHANGED <<gateway, settings, failures, changes, dismissed>>

(* The second recalculation sums under the row lock; then the commit.      *)
Commit(h) ==
  LET r == handler[h].ref IN
  /\ At(h, "holding")
  /\ copies' = [copies EXCEPT ![r] = @ + 1]
  /\ collected' = collected + charge[r].amount
  /\ invoice' = Saved(handler[h].total, handler[h].void, collected + charge[r].amount)
  /\ Becomes(h, "committed")
  /\ causes' = IF Reading = {} THEN causes ELSE causes \cup {"overtaken"}
  /\ UNCHANGED <<gateway, settings, failures, changes, dismissed>>

(* The posting to the ledger on commit may fail; the rest is best effort.  *)
FollowUp(h) ==
  /\ At(h, "committed")
  /\ \/ Answer(h, TRUE) /\ UNCHANGED failures
     \/ Answer(h, FALSE) /\ Fails
  /\ UNCHANGED <<tables, settings, changes, dismissed, causes>>

RepairedAsError(h) ==                       \* Fault: a duplicate is an error
  IF handler[h].again
  THEN handler' = [handler EXCEPT ![h] = [@ EXCEPT !.stage = "existing", !.again = FALSE,
                                         !.total = 0, !.void = FALSE, !.sum = 0]]
       /\ UNCHANGED gateway
  ELSE Answer(h, FALSE)

(* After a repair the caller repairs once more, or answers with success.   *)
Repaired(h) ==
  IF handler[h].again
  THEN handler' = [handler EXCEPT ![h] = [@ EXCEPT !.stage = "existing", !.again = FALSE,
                                         !.total = 0, !.void = FALSE, !.sum = 0]]
       /\ UNCHANGED gateway
  ELSE Answer(h, TRUE)

(* ensure_payment_settlement_account: the balance is computed again if the *)
(* invoice is not paid, from a row and sums read without a lock ...        *)
Ensure(h) ==
  /\ At(h, "existing")
  /\ IF StatusPaid THEN Repaired(h)
     ELSE /\ handler' = [handler EXCEPT ![h].stage = "summed", ![h].total = invoice.total,
                              ![h].void = invoice.void, ![h].sum = collected]
          /\ UNCHANGED gateway
  /\ UNCHANGED <<tables, settings, history>>

(* ... and saved.                                                          *)
EnsureSave(h) ==
  /\ At(h, "summed") /\ RowFree(h)
  /\ invoice' = Saved(handler[h].total, handler[h].void, handler[h].sum)
  /\ Repaired(h)
  /\ UNCHANGED <<copies, collected, settings, history>>

(* An invoice without money on it is loaded, and later saved whole ...     *)
LoadEdit(h) ==
  /\ "edit" \in Others
  /\ At(h, "idle") /\ changes < MaxChanges
  /\ invoice.there /\ ~invoice.void
  /\ invoice.paid = 0 /\ collected = 0 /\ \A r \in Refs : copies[r] = 0
  /\ changes' = changes + 1
  /\ handler' = [handler EXCEPT ![h] = [Idle EXCEPT !.stage = "editing",
                                                    !.total = invoice.total]]
  /\ UNCHANGED <<tables, gateway, settings, failures, dismissed, causes>>

(* ... by InvoiceUpdateSerializer with another total and status ...        *)
SaveEdit(h, n, v) ==
  /\ At(h, "editing") /\ RowFree(h)
  /\ invoice' = Saved(n, v, handler[h].sum)
  /\ handler' = [handler EXCEPT ![h] = Idle]
  /\ causes' = causes \cup {"edited"}
  /\ UNCHANGED <<copies, collected, gateway, settings, failures, changes, dismissed>>

(* ... or by InvoiceActionMixin.void, which takes back its posting.        *)
SaveVoid(h) ==
  /\ At(h, "editing") /\ RowFree(h)
  /\ invoice' = Saved(handler[h].total, TRUE, handler[h].sum)
  /\ handler' = [handler EXCEPT ![h] = Idle]
  /\ causes' = causes \cup {"voided"}
  /\ UNCHANGED <<copies, collected, gateway, settings, failures, changes, dismissed>>

(* perform_destroy: an invoice no payment, refund or credit refers to goes.*)
Delete ==
  /\ "edit" \in Others /\ changes < MaxChanges
  /\ invoice.there /\ collected = 0 /\ \A r \in Refs : copies[r] = 0
  /\ \A h \in Handlers : ~At(h, "holding")
  /\ invoice' = [invoice EXCEPT !.there = FALSE]
  /\ changes' = changes + 1
  /\ UNCHANGED <<copies, collected, gateway, settings, handler, failures, dismissed, causes>>

(* The process dies; its transaction is rolled back, nothing is answered.  *)
Crash(h) ==
  /\ ~At(h, "idle") /\ Fails
  /\ handler' = [handler EXCEPT ![h] = Idle]
  /\ UNCHANGED <<tables, gateway, settings, changes, dismissed, causes>>

-----------------------------------------------------------------------------
Handle(h) ==
  \/ Verified(h) \/ NotVerified(h) \/ Look(h) \/ Check(h) \/ Record(h)
  \/ Create(h) \/ Hold(h) \/ Commit(h) \/ FollowUp(h)
  \/ Ensure(h) \/ EnsureSave(h)
  \/ SaveVoid(h) \/ \E n \in 0 .. MaxTotal, v \in BOOLEAN : SaveEdit(h, n, v)

Next ==
  \/ \E r \in Refs : Initiate(r) \/ CustomerPays(r) \/ NumbersBarred(r) \/ NumbersFreed(r)
  \/ \E r \in Refs, n \in 1 .. MaxTotal : CreateIntent(r, n)
  \/ BankChanges \/ Delete
  \/ \E h \in Handlers, r \in Refs : Webhook(h, r) \/ Callback(h, r) \/ Confirm(h, r)
  \/ \E h \in Handlers : Handle(h) \/ LoadEdit(h) \/ Crash(h)

Spec == Init /\ [][Next]_vars

(* A request that is being handled goes on; the gateway repeats a webhook  *)
(* until it is answered.  Customers, staff and failures promise nothing.   *)
Fairness == /\ \A h \in Handlers : WF_vars(Handle(h))
            /\ \A r \in Refs : WF_vars(\E h \in Handlers : Webhook(h, r))

FairSpec == Spec /\ Fairness

-----------------------------------------------------------------------------
(* No charge is recorded twice, unless two handlers record it at the same  *)
(* time and the first one does not leave the status paid behind: because   *)
(* the charge is for less than what is due, the invoice was edited or      *)
(* voided since, or it has no branch whose numbers keep the two apart      *)
(* (record_gateway_payment, Payment.save, allocate).                       *)
FirstSettles == invoice.numbered /\ causes \cap {"partial", "edited", "voided"} = {}

OnePaymentPerCharge ==
  "overlap" \notin causes \/ FirstSettles => \A r \in Refs : copies[r] <= 1

(* The balance of the invoice is what was collected, unless a payment was  *)
(* committed between the read and the save of a repair or an edit, whatever*)
(* the transactions that record payments overlap                           *)
(* (recalculate_amount_paid_from_collections).                             *)
BalanceIsCollected ==
  "overtaken" \notin causes => invoice.paid = Smaller(collected, invoice.total)

(* A webhook that is answered with success, and a browser that is sent to  *)
(* the page of success, mean that the charge is recorded or the invoice    *)
(* paid by others, unless the webhook could not be verified or its invoice *)
(* was not there (_process_paystack_charge_success, paystack_callback).    *)
SuccessIsAccountedFor ==
  "edited" \notin causes /\ "overtaken" \notin causes =>
     \A r \in Refs :
        \/ charge[r].state = "paid" /\ r \notin owed /\ r \notin dismissed
        \/ told[r] = "success"
        => copies[r] > 0 \/ collected >= invoice.total

(* The webhook of a charge is answered with success in the end, as long as *)
(* there is a settlement account and the payment is given a number: what   *)
(* fails once does not fail for ever (paystack_webhook).                   *)
ChargesGetAnswered ==
  \A r \in Refs :
     <>[](bank /\ r \notin barred) => (charge[r].state = "paid" ~> r \notin owed)
=============================================================================
