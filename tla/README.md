# Verification of the vehicle repair system

TLA+ models, TLC runs and TLAPS proofs about the workshop ERP: a Django REST API
over PostgreSQL in `apps/` (isolation READ COMMITTED, autocommit: no
`ATOMIC_REQUESTS`), Celery workers, and the Next.js client in `frontend/`, which
keeps state of its own: a session shared by all tabs, work done without a
connection, and sockets. The models are translated from the Python and the
TypeScript code.

In the API the difficulty is the same everywhere: an endpoint loads rows,
tests their status in memory, and saves them in one or more later commits,
usually without a lock. `save()` writes every column of the copy,
`save(update_fields=...)` only the named ones. Requests of the same web
application overlap, clients retry, and a process may die between two commits.
Each model of the API therefore separates what an endpoint reads from what it commits and
lets other requests in between, and each has runs for requests one after another
and for requests that overlap.

In the client the unit is the code between two `await`s. Between them come other
tabs, events of the browser, users, answers that are late or lost, and the end of
the tab; what a closure captured before an `await` is used after it. The models of
the client have one action per such piece of code, and state the liveness the
event loop and the timers justify.

## Inventory

| Component | State | Operations | Talks to | Hard because | Correct when |
|---|---|---|---|---|---|
| **Work orders** `workorders` | one row with status, pause memory, approval and QC columns, staff | transitions, approval, QC, edits, bulk update | inspection, diagnosis, tasks, parts, invoice, portal | ~30 endpoints drive one status from stale copies; several commits per endpoint | repairs only with consent; finished jobs stay finished; no billing without QC |
| **Diagnosis** `diagnosis` | record with its own status, recommendations | start, pause, resume, submit, complete, reopen | moves the work order in its transactions | two state machines that must agree | paused together, completed before repair |
| **Inspections** `inspections` | status, items | complete, approve, reject, forms | opens intake | forms that bypass the transitions | closed jobs untouched |
| **Parts and tasks** `workorders/views` | status per part and task | request, allocate, order, receive, install, return; start, complete, skip | stock, purchase orders, work order | check before lock, last task moves the job | each part issued once |
| **Branch stock, transfers** `inventory` | stock rows (on hand, reserved), movement ledger, transfers, items, approvals | movements, submit, approve, reject, ship, receive, edits | work-order parts, purchasing | no lock in `record_transaction`, several rows per operation | never negative; goods conserved; ledger explains stock |
| **Purchase orders, counts** `inventory` | order, lines, count sessions | submit, approve, receive, cancel, count | stock, accounting | receive is not one transaction | each line received once |
| **Invoices, collections** `billing` | invoice balance and status, payments, refunds, credit notes | pay, refund, credit, send, edit, void | work order, accounting, gateways | sums recomputed from rows without lock | balance equals collections; money back at most once |
| **Gateway payments** `billing` | per charge: how far it got at the gateway, its payment rows; the balance of the invoice; a settlement account | start a charge (for what is due, or for any amount), browser callback, repeated webhook, confirmation, repair; edit, void, delete, lock of the period | gateway, invoices, number counters, ledger | the same event arrives several times, at once, and again after a failure | a charge is recorded once; balance equals collections; success is only answered when the money is accounted for |
| **Accounting** `accounting` | journal entries, accounts, periods | post, reverse, close | billing, inventory | postings on commit | balanced; posted and reversed once |
| **Numbering** `accounting`, `branches`, `appointments` | counter rows | allocate | all documents | lock scope, floors | unique numbers |
| **QuickBooks** `quickbooks_online` | tokens, sync state | refresh, push, pull | accounting | remote calls, retries | a refresh token is spent once |
| **Notifications** `notifications_app` | message status | send, delivery reports | all | late, repeated reports | never downgraded |
| **Appointments** `appointments` | bookings | book, confirm, cancel | work orders | unique slot | no double booking |
| **Subscriptions** `subscriptions` | allowances | use, renew, expire | work orders | last unit | never overdrawn |
| **Web session** `frontend/lib/auth`, `lib/api/client.ts`, `app/api/auth` | cookie jar, per tab: refresh under way, waiting requests, signed in; a lock or lease and an outcome shared by the tabs | request, refresh, login, logout | Django's token endpoints through the route handlers | the refresh token is spent by use: two refreshes at once, or a lost answer, end the session | one refresh at a time; cookies kept; every request settled |
| **Offline work** `frontend/lib/offline`, `store/offlineStore.ts`, `app/mobile` | IndexedDB: queue, labour entries, photos, drafts; per tab: a pass of `syncAll` | write offline, clock in and out, edit a diagnosis, synchronise | the whole API | several stores per write, records read before and changed during a pass, calls that fail after they took effect | nothing lost, nothing twice, the draft shows the truth, labour booked once |
| **Realtime chat** `frontend/hooks/useChat.ts`, `components/chat` | socket, timer, messages shown | connect, reconnect, switch, send, history | consumer and REST API of `chat` | attempts and answers of the conversation left behind | nothing in the wrong conversation, one way to connect |
| Workflow builder | graph | disabled in settings | | | |
| Notification socket, impersonation, pages of staff and portal, native app, gate pass, fixed assets, HR, roadside, technicians, vehicles, customers, accounts, branches, documents, reporting, data exchange, chat server, feedback | master data, documents, displays | create, edit | | | |

Modelled are the first five rows (the third, fourth and second as far as they touch the work
order), invoices, gateway payments, and the last three rows in bold. `PROJECT.json` lists every component with its
sources and status, and every hazard found with its line.

## Modules

| Module | Contents |
|---|---|
| `StockTransfers` | stock rows, ledger sums, transfers with items and approval rows, request handlers |
| `Receivables` | invoices, payments, refunds, credit notes, request handlers |
| `WorkOrders` | one work order with what its guards read, request handlers |
| `JobPhases` | what the workshop promises about a job; `WorkOrders` implements it |
| `GatewayPayments` | online payments of one invoice: the gateway, the request handlers, recording and repair |
| `SessionRefresh` | tabs, their requests and refreshes, cookie jar, rotation of the tokens |
| `OfflineSync` | what the device stores, the passes of `syncAll`, the server's side of it |
| `ChatSession` | the chat window, its sockets and timers, the server's rooms |
| `MC...` | instances for TLC: symmetry sets, functions, names of model values |
| `SumTheorems` | how a sum over a finite table changes with one of its rows; used by the proofs |
| `...Proofs` | the theorems of a component |

Where the operators that are faulty on purpose (comment "Fault:") are defined,
they are the forms used to show that a property notices the bug; no action
refers to them.

### StockTransfers

`stock[<<branch, part>>]` is a `StockItem` row. `moved` and `external` are the
sums of the `InventoryTransaction` rows of a stock row, by transfers and by
everything else, because only the sums matter. `items` and `approvals` are the
`TransferItem` and `TransferApproval` rows. A request handler holds the copies it
loaded (`request[w]`: the transfer header, its items, stock rows) and is at one of the stages between two reads or commits. `Post`, `Applied` and `Allowed` are
`InventoryService.record_transaction`. What the code does inside
`transaction.atomic()` is one commit, but the rows it writes were computed from
copies read earlier. `ReadMove`/`CommitMove` are single movements, `ReadPatch`/
`CommitPatch` a PATCH of a stock row, `CommitRedirect` a PATCH of a transfer's
branches, `Allocate` the issue of a part to a work order (which does lock the
row). `CommitApprove` has the reads, the early return and the writes of
`approve_transfer`; of its permission checks only who may decide is kept. Not
modelled: the statuses `requested` and `cancelled`, which no code assigns and no
PATCH can set; cost, reorder alerts, notifications.

### Receivables

`invoices`, `payments`, `refunds` and `credits` are rows. `taken[i]`, `credited[i]`
and `used[c]` are the values of the SQL sums over payment and application rows.
The theorem `TakenSummed` says that `taken` is that sum in every state;
application rows are not modelled one by one, since none is ever changed or
deleted. `BalanceMatchesCollections` compares the stored balance with the sum over
the payment rows themselves (`Recorded`). A payment is three commits
(`InsertPayment`, `SumCollections`, `SaveCollections`), completing a refund reads
the payment under its lock (`SettleRead`) and commits (`SettleCommit`), and
`send`, `view`, `edit` and `void` load an invoice and save it whole
(`LoadInvoice`, `SaveLoaded`). `DueDatePasses` is the calendar. Two refreshes of
`Payment` validation are one, and two saves of credit note approval are one.
The refund endpoints are those of a plain `ModelViewSet` beside its actions: a PATCH
writes status, payment and amount, a DELETE removes the row, and neither touches the
payment (`RewriteRefund`, `DeleteRefund`). No property of a refund survives that, so
the constant `Editable` names the payments whose refunds are written this way; the
refund properties are about all others, and say that direct writes leave those exact.
An invoice may be for nothing (`Totals`): it is then covered but never becomes paid.
Not modelled: allocation rows, ledger postings, tills, proforma, branch checks,
the status-only bulk update, PATCH of payments and credit notes, a PATCH of a refund
that is in flight while its payment is deleted.

### WorkOrders

`wo` is the row, with the columns that decide anything: status,
`paused_from_status`, `requires_approval`, `approved_by_customer`,
`quality_check_required`, `quality_check_completed`, `quality_check_passed`, and the
set `filled` of the fields a guard asks to be set. The records beside it are abstracted to what the
guards distinguish: the inspection (open, completed, approved), the diagnosis
status, mechanical tasks (none, one open, all closed), parts (none, one
unresolved, all resolved), the primary invoice (none, draft, issued, paid).

An endpoint action loads the row, makes its in-memory changes and puts down its
**plan**: the sequence of commits the code makes after that. `Commit(w)` performs
the next one: `Transition` is `transition_to` (guards on the copy, whole row
saved), `SaveRow` a plain `save()`, `Fill`, `SetApproval` and `Release` saves of
named columns, and so on. The copy follows what the handler itself saves and is
otherwise as old as the load. `Abort` covers a refused guard, a validation the
model does not look into (permissions, terms acceptance, technician acceptance,
parts availability, undecided recommendations) and a crash. So an endpoint that
fails half way leaves exactly the commits made so far.

The profiles `routine_fast_track`, `full_repair`, `inspection_only` and
`diagnostic_only` differ in graph and guards; the others behave like
`full_repair`. `STRICTLY_BLOCKED_DIRECT_TRANSITIONS` lists no edge of any graph
and adds nothing. The staff and public-link approvals share a plan; the atomic
approval of an estimate is a special case of it, as is its decline. The job type says
at creation whether the quality check is required; after that it is a column, which a
PATCH clears or sets (`Patched`, `workorders/serializers.py:1090`) and which a job
completed at once need not satisfy any more: a full repair whose check was waived is
billed unchecked, by design of that column, and `QualityBeforeBilling` is about the
jobs whose row requires the check. A PATCH may set a status together with the column
(`edit`). Four views write the status past the guards: the inspection form, the quick
update of the mobile pages, their offline sync (`process_offline_item`, the same step)
and the edit form, which also sets or empties technician and notes
(`workorder_edit_view`). Diagnosis notes are present
when a diagnosis is submitted or completed. Not modelled: edits of the job type (and the
defaults and the service bundle they apply), conversion of an estimate to an invoice,
reservation of stock, gate pass.

`JobPhases` is the abstract specification: phases *intake, assessment, new_work,
repair, finished, billed, closed* and the customer's consent. Repair begins only
with consent, new work takes the consent away, a finished job is only billed and
closed. `JobPromise` (a PROPERTY) is `JobPhases!Spec` under the mapping of
statuses to phases and of `is_approved` to consent: every step of a handler is a
step of the promise or a stutter.

### GatewayPayments

`charge[r]` is what the gateway knows of a reference, `owed` the charges whose
webhook it still repeats, `copies[r]` the number of completed `Payment` rows of
that reference, `collected` the sum of all completed payments of the invoice. A
handler verifies the charge with the gateway (`Verified`, `NotVerified`), looks for
its payment (`Look`), tests whether the invoice is paid already (`Check`), and
`Record` is `record_gateway_payment` up to its transaction. In the transaction, `Create` is
the allocation of the number, the refreshed invoice and the first sum, `Hold` the
first UPDATE of the invoice, and `Commit` the second recalculation, which sums again
under the row lock, and the commit. Isolation is READ COMMITTED: what another
transaction has not committed is not seen. Two locks matter: the row of the number counter, held from `Create` to the commit
when the invoice has a branch (`NumberFree`), and the row of the invoice (`RowFree`).
`transaction_id` is not unique in the database, so nothing else keeps two handlers
of one charge apart. `Ensure` and `EnsureSave` are the repair of a balance, which
sums without a lock and saves later; `again` is the second repair
`_record_verified_paystack_payment` makes. A charge is started by the portal for what is due
(`Initiate`) or by a client for any amount, whatever the status of the invoice
(`CreateIntent`). Staff load an invoice without money on it and save it whole later, with
another total or status (`LoadEdit`, `SaveEdit`) or as void (`SaveVoid`), or delete it
(`Delete`); a transaction that read the row before saves it back, and Django then
inserts it (`Saved`). Status paid needs a total above zero and no void (`StatusPaid`), and only
that status makes `Payment.save` refuse, while the views also look at what is due (`PaidUp`).
A number is refused (`NumberRefused`) when the date of the payment is in a locked period,
or, without a branch, when the one that follows the last payment's is taken: `barred` are the
charges this holds for, and staff lock and unlock (`NumbersBarred`, `NumbersFreed`).
`Answer` ends a request: a webhook answered 500 is
repeated, one answered 200 is not, and a webhook whose charge could not be verified or
whose invoice is not found is
answered 200 (`NotVerified`, `Look`, remembered in `dismissed`). `causes` remembers what the
code does not allow for: two handlers past the search of one charge (`overlap`), an
edit or a void saved, a charge for less than was due (`partial`), a payment committed between
the read and the save of a repair or edit (`overtaken`). Not modelled: Stripe, Square and Hubtel,
a confirmation that names another invoice, the reuse of the reference `INV-number-id` (the
gateway opens a reference once), status refunded.

### SessionRefresh

A pair of tokens is the number under which the backend issued it; `jar` is the
pair in the cookies, `spent` the refresh tokens on the blacklist, `expiredUpTo`
the newest expired access token. `pc[t]` follows `refreshAccessToken` in a tab:
the turn is asked for by `CoordinateRefresh`, got by `LockGranted` (web lock, a
queue) or `ReadLease`, `WriteLease`, `VerifyLease` (three accesses to
localStorage other tabs come between), and passed on in `RefreshAnswered`, which
also publishes the outcome for the tabs that wait (`news`) and hands it to the
requests of its own tab (`Deliver`: `processQueue`, logout, retries). `mode` says which
of the two the browser has; both are explored. `ServeRefresh` is the route
handler and Django, `JarAfter` what the browser does with the answer's cookies.
`causes` remembers what happened that may end a session: a logout, an end of the
token, an answer lost (`AnswerLost`, or a tab closed over it), two refreshes at
once (`overlap`: the lease lapsed under a refresh, or was written over a live one).

Abstractions: the shared outcome (15 s) never expires while a tab waits for it;
whether a cooldown is over is decided when it is looked at (`CooledDown`,
`LeadRefresh`); access tokens do not expire, and the lease does not lapse, within
the milliseconds of synchronous code; Django checks and rotates in one step;
storage event, broadcast and poll are one way of hearing an outcome; the answer
of a login and its cookies are one step. Not modelled: impersonation, two-factor
login, the proxy that guards pages, and a browser without web locks whose
localStorage fails: there `tryAcquireStorageLease` answers that the lease is
acquired (`refresh-access-token.ts:157`), no tab hears another's outcome, and
`OneRefreshAtATime` says nothing of it.

### OfflineSync

`queue` is **one** record: `syncQueueDB.add` gives every record the id 0, so the
key generator is not asked and a second `add` fails until the first is gone.
`temp` and `copy` are the labour records under the temporary (negative) and the
server's id, `timer` the `activeLog` of the page, `draft` the cached diagnosis,
`saving` the draft between `queueRequest` and `diagnosisDraftsDB.set`. The server
is counted: how often a write was carried out, a photo stored, how many time logs
an entry made. `pass[t]` is a run of `syncAll`: the stage, the records it read at
the start of the stage (`todo`), the call under way (`job`) and where it is.
`ServeCall` carries it out (a clock-in while another log is open and a clock-out
of a log that is not the open one are refused, as the serializers and views do), `CallFails` does not, `AnswerLost` does and reports
failure. `Call` without a connection is the interceptor, which queues a copy of
the call before it rejects. `GoOffline` within a pass, and the mishaps, add to
`causes`.

Not modelled: the optimistic copies of work orders, tasks and roadside requests
and the stages of `syncAll` that send them; downloads; the deletion of the
database after a read error (`safeGetAll`). Inspections have a store but no page
writes to it; `hooks/useOffline.ts` is mounted nowhere.

### ChatSession

`sock[s]` is an attempt to connect (`ticket`), a socket not open yet (`opening`),
an open one with what is on its way in and out, or one the hook has closed that has yet
to transmit what it was given (`closing`); each remembers the
conversation of the closure that made it. `current` is `socketRef`, `connected`
the state `isConnected`, `timer` the timer of `reconnectTimeoutRef` and `strays`
timers that ref has forgotten. Selecting another conversation does not remount
the window (`SelectConversation` is the clean-up and the effects), so the ticket
awaited for the old one is still opened and its history still shown; `crossed` in `causes`
says that a switch met such an unfinished attempt, timer or answer. `UserChanges` is the
same effect started over because the user record was stored anew.
Writing is two steps: `BeginMessage` puts a text in the input, `SendMessage` is `handleSend`.
The text (`draft`) and the message to reply to (`replyTo`) stay where they are across a
switch; `carried` says that one did. `begun` and `sent` remember the conversation a message
was begun in and the one shown when it was sent. The consumer takes a message of a socket and
stores it in that socket's conversation (`ServerStores`), whatever message it names as its
parent, or cannot save it (`ServerFails`, `refused`); `dropped` and `unready` are the other
two ways a message is lost: with its socket, or sent while `isConnected` was out of date.
`getAccessToken()` is null behind the route handlers, so a ticket is always
fetched. Not modelled: leaving the page, a text that is taken back, typing indicators, read
marks, presence, attachments.

## Runs

Every run bounds the data by its constants; none has a state constraint. All
runs turn deadlock checking off where finite resources (documents, payments,
requests, messages) get used up or a job is closed, after which nothing need happen.

| Run | Constants | Question | Result |
|---|---|---|---|
| `StockSerial` | 1 handler, 2 branches, 2 parts, 1 transfer, 3 users | do ledger, rows and items agree, is the lifecycle kept, are decisions complete | holds |
| `StockConcurrent` | 2 handlers | what survives overlapping requests | rows never negative, receipts within shipment |
| `StockEdited` | 1 handler, edits of rows and branches | are goods conserved | holds |
| `ReceivablesSerial` | 1 handler | balances, status, refunds (of one payment also written directly), credits for any sequence of requests, totals from nothing to 2 | holds |
| `ReceivablesConcurrent` | 2 handlers, crashes, deleted payments | refunds accounted, counted payments positive | holds |
| `WorkOrdersSerial` | 1 handler, every profile, all endpoints but edits, release and rejected inspections | types, `JobPromise` | holds |
| `WorkOrdersConcurrent` | 2 handlers | pause memory, QC before billing | holds |
| `WorkOrdersBackDoors` | 1 handler; views that set any status before completion, edits of columns with and without a status, waived checks, releases, rejected inspections | QC before billing | holds |
| `GatewayPayments` | 1 charge of any amount, 2 handlers, totals 0 to 2, 1 failure or crash, 1 confirmation, edit, void, deletion, lock of the period or loss of the account | one payment per charge, the balance, success accounted for, the webhook is answered with success in the end | holds |
| `SessionRefresh` | 2 tabs, 3 requests (one a session check) or a login and one request, one mishap (lost answer, end of the session, logout; closed tabs) | cookies kept, one refresh at a time, retries carry new cookies, every request is settled | holds |
| `OfflineSync` | 1 tab, a write, a diagnosis edit, a labour entry, a photo, one mishap of any kind | nothing lost or doubled, the draft accounted for, labour booked once and arriving, the queue drains | holds |
| `ChatSession` | 2 conversations, 1 switch or change of the user, 3 sockets or attempts, 2 drops or failures, a message of each side | posted where it was sent, and where it was begun unless carried; one way to connect; the connection returns; what is sent arrives or its loss has a cause | holds |

*Further disagreements.* These definitions state sentences of the repository
that TLC refutes; they are kept in the modules, and adding them to the
configuration named (with the constants named) shows the counterexample.

| Definition | Sentence | Add to | What happens |
|---|---|---|---|
| `SubmitterDoesNotApprove` | "Transfers cannot be approved by the same user who submitted them" (`inventory/services.py:306`) | `StockSerial` | the check is skipped for every role that may approve |
| `LedgerExplainsStock` | "Stock updates are handled by InventoryService.record_transaction()" (`inventory/models.py:966`) | `StockEdited`, `StockConcurrent` | a PATCH of a stock row records no movement; two overlapping movements lose one update |
| `RefundWithinPayment` | "Refund amount cannot exceed the remaining refundable payment amount." (`billing/serializers.py:1852`) | `ReceivablesConcurrent` | two refunds requested before either completes |
| `RefundPaidOnce` | "Only approved refunds can be completed" (`billing/views.py:1717`) | `ReceivablesConcurrent` | two overlapping completions of one refund |
| `RefundProgress`, `RefundPaidOnce`, `RefundsAccounted` without `\notin Editable` | the same sentence | `ReceivablesSerial` | a PATCH sets a pending refund to completed, or a paid one back to approved, and a DELETE removes a completed one (`billing/serializers.py:1816`) |
| `CreditConserved` | "Only draft credit notes can be approved" (`billing/views.py:2160`) | `ReceivablesConcurrent` with `MaxUse = 2` | a second approval in flight restores the full balance |
| `BalanceMatchesCollections` | "Set amount_paid from completed payments" (`billing/models.py:1208`) | `ReceivablesSerial` with deletion, or with 2 handlers and `MaxAmount = 1` | the invoice keeps the money of a deleted payment; two overlapping payments store the older sum (`billing/models.py:1222`) |
| `RepairsApproved` | "Work order must be approved before starting work" (`workorders/models.py:851`) | `WorkOrdersConcurrent` with `portal_decline` | the customer declines while work starts |
| `PausedSessionPaused` | "Resume a paused work order or diagnosis session." (`workorders/mixins/transition_mixins.py:459`) | `WorkOrdersSerial` | pausing the job leaves the session running, and neither way of resuming accepts the pair |
| `DiagnosisBeforeRepair` | "Complete diagnosis before starting or resuming repair work." (`workorders/models.py:847`) | `WorkOrdersSerial` | completing without approval starts the repair and leaves the record open |
| `AdditionalWorkApprovable` | "Additional work must be sent for customer approval before repairs resume." (`workorders/models.py:668`) | `WorkOrdersSerial` | a routine job can never be sent for approval |
| `ClosedIsFinal` | "Closed work orders are immutable" (`workorders/mixins/transition_mixins.py:116`) | `WorkOrdersBackDoors`; `WorkOrdersConcurrent` with `Profiles = {"inspection_only"}` | the inspection form sets a closed job to intake; a transition computed on an older copy is saved over a closed job (`workorders/models.py:1059`) |
| `CompletedMeansPassed` | "Quality check must be requested and passed before completion." (`workorders/models.py:667`) | `WorkOrdersBackDoors` with `BackDoors = {}`, `PatchedFlags = {}` and the target `"completed"` | a failed check sets `quality_check_completed` too and nothing resets it (`workorders/models.py:895`) |
| `AllocationKeepsReservations` | "Quantity available for use (not reserved)" (`inventory/models.py:481`) | `StockSerial` with `MoveKinds = {}` and one part | issuing a part to a job is subtracted from what a transfer has reserved (`inventory/services.py:172`) |
| `ClosedHasInvoice` | "A finalized invoice is required before the work order can be closed." (`workorders/models.py:938`) | `WorkOrdersSerial` | the invoice is voided afterwards |
| `TemporaryFailuresKeepSession` | "Recent BFF/cookie and refresh hardening stops *unexpected* logouts from lost refresh cookies, refresh storms, and temporary API failures" (`docs/auth-hardening.md:33`) | `SessionRefresh` | the answer of a rotation is lost: the next refresh presents the spent token, is refused, and the cookies are cleared |
| `EveryWriteTaken` | "Will be auto-incremented" (`frontend/lib/offline/db.ts:424`) | `OfflineSync` | the id is 0, not absent: the second write made offline is refused |
| `TimerStops` | "Will sync when online" (`frontend/app/mobile/workorders/[id]/page.tsx:387`) | `OfflineSync` | stop is pressed while a pass sends the clock-in: the pass stores the entry as running over it. A clock-out that fails after its clock-in is lost too: the entry is sent again as a clock-in, which is refused while the first runs |

*Seen while modelling, without a definition.* "Create (or return existing)"
(`billing/gateway_payments.py:117`), and its test `test_record_gateway_payment_is_idempotent`, hold for calls one
after another. Two handlers of one charge that both searched before either
inserted are kept apart by other means only: by the number counter, behind which the second finds
the invoice paid. An invoice without a branch (if its numbers do not collide), one whose
total was raised or that was voided since, or one a client pays in part
(`create_payment_intent`, `billing/views.py:1000`, takes any amount) can get the payment twice;
`OnePaymentPerCharge` says so, and TLC finds each when its part of the hypothesis is dropped. "Also repairs invoice paid totals"
(`billing/gateway_payments.py:67`): a repair that is overtaken by another payment saves
the older sum. A webhook whose verification fails, if only because the gateway did not
answer, is answered 200 and not repeated (`billing/paystack_views.py:334`, `:419`); the charge is then recorded
only if the browser comes back or a client confirms. One whose invoice was deleted since
(`billing/views.py:815` asks for payments, not for charges) is answered 200 as well
(`billing/paystack_views.py:346`), and the money is nowhere. A charge whose date is in a locked period
(`accounting/document_numbering.py:38`) is answered 500 until the period is unlocked. A refresh that is answered after
the logout brings the cookies back ("Manual logout ... Session ends", `docs/auth-hardening.md:41`); the model
has the step and marks it `overtaken`. The status, task and roadside handlers store their optimistic
record before `queueRequest`, so a refused write is shown as made. The records of
work orders marked unsynced are sent to `/workorders/<id>/`, which has no
backend route. Photos stored by `lib/offline/photos.ts`
(`app/mobile/workorders/[id]/photos/page.tsx:122`) are in a database `syncAll`
does not read. A call the interceptor queued within a pass can hold the only
place of the queue after three failures. With two tabs, `delete(0)` and
`incrementRetries(0)` may meet another request than the one that was sent. In the
chat, a ticket awaited across a switch opens a socket to the old conversation and
makes it the current one; a late history replaces the messages of another
conversation, or those heard meanwhile; nothing is fetched after a reconnection;
`isConnected` stays true across a switch, so a message sent before the new
socket is open is dropped. `ChatWindow` has no key (`app/(dashboard)/chat/page.tsx:82`), so what
is in the input (`ChatInput.tsx:26`) and the message to reply to (`ChatWindow.tsx:38`) outlive
a switch: the text is sent to the conversation selected later, as a reply to a message of the
earlier one, which the consumer accepts (`apps/chat/consumers.py:169` looks the parent up by its id only).
`MessagesStayInTheirConversation` says so with its second hypothesis; without it TLC finds both.
A message that cannot be saved is reported by `chat.error` (`consumers.py:90`), which the window
only logs (`useChat.ts:134`); the input is empty by then.

*Why the bounds are enough.* Two handlers are enough for every race seen here:
each needs one stale copy and one newer commit, and the lost writes are of two
writers. One transfer exercises every stage; the second branch makes movements
two-sided, a second part lets a receipt be partial line by line, and three users
are a submitter and two approvers who may disagree. Quantities 0, 1 and 2 contain
the boundary where a check just fails. A work order, its guards and its records have no numbers.
In `WorkOrdersBackDoors` the views set `DirectStatuses`, one status of every phase before
completion; a view that sets a job to completed is what the guards are there to prevent.
The run with two handlers gives them the endpoints that write the columns the
properties read, and leaves those that write only others to the run with one.
In `ReceivablesSerial` a payment whose refunds are written directly stands beside one whose
refunds are not, so that a write could reach it; `ReceivablesConcurrent` has two refunds of one
payment. `MaxRefunded` leaves room to refund twice what was paid, `MaxUse` to use a note up.
For online payments the webhook, the callback and a confirmation of one charge, for
the whole invoice or for what is left, meet in every order, two at a time; one failure
at any point is followed by a repeated webhook without one. Several charges of one
invoice are left to the theorems, which hold for any number of them.
In the client, two tabs are what the lock and the lease are between; a second
request in one tab is the one that waits for the leader; every mishap can come at
every point, one kind per behaviour; a login is a refresh with nothing to wait for it, so it
takes the place of two requests in the bound. A single place in the queue makes two writes
enough to find it occupied; `MaxRetries` is the code's 3. Three sockets or attempts
are the old conversation's, the new one's and one by a timer. Overlapping passes of
two tabs are left to the theorems, which hold for any number of tabs.
The theorems remove the bounds for the properties that hold under
interleaving. Symmetry is used over handlers, and over branches and users where
the configuration treats them alike, and only in runs of safety properties.

*Fairness.* The models of the API, online payments excepted, assume none, and their properties are safety
properties: nothing in the code retries or schedules an endpoint; whether a job
moves on is up to the staff. In `GatewayPayments` a request that is being handled
goes on (weak fairness of each handler), and the gateway repeats a webhook until it
is answered with success (weak fairness of receiving it; this is the gateway's
promise, not this code's); customers, browsers, staff and failures promise nothing,
and from some time on the settlement account is assumed to be configured and the payment
of the charge to be given a number (its period unlocked). Jobs that cannot move on are stated as invariants
about what is enabled (`AdditionalWorkApprovable`, `FullyReceivedIsClosed`).
The client runs by an event loop, timers and calls that end, and its models have
the fairness that gives: in `SessionRefresh` weak fairness of what the program does by
itself (the tabs' and requests' steps, an answer to each call, if only an error, the
end of the lease) taken together, which is less than fairness of each; in `OfflineSync` of the steps of a pass, of answers, of the return
of the connection, and **strong** fairness of starting a pass, because the
connection may come and go but the timer of five minutes and the `online` event
recur; in `ChatSession` of the steps of a socket and of the reconnection timer.
Users, other people, faults and the network promise nothing; drops are bounded,
so the connection is not cut for ever.

## Proofs

Proved by TLAPS for every value of the constants (any number of handlers, parts,
branches, transfers, users, documents, amounts):

| Module | Theorem | Statement |
|---|---|---|
| `StockTransfersProofs` | `TypeCorrect` | `Spec => []TypeOK` |
| | `StockNeverNegative` | `Spec => []NeverNegative` |
| | `ReceiptsBounded` | `Spec => []ReceiptsWithinShipment` |
| | `LedgerBalanced` | stock rows locked from reading to commit, none edited directly: `Spec /\ [][RowsLocked]_vars => []LedgerExplainsStock` |
| | `LastReceiptCloses` | no two requests hold one transfer: `Spec /\ []TransfersApart => []FullyReceivedIsClosed` |
| | `AllDecidedBeforeShipping` | the same: `Spec /\ []TransfersApart => []DecidedBeforeShipping` |
| | `TransfersProgress` | the same: `Spec /\ []TransfersApart => StatusProgress` |
| | `TransferLedgerExact` | the same, finitely many transfers, no edits of their branches: `Spec /\ []TransfersApart => []TransferLedgerMatchesItems` |
| | `GoodsAlwaysConserved` | the same, finitely many transfers and branches: `Spec /\ []TransfersApart => []GoodsConserved` |
| `SumTheorems` | `SumChange` | `Sum(g, U) = Sum(f, T)` less what row `x` contributed plus what it contributes, if `f`, `g` and `T`, `U` differ at most in `x` |
| `ReceivablesProofs` | `TypeCorrect` | `Spec => []TypeOK` |
| | `CountedPositive` | `Spec => []CountedPaymentsPositive` |
| | `RefundsNeverMissing` | finitely many refunds, any direct writes on `Editable`: `Spec => []RefundsAccounted` |
| | `RefundsProgress` | no two requests hold one refund: `Spec /\ []RefundsApart => RefundProgress` |
| | `RefundsPaidOnce` | the same, finitely many refunds: `Spec /\ []RefundsApart => []RefundPaidOnce` |
| | `CreditsConserved` | no two requests hold one credit note: `Spec /\ []CreditsApart => []CreditConserved` |
| | `TakenSummed` | finitely many payments: `Spec => []TakenIsSum` |
| | `BalancesMatch` | no two requests hold one invoice, no crash or deletion, finitely many payments: `Spec /\ []InvoicesApart => []BalanceMatchesCollections` |
| | `PaidIsCovered` | the same: `Spec /\ []InvoicesApart => []PaidMeansCovered` |
| `WorkOrdersProofs` | `TypeCorrect` | `Spec => []TypeOK` |
| | `PausedAlwaysRemembers` | no back doors: `Spec => []PausedRemembers` |
| | `QualityAlwaysBeforeBilling` | no edit unmakes the check or asks for it later, the back doors set no late status: `Spec => []QualityBeforeBilling` |
| | `JobPromiseHolds` | one handler, no back doors, no edits of the two approval columns: `Spec => JobPromise` |
| `GatewayPaymentsProofs` | `TypeCorrect` | `Spec => []TypeOK` |
| | `RecordedOnce` | `Spec => []OnePaymentPerCharge` |
| | `BalanceHolds` | `Spec => []BalanceIsCollected` |
| | `SuccessHolds` | `Spec => []SuccessIsAccountedFor` |
| `SessionRefreshProofs` | `TypeCorrect` | `Spec => []TypeOK` |
| | `RefreshesSerialized` | `Spec => []OneRefreshAtATime` |
| | `SessionSurvives` | `Spec => []CookiesKept` |
| | `RetriesMakeProgress` | `Spec => RetryCarriesNewPair` |
| `OfflineSyncProofs` | `TypeCorrect` | `Spec => []TypeOK` |
| | `AcceptedWritesKept` | `Spec => []QueuedNotLost` |
| | `DraftHonest` | `Spec => []DraftAccountedFor` |
| | `NothingTwice` | `Spec => []AppliedOnce` |
| | `LabourBookedOnce` | `Spec => []LabourOnce` |
| `ChatSessionProofs` | `TypeCorrect` | `Spec => []TypeOK` |
| | `MessagesStay` | `Spec => []MessagesStayInTheirConversation` |
| | `WindowShows` | `Spec => []WindowShowsItsConversation` |
| | `OneWayHolds` | `Spec => []OneWayToConnect` |

*The argument for the API.* None of the invariants is inductive, because a handler may save
an old copy at any time. Each is strengthened to the same statement about the
row **and about every copy a handler holds**. A stock row and the
copies a handler computed are non-negative, since the check was made on the copy
it saves. A transfer item and each copy of it satisfy `rcvd <= sent <= req`, and
the quantities a handler is about to post fit the copy they were checked
against. The ledger argument adds that, when nobody writes a row another has read
(`RowsLocked`), the copies equal the rows. A copy of a payment that is still counted has something left. A work order
row and every copy satisfy `RowOK`: paused exactly when a status is remembered (without back doors),
and, where the row requires a check, completed, invoiced or closed only checked or broken off; the
lemma `EntryStatuses` says from where the late statuses are entered, `AfterOK` that
a guarded transition keeps `RowOK`, and `SameRowOK` that changes of other
columns do.

The properties that a lost update breaks are proved under the condition the code leaves to
chance: requests may overlap in any number and order, but two that overlap do
not hold the same transfer, refund, credit note or invoice (`TransfersApart`,
`RefundsApart`, `CreditsApart`, `InvoicesApart`), or write a stock row between another's read
and its commit (`RowsLocked`). These are hypotheses about the behaviour, not about the
constants; the lemmas `OneHandlerApart` and `OneHandlerLocked` show that they hold whenever there is
one handler, as in the runs, and they are what a `select_for_update` at the first read, in one
transaction with the write, would establish. A stale copy then cannot be overtaken, and the invariants say the opposite
of the above: **what a handler holds is still true of the tables**. In
`StockTransfersProofs` that is `ApartInv`: `Held` relates each stage of a handler
to the rows it read (a copy equals its row, a receipt fits what is outstanding, an
approval is of a pending row), and `Stands` is what a transfer satisfies between
requests: nothing sent before it ships, something outstanding while it is in transit,
nobody undecided once it is approved. A step that commits uses `Held` to establish
`Stands`; a step that reads, `Stands` to establish `Held`. The two ledger theorems
need no more than `ApartInv` and the effect of one commit on a sum.

`ReceivablesProofs` has one invariant for any interleaving, `LinkInv`, and four on top of it.
`Link` says what survives overlapping requests: the key of a refund never changes, its payment and
amount only if it is of a payment in `Editable` and stays one (`Current`), a completion that has locked its payment (`PaymentFree`) holds exactly the row
it will save, and no refund is requested for a payment before it is inserted; `Apart`
says that no two requests are at that stage with one payment. So a completion adds
its amount to `refunded` and to the completed refunds alike, and a late
decision can only take a refund out of the second sum: `RefundsNeverMissing`. In the
same way every step changes `taken` as it changes the sum over the payments: `TakenSummed`.
With `RefundsApart`, `RefundHeld` (the refund loaded is the one in the table, in the status the
operation requires) turns the inequality into `RefundsPaidOnce` and gives
`RefundsProgress`, for the payments outside `Editable`; `CreditInv` says the same of credit notes. For balances, `Fits(row, n)`
is what `Invoice.save` establishes of a row for the sum `n` it is given (`SettledFits`),
and what re-saving a fitting row keeps (`SettledPaid`). An invoice fits what is collected on it
except while a request has inserted a payment and not yet saved (`Settling`), and `Holds` says that
every sum a request holds is the one after its own commit. Without the hypotheses the properties are false:
see the table of disagreements.

*The refinement.* `JobPromiseHolds` proves that every step of `WorkOrders` is, under
the refinement mapping, a step of `JobPhases` or a stutter. Its invariant `JobInv` has two parts:
`Stands` relates the status of the job, its consent and the status of the
diagnosis at rest; `Current` says that until the plan of the handler
is done its copy agrees with the row where the guards look, and which commits may
still come in which status. Each commit is one lemma: a transition
of the graph with its guards, or a save that leaves phase and consent alone.

*Sums.* `SumOver` is `SumFunctionOnSet`, defined by recursion over the set. `SumTheorems`
derives what the proofs need from that definition: the recursive function exists
for finite sets (`SumExists`), any row can be taken out first
(`SumSplit`), hence `SumChange`. The library's induction theorems take
an operator as parameter and cannot be instantiated here; the lemmas
argue by a smallest counterexample instead (`SmallestSet`), from the
well-foundedness of strict inclusion on the subsets of a finite set, which the library proves.
This is why these theorems assume finite tables; sums over infinite ones mean nothing.

*The argument for online payments.* That a charge is recorded once has two reasons, and
`IInv` has one part for each. `AloneAndFirst`: without an overlap the handler that
records a charge is the only one past the search, and no payment is there yet.
`FirstPaysOff`: with numbers, without edits or voids and with charges for all that is due at
least (`FirstSettles`), the invoice is untouched (`Unpaid`: one transaction at most is
open), paid (`PaidOff`: no transaction is open, and `Create` refuses to open one),
or for nothing (`NothingToPay`: status paid would never come, but no handler gets past `Check`);
a commit leads from the first to the second, so there is no second one, whatever
overlaps. `SumsAreCurrent`: unless overtaken, whoever is about to save the invoice
holds the current sum; an edit may only start at zero. `OneTotal`: without edits every save
leaves the total as it is, so an invoice that was paid up once has collected its total. `Known` says
that what a handler was told by the gateway stays true. Most steps only move a
handler in memory (`Aside`) or answer (`Answers`), and these two lemmas carry them.

*The argument for the session.* `IInv` is `TypeOK` and four parts. `Stations`
relates the place of a tab to what it has out: it is sending exactly when its call
is out, listening only with a lease. `TurnHeld`: without an overlap, a tab that
sends holds the lock, or owns a live lease that no other tab can write; so two
cannot send. `Order` compares tokens: what is in the jar, on a call or at a logout was issued,
a rotated pair and a jar announced as refreshed are newer than every expired one,
and a request that waits was sent with an expired one; so its repetition carries
other cookies. `Undisturbed`: while nothing has happened the jar holds a pair,
unspent unless its rotation is on its way back, and a refresh presents just that
pair; so no refresh is refused, and the cookies stay.

*The argument for offline work.* `Shape` ties the job of a pass to its stage.
`OnePass`: without an overlap at most one tab is in a pass. `OwnsQueue`: a pass
that has sent the request of the queue, or is about to delete or count it, still
finds that request under key 0, because `add` never replaces; from it follows that a
write leaves the queue only after the server has carried it out. `Accounted` says
this of every place a draft is in: the store, the copy yet to be saved, the copy a
pass holds. `WriteOnce` and `PhotoOnce`: a write carried out is no longer queued
except by the pass that is about to delete it. `Labour` follows an entry through
its life: record under the temporary id, clock-in sent, record deleted; a made time
log and a temporary record exist together only while a pass is between the two.

*The argument for the chat.* `WrittenOnce` needs no hypothesis: a message is begun, sent and
stored in that order, it is in at most
one outbox and not yet stored while it is there, and what waits in an inbox or a
history was stored in the conversation that inbox or history is of. `AllOfThisOne`
holds until a switch crosses something: every attempt and open socket and every history
belongs to the conversation of the window, because a switch
that crosses nothing leaves only the new attempt (`CleanRestart`), and every message on its way out was
sent in the conversation of its socket, a closed one included. `InputOfThisOne` holds until a
switch carries something along as well: the text in the input, the message to reply to and what was sent
belong to the conversation of the window at the time; what is stored stays where it is
(`PostedStays`), so a parent does too. `OneWay` counts the
ways to connect as sets instead of by cardinality: a timer when nothing is alive,
else exactly one slot. Most steps only take messages out of the slots (`Quieter`), so
two lemmas carry them all.

The assumptions are the named ones on the constants in each module, and in the
theorems the hypotheses stated: a view may send a job to a paused status without a
memory, or straight to completed, and an edit may take a check back or ask for one after
completion, so the hypotheses are needed.

`TypeOK` is a theorem of every module; TLC runs it where its violation would be a
hazard of its own, a negative balance (`ReceivablesSerial`) or a status that is none
(`WorkOrdersSerial`).

*Only model-checked.* The liveness properties `ChargesGetAnswered`, `RequestsSettle`,
`QueueDrains`, `LabourReachesServer`, `ConnectionReturns` and `SentArrives`: fairness and
`ENABLED` are beyond the prover. Every invariant and every action property the runs check
is a theorem, under the hypotheses listed; the runs show that these
hypotheses have states, and check the invariants on instances where they bite.

## Plan

Done: `StockTransfers`, `Receivables`, `WorkOrders` with `JobPhases`,
`GatewayPayments`, `SessionRefresh`, `OfflineSync`, `ChatSession`, and the proofs above. Next, in this order:

1. `PartRequests`: requisition of a part (approve, allocate, order, receive, install, return)
   composed with stock; property: a requisition draws stock once. Abstract
   specification: issued at most once, returned at most what was issued.
2. `PurchaseOrders`: submission and multi-level approval, line-by-line receipt with
   failures, cancellation, counts. Property: each line booked once.
3. `DocumentNumbering` (with appointments): uniqueness of numbers under locks and
   floors. Theorem: uniqueness for any number of documents.
4. `DeliveryReports`: reordered and repeated reports against the status order.
5. `QuickBooksToken`: refresh under the row lock with remote failures.
6. `Ledger`: post, reverse, close once each; `Subscriptions`: allowance use.
7. `OptimisticRecords`: the unsynced copies of work orders, tasks and roadside
   requests beside the queue, downloads over them, and their stages of `syncAll`.
8. Proofs: the uniqueness theorems of 3; `JobPromiseHolds` with handlers that overlap on
   different columns only.

Two handlers remain the bound of the concurrent runs; liveness of the API is stated only
where Celery really retries (`DeliveryReports`, `QuickBooksToken`).

## Not modelled

The components with status `not_modelled` in `PROJECT.json` are left out for the
reasons given there: those of the plan await their modules; master data,
documents, displays, exports and templates have no interleaving or only data
conversion; the pages of the client hold the state of one view and refetch after
each mutation, so what they do to shared data is in the models of the API.
