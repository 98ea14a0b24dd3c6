------------------------ MODULE GatewayPaymentsProofs ------------------------
(* Proofs about GatewayPayments for any number of charges and of requests   *)
(* handled at the same time, and any bound on totals and failures.          *)
EXTENDS GatewayPayments, TLAPS

-----------------------------------------------------------------------------
(* The strengthening.                                                       *)

(* What a handler has been told by the gateway and has found stays true.    *)
Known ==
  /\ \A h \in Handlers :
       /\ handler[h].stage \notin {"idle", "editing"} =>
             charge[handler[h].ref].state # "none"
       /\ handler[h].stage \in {"committed", "existing", "summed"} =>
             copies[handler[h].ref] > 0
  /\ \A r \in Refs : charge[r].state = "none" => told[r] = "nothing"
  /\ \A r \in owed : charge[r].state = "paid"

(* Where no two handlers record a charge at once, the one that does is      *)
(* alone and the first.                                                     *)
AloneAndFirst ==
  "overlap" \notin causes =>
    /\ \A r \in Refs : copies[r] <= 1
    /\ \A h \in Handlers :
         handler[h].stage \in {"creating", "inside", "holding"} =>
           copies[handler[h].ref] = 0
    /\ \A g, h \in Handlers :
         /\ handler[g].stage \in {"creating", "inside", "holding"}
         /\ handler[h].stage \in {"creating", "inside", "holding"}
         /\ handler[g].ref = handler[h].ref
         => g = h

(* Where the numbers keep transactions apart, the total stays as it was and *)
(* every charge is for all that is due at least, the first one pays off the *)
(* invoice; on an invoice with nothing to pay none is recorded.             *)
InTransaction(h) == handler[h].stage \in {"inside", "holding"}

Unpaid ==
  /\ \A r \in Refs : copies[r] = 0
  /\ invoice.paid = collected /\ collected < invoice.total
  /\ \A r \in Refs : charge[r].state # "none" =>
                        charge[r].amount >= invoice.total - collected
  /\ \A h \in Handlers : handler[h].stage \notin {"existing", "summed"}
  /\ \A h \in Handlers : InTransaction(h) => /\ handler[h].total = invoice.total
                                               /\ ~handler[h].void
  /\ \A g, h \in Handlers : InTransaction(g) /\ InTransaction(h) => g = h

PaidOff ==
  /\ \A r \in Refs : copies[r] <= 1
  /\ PaidUp /\ invoice.total > 0
  /\ \A h \in Handlers : ~InTransaction(h) /\ handler[h].stage # "summed"

NothingToPay ==
  /\ \A r \in Refs : copies[r] = 0
  /\ PaidUp
  /\ \A h \in Handlers :
       handler[h].stage \in {"idle", "verifying", "looking", "checking", "editing"}

FirstPaysOff == FirstSettles => ~invoice.void /\ (Unpaid \/ PaidOff \/ NothingToPay)

(* Who is about to save the invoice knows what was collected.               *)
SumsAreCurrent ==
  "overtaken" \notin causes =>
    /\ invoice.paid = Smaller(collected, invoice.total)
    /\ \A h \in Handlers : handler[h].stage \in {"summed", "editing"} =>
                              handler[h].sum = collected

(* Without edits there is one total.                                        *)
OneTotal ==
  "edited" \notin causes =>
    \A h \in Handlers : handler[h].stage \in {"inside", "holding", "summed", "editing"} =>
                            handler[h].total = invoice.total

IInv == /\ TypeOK /\ Known /\ AloneAndFirst /\ FirstPaysOff /\ SumsAreCurrent /\ OneTotal
        /\ SuccessIsAccountedFor

-----------------------------------------------------------------------------
(* The type invariant in two parts, and one handler changed.                *)
HandlerType == [stage : Stages, kind : Kinds, ref : Refs \cup {NoRef},
                total : 0 .. MaxTotal, void : BOOLEAN, sum : Nat, again : BOOLEAN]

Sound(k) == /\ k \in HandlerType
            /\ k.stage \notin {"idle", "editing"} => k.ref \in Refs

HandlersOK == /\ handler \in [Handlers -> HandlerType]
              /\ \A h \in Handlers : Sound(handler[h])

InvoiceType == [total : 0 .. MaxTotal, paid : Nat, void : BOOLEAN, numbered : BOOLEAN,
                there : BOOLEAN]

TablesOK ==
  /\ invoice \in InvoiceType
  /\ charge \in [Refs -> [state : {"none", "open", "paid"}, amount : 0 .. MaxTotal]]
  /\ copies \in [Refs -> Nat] /\ collected \in Nat
  /\ owed \subseteq Refs /\ dismissed \subseteq Refs
  /\ told \in [Refs -> {"nothing", "success", "failed"}]
  /\ bank \in BOOLEAN /\ barred \subseteq Refs
  /\ failures \in 0 .. MaxFailures /\ changes \in 0 .. MaxChanges
  /\ causes \subseteq {"overlap", "edited", "voided", "partial", "overtaken"}

LEMMA TypeParts ==
  (TypeOK <=> HandlersOK /\ TablesOK) /\ (HandlersOK /\ TablesOK => TypeOK)'
BY DEF TypeOK, HandlersOK, TablesOK, Sound, HandlerType, InvoiceType

LEMMA NewHandler ==
  ASSUME HandlersOK, NEW h \in Handlers, NEW k, Sound(k),
         handler' = [handler EXCEPT ![h] = k]
  PROVE  /\ HandlersOK'
         /\ handler'[h] = k
         /\ \A g \in Handlers \ {h} : handler'[g] = handler[g]
<1>1. handler' \in [Handlers -> HandlerType]
  BY DEF HandlersOK, Sound
<1>2. \A g \in Handlers : handler'[g] = IF g = h THEN k ELSE handler[g]
  BY DEF HandlersOK
<1>3. \A g \in Handlers : Sound(handler'[g])
  BY <1>2 DEF HandlersOK
<1> QED BY <1>1, <1>2, <1>3 DEF HandlersOK, Sound, HandlerType

LEMMA IdleSound == Sound(Idle) /\ Idle.stage = "idle"
BY GatewayAssumption DEF Sound, Idle, HandlerType, Stages, Kinds, GatewayAssumption

(* A handler that moves on in memory keeps its reference and its kind.      *)
LEMMA BecomesFacts ==
  ASSUME HandlersOK, NEW h \in Handlers, NEW stage \in Stages, Becomes(h, stage),
         handler[h].stage \notin {"idle", "editing"}
  PROVE  /\ HandlersOK'
         /\ handler'[h].stage = stage /\ handler'[h].ref = handler[h].ref
         /\ handler'[h].kind = handler[h].kind
         /\ \A g \in Handlers \ {h} : handler'[g] = handler[g]
<1> DEFINE k == [handler[h] EXCEPT !.stage = stage, !.total = 0, !.void = FALSE, !.sum = 0]
<1>1. handler[h] \in HandlerType /\ handler[h].ref \in Refs
  BY DEF HandlersOK, Sound
<1>2. /\ k \in HandlerType /\ k.stage = stage
      /\ k.ref = handler[h].ref /\ k.kind = handler[h].kind
  <2>1. 0 \in 0 .. MaxTotal /\ 0 \in Nat
    BY GatewayAssumption DEF GatewayAssumption
  <2>2. ASSUME NEW x \in HandlerType
        PROVE  LET y == [x EXCEPT !.stage = stage, !.total = 0, !.void = FALSE, !.sum = 0]
               IN  y \in HandlerType /\ y.stage = stage /\ y.ref = x.ref /\ y.kind = x.kind
    BY <2>1 DEF HandlerType
  <2> QED BY <1>1, <2>2
<1>3. Sound(k)
  BY <1>1, <1>2 DEF Sound
<1>4. handler' = [handler EXCEPT ![h] = k]
  BY DEF Becomes, HandlersOK
<1> QED BY <1>2, <1>3, <1>4, NewHandler

LEMMA InitHolds == ASSUME GatewayAssumption, Init PROVE IInv
<1>1. TypeOK
  BY DEF Init, GatewayAssumption, TypeOK, Idle, Stages, Kinds
<1>2. Known /\ AloneAndFirst /\ SuccessIsAccountedFor
  BY DEF Init, Known, AloneAndFirst, SuccessIsAccountedFor, Idle
<1>3. SumsAreCurrent /\ OneTotal
  BY DEF Init, GatewayAssumption, SumsAreCurrent, OneTotal, Smaller, Idle
<1>4. FirstPaysOff
  BY DEF Init, GatewayAssumption, FirstPaysOff, Unpaid, PaidOff, NothingToPay, PaidUp,
         InTransaction, Idle
<1> QED BY <1>1, <1>2, <1>3, <1>4 DEF IInv

(* A handler reads the total of the invoice and computes a sum.             *)
LEMMA ReadsFacts ==
  ASSUME HandlersOK, TablesOK, NEW h \in Handlers, NEW stage \in {"inside", "summed"},
         NEW s \in Nat, handler[h].stage \notin {"idle", "editing"},
         handler' = [handler EXCEPT ![h].stage = stage, ![h].total = invoice.total,
                              ![h].void = invoice.void, ![h].sum = s]
  PROVE  /\ HandlersOK'
         /\ handler'[h].stage = stage /\ handler'[h].ref = handler[h].ref
         /\ handler'[h].total = invoice.total /\ handler'[h].void = invoice.void
         /\ handler'[h].sum = s
         /\ \A g \in Handlers \ {h} : handler'[g] = handler[g]
<1> DEFINE k == [handler[h] EXCEPT !.stage = stage, !.total = invoice.total,
                                 !.void = invoice.void, !.sum = s]
<1>1. handler[h] \in HandlerType /\ handler[h].ref \in Refs
  BY DEF HandlersOK, Sound
<1>2. invoice.total \in 0 .. MaxTotal /\ invoice.void \in BOOLEAN /\ stage \in Stages
  BY DEF TablesOK, InvoiceType, Stages
<1>3. /\ k \in HandlerType /\ k.stage = stage /\ k.ref = handler[h].ref
      /\ k.total = invoice.total /\ k.void = invoice.void /\ k.sum = s
  <2>1. PICK n \in 0 .. MaxTotal, v \in BOOLEAN : n = invoice.total /\ v = invoice.void
    BY <1>2
  <2>2. PICK x \in HandlerType : x = handler[h]
    BY <1>1
  <2> DEFINE y == [x EXCEPT !.stage = stage, !.total = n, !.void = v, !.sum = s]
  <2>3. /\ y \in HandlerType /\ y.stage = stage /\ y.ref = x.ref
        /\ y.total = n /\ y.void = v /\ y.sum = s
    BY <1>2 DEF HandlerType
  <2> QED BY <2>1, <2>2, <2>3
<1>4. handler' = [handler EXCEPT ![h] = k]
  BY DEF HandlersOK
<1> HIDE DEF k
<1>5. Sound(k)
  BY <1>1, <1>2, <1>3 DEF Sound
<1> QED BY <1>3, <1>4, <1>5, NewHandler

(* What a save of the invoice leaves behind.                                *)
LEMMA SavedFacts ==
  ASSUME TablesOK, NEW n \in 0 .. MaxTotal, NEW v \in BOOLEAN, NEW s \in Nat,
         invoice' = Saved(n, v, s)
  PROVE  /\ invoice' \in InvoiceType /\ invoice'.total = n /\ invoice'.void = v
         /\ invoice'.paid = Smaller(s, n) /\ invoice'.numbered = invoice.numbered
<1> DEFINE t == Smaller(s, n)
<1>1. t \in Nat /\ invoice \in InvoiceType
  BY DEF Smaller, TablesOK
<1>2. invoice' = [invoice EXCEPT !.total = n, !.paid = t, !.void = v, !.there = TRUE]
  BY DEF Saved
<1> HIDE DEF t
<1>3. /\ invoice' \in InvoiceType /\ invoice'.total = n /\ invoice'.void = v
      /\ invoice'.paid = t /\ invoice'.numbered = invoice.numbered
  BY <1>1, <1>2 DEF InvoiceType
<1> QED BY <1>3 DEF t

(* An answer lets go of the handler and touches its own reference only.     *)
LEMMA AnswerFacts ==
  ASSUME HandlersOK, TablesOK, NEW h \in Handlers, NEW done \in BOOLEAN, Answer(h, done),
         handler[h].stage \notin {"idle", "editing"}
  PROVE  /\ HandlersOK' /\ handler'[h].stage = "idle"
         /\ \A g \in Handlers \ {h} : handler'[g] = handler[g]
         /\ charge' = charge /\ handler[h].ref \in Refs
         /\ owed' \subseteq owed
         /\ \A r \in owed \ owed' : r = handler[h].ref /\ handler[h].kind = "webhook" /\ done
         /\ told' \in [Refs -> {"nothing", "success", "failed"}]
         /\ \A r \in Refs : told'[r] # told[r] => r = handler[h].ref
         /\ \A r \in Refs : told'[r] = "success" =>
               told[r] = "success" \/ (r = handler[h].ref /\ done)
<1>1. handler' = [handler EXCEPT ![h] = Idle]
  BY DEF Answer
<1>2. /\ HandlersOK' /\ handler'[h].stage = "idle"
      /\ \A g \in Handlers \ {h} : handler'[g] = handler[g]
  BY <1>1, NewHandler, IdleSound
<1>3. handler[h].ref \in Refs
  BY DEF HandlersOK, Sound
<1> QED BY <1>2, <1>3 DEF Answer, TablesOK

(* A handler that is not recording or about to save disturbs nobody.        *)
LEMMA Aside ==
  ASSUME IInv, NEW h \in Handlers,
         handler'[h].stage \in {"idle", "verifying", "looking", "checking"},
         \A g \in Handlers \ {h} : handler'[g] = handler[g],
         UNCHANGED <<tables, charge, causes>>
  PROVE  AloneAndFirst' /\ FirstPaysOff' /\ SumsAreCurrent' /\ OneTotal'
<1>1. AloneAndFirst'
  BY DEF IInv, AloneAndFirst, tables
<1>2. FirstPaysOff'
  BY DEF IInv, FirstPaysOff, FirstSettles, Unpaid, PaidOff, NothingToPay, InTransaction,
     PaidUp, tables
<1>3. SumsAreCurrent' /\ OneTotal'
  BY DEF IInv, SumsAreCurrent, OneTotal, tables
<1> QED BY <1>1, <1>2, <1>3

(* An answer of success needs a payment, or as much money from others.      *)
LEMMA Answers ==
  ASSUME IInv, NEW h \in Handlers, NEW done \in BOOLEAN, Answer(h, done),
         handler[h].stage \notin {"idle", "editing"},
         UNCHANGED <<tables, settings, changes, causes>>,
         failures' \in 0 .. MaxFailures,
         dismissed \subseteq dismissed', dismissed' \subseteq Refs,
         done /\ "edited" \notin causes /\ "overtaken" \notin causes =>
           \/ copies[handler[h].ref] > 0 \/ collected >= invoice.total
           \/ handler[h].kind = "webhook" /\ handler[h].ref \in dismissed'
  PROVE  IInv'
<1> DEFINE r0 == handler[h].ref
<1>1. HandlersOK /\ TablesOK
  BY TypeParts DEF IInv
<1>2. /\ HandlersOK' /\ handler'[h].stage = "idle"
      /\ \A g \in Handlers \ {h} : handler'[g] = handler[g]
      /\ charge' = charge /\ r0 \in Refs
      /\ owed' \subseteq owed
      /\ \A r \in owed \ owed' : r = r0 /\ handler[h].kind = "webhook" /\ done
      /\ told' \in [Refs -> {"nothing", "success", "failed"}]
      /\ \A r \in Refs : told'[r] # told[r] => r = r0
      /\ \A r \in Refs : told'[r] = "success" => told[r] = "success" \/ (r = r0 /\ done)
  BY <1>1, AnswerFacts
<1>3. TypeOK'
  <2>1. TablesOK'
    BY <1>1, <1>2 DEF TablesOK, tables, settings
  <2> QED BY <1>2, <2>1, TypeParts
<1>4. Known'
  BY <1>2 DEF IInv, Known, tables
<1>5. AloneAndFirst' /\ FirstPaysOff' /\ SumsAreCurrent' /\ OneTotal'
  BY <1>2, Aside
<1>6. SuccessIsAccountedFor'
  <2>1. told[r0] = "success" \/ told'[r0] # "success" \/ done
    BY <1>2
  <2>2. told'[r0] = "success" /\ told[r0] # "success" => handler[h].kind = "callback"
    BY <1>1, <1>2 DEF Answer, TablesOK
  <2> QED BY <1>1, <1>2, <2>1, <2>2 DEF IInv, SuccessIsAccountedFor, tables, TablesOK
<1> QED BY <1>3, <1>4, <1>5, <1>6 DEF IInv

-----------------------------------------------------------------------------
(* The customer, the gateway and the staff.                                 *)

(* A charge is opened; for less than what is due, that is remembered.       *)
LEMMA OpenHolds ==
  ASSUME IInv, NEW r \in Refs, NEW n \in 0 .. MaxTotal, Open(r, n),
         UNCHANGED <<failures, changes, dismissed>>,
         causes' \in {causes, causes \cup {"partial"}},
         "partial" \in causes' \/ n >= invoice.total - invoice.paid
  PROVE  IInv'
<1> USE DEF IInv, Open, TypeOK, tables, settings
<1>1. TypeOK'
  <2>1. charge' \in [Refs -> [state : {"none", "open", "paid"}, amount : 0 .. MaxTotal]]
    OBVIOUS
  <2>2. causes' \subseteq {"overlap", "edited", "voided", "partial", "overtaken"}
    OBVIOUS
  <2>3. HandlersOK' /\ TablesOK'
    BY <2>1, <2>2, TypeParts DEF HandlersOK, TablesOK
  <2> QED BY <2>3, TypeParts
<1>2. Known' /\ AloneAndFirst'
  BY DEF Known, AloneAndFirst
<1>3. FirstPaysOff'
  BY DEF FirstPaysOff, FirstSettles, Unpaid, PaidOff, NothingToPay, InTransaction, PaidUp
<1>4. SumsAreCurrent' /\ OneTotal'
  BY DEF SumsAreCurrent, OneTotal
<1>5. SuccessIsAccountedFor'
  BY DEF SuccessIsAccountedFor, Known
<1> QED BY <1>1, <1>2, <1>3, <1>4, <1>5

LEMMA InitiateHolds == ASSUME IInv, NEW r \in Refs, Initiate(r) PROVE IInv'
<1>1. invoice.total - invoice.paid \in 0 .. MaxTotal
  BY GatewayAssumption DEF IInv, TypeOK, Initiate, PaidUp, GatewayAssumption
<1> QED BY <1>1, OpenHolds DEF Initiate, history, IInv, TypeOK

LEMMA CreateIntentHolds ==
  ASSUME IInv, NEW r \in Refs, NEW n \in 1 .. MaxTotal, CreateIntent(r, n) PROVE IInv'
<1>1. n \in 0 .. MaxTotal
  BY GatewayAssumption DEF GatewayAssumption
<1> QED BY <1>1, OpenHolds DEF CreateIntent, IInv, TypeOK

LEMMA CustomerPaysHolds == ASSUME IInv, NEW r \in Refs, CustomerPays(r) PROVE IInv'
<1> USE DEF IInv, CustomerPays, TypeOK, tables, settings, history
<1>1. TypeOK'
  OBVIOUS
<1>2. Known' /\ AloneAndFirst'
  BY DEF Known, AloneAndFirst
<1>3. FirstPaysOff'
  BY DEF FirstPaysOff, FirstSettles, Unpaid, PaidOff, NothingToPay, InTransaction, PaidUp
<1>4. SumsAreCurrent' /\ OneTotal'
  BY DEF SumsAreCurrent, OneTotal
<1>5. SuccessIsAccountedFor'
  BY DEF SuccessIsAccountedFor
<1> QED BY <1>1, <1>2, <1>3, <1>4, <1>5

(* Nothing of the invariant is about what has changed.                      *)
LEMMA SettingsHolds ==
  ASSUME IInv,
         \/ BankChanges \/ UNCHANGED vars
         \/ \E r \in Refs : NumbersBarred(r) \/ NumbersFreed(r)
  PROVE  IInv'
<1>1. /\ UNCHANGED <<tables, gateway, handler, failures, dismissed, causes>>
      /\ bank' \in BOOLEAN /\ barred' \subseteq Refs /\ changes' \in 0 .. MaxChanges
  <2>1. /\ bank \in BOOLEAN /\ barred \subseteq Refs /\ changes \in 0 .. MaxChanges
        /\ MaxChanges \in Nat
    BY GatewayAssumption DEF IInv, TypeOK, GatewayAssumption
  <2>2. CASE BankChanges
    BY <2>1, <2>2 DEF BankChanges
  <2>3. CASE UNCHANGED vars
    BY <2>1, <2>3 DEF vars, tables, gateway
  <2>4. CASE \E r \in Refs : NumbersBarred(r) \/ NumbersFreed(r)
    BY <2>1, <2>4 DEF NumbersBarred, NumbersFreed, history
  <2> QED BY <2>2, <2>3, <2>4
<1> USE <1>1 DEF tables, gateway
<1>2. TypeOK' /\ Known' /\ AloneAndFirst'
  BY DEF IInv, TypeOK, Known, AloneAndFirst
<1>3. FirstPaysOff' /\ SumsAreCurrent' /\ OneTotal' /\ SuccessIsAccountedFor'
  BY DEF IInv, FirstPaysOff, FirstSettles, Unpaid, PaidOff, NothingToPay, InTransaction,
     PaidUp, SumsAreCurrent, OneTotal, SuccessIsAccountedFor
<1> QED BY <1>2, <1>3 DEF IInv

(* Only an invoice without money on it is deleted, and its row remembers    *)
(* what was due.                                                            *)
LEMMA DeleteHolds == ASSUME IInv, Delete PROVE IInv'
<1>1. /\ UNCHANGED <<copies, collected, gateway, settings, handler, failures, dismissed, causes>>
      /\ changes' \in 0 .. MaxChanges /\ invoice \in InvoiceType
      /\ invoice' = [invoice EXCEPT !.there = FALSE]
  BY GatewayAssumption DEF Delete, IInv, TypeOK, InvoiceType, GatewayAssumption
<1>2. /\ invoice' \in InvoiceType /\ invoice'.total = invoice.total
      /\ invoice'.paid = invoice.paid /\ invoice'.void = invoice.void
      /\ invoice'.numbered = invoice.numbered
  BY <1>1 DEF InvoiceType
<1> USE <1>1, <1>2 DEF gateway, settings
<1>3. TypeOK'
  BY TypeParts DEF IInv, TablesOK, HandlersOK
<1>4. Known' /\ AloneAndFirst'
  BY DEF IInv, Known, AloneAndFirst
<1>5. FirstPaysOff' /\ SumsAreCurrent' /\ OneTotal' /\ SuccessIsAccountedFor'
  BY DEF IInv, FirstPaysOff, FirstSettles, Unpaid, PaidOff, NothingToPay, InTransaction,
     PaidUp, SumsAreCurrent, OneTotal, SuccessIsAccountedFor
<1> QED BY <1>3, <1>4, <1>5 DEF IInv

(* A request comes in about a charge that is open or paid.                  *)
LEMMA ReceiveHolds ==
  ASSUME IInv, NEW h \in Handlers, NEW r \in Refs,
         Webhook(h, r) \/ Callback(h, r) \/ Confirm(h, r)
  PROVE  IInv'
<1> DEFINE k(kind) == [Idle EXCEPT !.stage = "verifying", !.kind = kind, !.ref = r]
<1>1. PICK kind \in Kinds : Receive(h, kind, r)
  BY DEF Webhook, Callback, Confirm, Kinds
<1>2. /\ UNCHANGED <<tables, gateway, settings, failures, dismissed, causes>>
      /\ changes' \in 0 .. MaxChanges /\ charge[r].state # "none"
  BY GatewayAssumption DEF IInv, TypeOK, Known, Webhook, Callback, Confirm, history,
     GatewayAssumption
<1>3. Sound(k(kind)) /\ k(kind).stage = "verifying" /\ k(kind).ref = r
  <2>1. ASSUME NEW x \in HandlerType
        PROVE  LET y == [x EXCEPT !.stage = "verifying", !.kind = kind, !.ref = r]
               IN  y \in HandlerType /\ y.stage = "verifying" /\ y.ref = r
    BY DEF HandlerType, Stages
  <2> QED BY <2>1, IdleSound DEF Sound
<1>4. HandlersOK' /\ handler'[h] = k(kind) /\ \A g \in Handlers \ {h} : handler'[g] = handler[g]
  <2>1. handler' = [handler EXCEPT ![h] = k(kind)]
    BY <1>1 DEF Receive
  <2> HIDE DEF k
  <2> QED BY <1>3, <2>1, NewHandler, TypeParts DEF IInv
<1> HIDE DEF k
<1>5. TypeOK'
  <2>1. TablesOK'
    BY <1>2, TypeParts DEF IInv, TablesOK, tables, settings, gateway
  <2> QED BY <1>4, <2>1, TypeParts
<1>6. Known' /\ SuccessIsAccountedFor'
  BY <1>2, <1>3, <1>4 DEF IInv, Known, SuccessIsAccountedFor, tables, gateway
<1>7. AloneAndFirst' /\ FirstPaysOff' /\ SumsAreCurrent' /\ OneTotal'
  BY <1>2, <1>3, <1>4, Aside DEF gateway
<1> QED BY <1>5, <1>6, <1>7 DEF IInv

-----------------------------------------------------------------------------
(* The handlers.                                                            *)

LEMMA VerifiedHolds == ASSUME IInv, NEW h \in Handlers, Verified(h) PROVE IInv'
<1> USE DEF Verified, At, Stages
<1>1. HandlersOK /\ TablesOK
  BY TypeParts DEF IInv
<1>2. /\ HandlersOK' /\ handler'[h].stage = "looking" /\ handler'[h].ref = handler[h].ref
      /\ \A g \in Handlers \ {h} : handler'[g] = handler[g]
  BY <1>1, BecomesFacts
<1>3. TypeOK'
  BY <1>1, <1>2, TypeParts DEF TablesOK, tables, settings, gateway, history
<1>4. Known' /\ SuccessIsAccountedFor'
  BY <1>2 DEF IInv, Known, SuccessIsAccountedFor, tables, gateway, settings, history
<1>5. AloneAndFirst' /\ FirstPaysOff' /\ SumsAreCurrent' /\ OneTotal'
  BY <1>2, Aside DEF gateway, history
<1> QED BY <1>3, <1>4, <1>5 DEF IInv

LEMMA NotVerifiedHolds == ASSUME IInv, NEW h \in Handlers, NotVerified(h) PROVE IInv'
<1>1. HandlersOK /\ TablesOK /\ handler[h].ref \in Refs
  BY TypeParts DEF IInv, HandlersOK, Sound, NotVerified, At
<1>2. failures' \in 0 .. MaxFailures
  BY <1>1, GatewayAssumption DEF NotVerified, Fails, TablesOK, GatewayAssumption
<1> USE DEF NotVerified, At
<1>3. CASE handler[h].kind = "webhook"
  BY <1>1, <1>2, <1>3, Answers DEF TablesOK
<1>4. CASE handler[h].kind # "webhook"
  BY <1>1, <1>2, <1>4, Answers DEF TablesOK
<1> QED BY <1>3, <1>4

LEMMA LookHolds == ASSUME IInv, NEW h \in Handlers, Look(h) PROVE IInv'
<1> USE DEF Look, At, Stages
<1>1. HandlersOK /\ TablesOK /\ handler[h].ref \in Refs
  BY TypeParts DEF IInv, HandlersOK, Sound
<1>2. CASE invoice.there
  <2> DEFINE s == IF copies[handler[h].ref] > 0 THEN "existing" ELSE "checking"
  <2>1. Becomes(h, s) /\ UNCHANGED <<tables, gateway, settings, history>>
    BY <1>2 DEF history
  <2>2. /\ HandlersOK' /\ handler'[h].stage = s /\ handler'[h].ref = handler[h].ref
        /\ \A g \in Handlers \ {h} : handler'[g] = handler[g]
    BY <1>1, <2>1, BecomesFacts
  <2>3. TypeOK'
    BY <1>1, <2>1, <2>2, TypeParts DEF TablesOK, tables, gateway, settings, history
  <2>4. Known' /\ SuccessIsAccountedFor'
    BY <2>1, <2>2 DEF IInv, Known, SuccessIsAccountedFor, tables, gateway, settings, history
  <2>5. AloneAndFirst' /\ SumsAreCurrent' /\ OneTotal'
    BY <2>1, <2>2 DEF IInv, AloneAndFirst, SumsAreCurrent, OneTotal, tables, gateway,
       settings, history
  <2>6. FirstPaysOff'
    BY <1>1, <2>1, <2>2 DEF IInv, FirstPaysOff, FirstSettles, Unpaid, PaidOff,
       NothingToPay, InTransaction, PaidUp, tables, gateway, settings, history
  <2> QED BY <2>3, <2>4, <2>5, <2>6 DEF IInv
<1>3. CASE ~invoice.there /\ handler[h].kind = "webhook"
  <2>1. /\ Answer(h, TRUE) /\ dismissed' = dismissed \cup {handler[h].ref}
        /\ UNCHANGED <<tables, settings, failures, changes, causes>>
    BY <1>3
  <2> QED BY <1>1, <1>3, <2>1, Answers DEF TablesOK
<1>4. CASE ~invoice.there /\ handler[h].kind # "webhook"
  <2>1. /\ Answer(h, FALSE)
        /\ UNCHANGED <<tables, settings, failures, changes, causes, dismissed>>
    BY <1>4
  <2> QED BY <1>1, <2>1, Answers DEF TablesOK
<1> QED BY <1>2, <1>3, <1>4

LEMMA CheckHolds == ASSUME IInv, NEW h \in Handlers, Check(h) PROVE IInv'
<1> USE DEF Check, At, Stages
<1>1. HandlersOK /\ TablesOK /\ handler[h].ref \in Refs
  BY TypeParts DEF IInv, HandlersOK, Sound
<1>2. CASE invoice.there /\ PaidUp
  <2>1. "overtaken" \notin causes => collected >= invoice.total
    BY <1>1, <1>2 DEF IInv, SumsAreCurrent, PaidUp, Smaller, TablesOK, InvoiceType
  <2> QED BY <1>1, <1>2, <2>1, Answers DEF TablesOK, history, IInv
<1>4. CASE ~invoice.there
  BY <1>1, <1>4, Answers DEF TablesOK, history, IInv
<1>3. CASE invoice.there /\ ~PaidUp
  <2>2. /\ HandlersOK' /\ handler'[h].stage = "recording" /\ handler'[h].ref = handler[h].ref
        /\ \A g \in Handlers \ {h} : handler'[g] = handler[g]
    BY <1>1, <1>3, BecomesFacts
  <2>3. TypeOK'
    BY <1>1, <1>3, <2>2, TypeParts DEF TablesOK, tables, settings, gateway, history
  <2>4. Known' /\ SuccessIsAccountedFor'
    BY <1>3, <2>2 DEF IInv, Known, SuccessIsAccountedFor, tables, gateway, settings, history
  <2>5. FirstPaysOff'
    BY <1>1, <1>3, <2>2 DEF IInv, FirstPaysOff, FirstSettles, Unpaid, PaidOff,
       NothingToPay, InTransaction, PaidUp, tables, gateway, settings, history
  <2>6. AloneAndFirst' /\ SumsAreCurrent' /\ OneTotal'
    BY <1>3, <2>2 DEF IInv, AloneAndFirst, SumsAreCurrent, OneTotal, tables, gateway,
       settings, history
  <2> QED BY <2>3, <2>4, <2>5, <2>6 DEF IInv
<1> QED BY <1>2, <1>3, <1>4

LEMMA CrashHolds == ASSUME IInv, NEW h \in Handlers, Crash(h) PROVE IInv'
<1>1. HandlersOK /\ TablesOK
  BY TypeParts DEF IInv
<1>2. /\ HandlersOK' /\ handler'[h].stage = "idle"
      /\ \A g \in Handlers \ {h} : handler'[g] = handler[g]
  BY <1>1, NewHandler, IdleSound DEF Crash
<1>3. TypeOK'
  BY <1>1, <1>2, GatewayAssumption, TypeParts
     DEF TablesOK, Crash, Fails, tables, gateway, settings, GatewayAssumption
<1>4. Known' /\ SuccessIsAccountedFor'
  BY <1>2 DEF IInv, Known, SuccessIsAccountedFor, Crash, tables, gateway
<1>5. AloneAndFirst' /\ FirstPaysOff' /\ SumsAreCurrent' /\ OneTotal'
  BY <1>2, Aside DEF Crash, gateway
<1> QED BY <1>3, <1>4, <1>5 DEF IInv

LEMMA RecordHolds == ASSUME IInv, NEW h \in Handlers, Record(h) PROVE IInv'
<1> DEFINE r == handler[h].ref
<1> USE DEF Record, At
<1>1. HandlersOK /\ TablesOK /\ r \in Refs
  BY TypeParts DEF IInv, HandlersOK, Sound
<1>2. CASE copies[r] > 0
  <2> DEFINE k == [handler[h] EXCEPT !.stage = "existing",
                                     !.again = handler[h].kind # "confirm"]
  <2>1. Sound(k) /\ k.stage = "existing" /\ k.ref = r
    <3>1. ASSUME NEW x \in HandlerType, NEW b \in BOOLEAN
          PROVE  LET y == [x EXCEPT !.stage = "existing", !.again = b]
                 IN  y \in HandlerType /\ y.stage = "existing" /\ y.ref = x.ref
      BY DEF HandlerType, Stages
    <3>2. handler[h] \in HandlerType /\ (handler[h].kind # "confirm") \in BOOLEAN
      BY <1>1 DEF HandlersOK
    <3> QED BY <1>1, <3>1, <3>2 DEF Sound
  <2>2. handler' = [handler EXCEPT ![h] = k]
    BY <1>1, <1>2 DEF HandlersOK
  <2> HIDE DEF k
  <2>3. HandlersOK' /\ handler'[h] = k /\ \A g \in Handlers \ {h} : handler'[g] = handler[g]
    BY <1>1, <2>1, <2>2, NewHandler
  <2>4. UNCHANGED <<tables, gateway, settings, history>>
    BY <1>2 DEF history
  <2>5. TypeOK'
    BY <1>1, <2>3, <2>4, TypeParts DEF TablesOK, tables, settings, gateway, history
  <2>6. Known' /\ SuccessIsAccountedFor'
    BY <1>2, <2>1, <2>3, <2>4 DEF IInv, Known, SuccessIsAccountedFor, tables, gateway,
       settings, history
  <2>7. AloneAndFirst' /\ SumsAreCurrent' /\ OneTotal'
    BY <2>1, <2>3, <2>4 DEF IInv, AloneAndFirst, SumsAreCurrent, OneTotal, tables, gateway,
       settings, history
  <2>8. FirstPaysOff'
    BY <1>1, <1>2, <2>1, <2>3, <2>4
       DEF IInv, FirstPaysOff, FirstSettles, Unpaid, PaidOff, NothingToPay, InTransaction,
          PaidUp, tables, gateway, settings, history
  <2> QED BY <2>5, <2>6, <2>7, <2>8 DEF IInv
<1>3. CASE ~(copies[r] > 0) /\ bank
  <2>1. Becomes(h, "creating") /\ UNCHANGED <<tables, gateway, settings, failures, changes, dismissed>>
    BY <1>3
  <2>2. /\ HandlersOK' /\ handler'[h].stage = "creating" /\ handler'[h].ref = r
        /\ \A g \in Handlers \ {h} : handler'[g] = handler[g]
    BY <1>1, <2>1, BecomesFacts DEF Stages
  <2>3. /\ causes \subseteq causes' /\ causes' \subseteq causes \cup {"overlap"}
        /\ "overlap" \notin causes' => Creating(r) = {}
    BY <1>3
  <2>4. TypeOK'
    BY <1>1, <2>1, <2>2, <2>3, TypeParts DEF TablesOK, tables, settings, gateway
  <2>5. Known' /\ SuccessIsAccountedFor'
    BY <2>1, <2>2, <2>3 DEF IInv, Known, SuccessIsAccountedFor, tables, gateway
  <2>6. AloneAndFirst'
    BY <1>1, <1>3, <2>1, <2>2, <2>3 DEF IInv, AloneAndFirst, Creating, tables, TablesOK
  <2>7. FirstPaysOff' /\ SumsAreCurrent' /\ OneTotal'
    BY <2>1, <2>2, <2>3 DEF IInv, FirstPaysOff, FirstSettles, Unpaid, PaidOff,
       NothingToPay, InTransaction, PaidUp, SumsAreCurrent, OneTotal, tables, gateway
  <2> QED BY <2>4, <2>5, <2>6, <2>7 DEF IInv
<1>4. CASE ~(copies[r] > 0) /\ ~bank
  <2>1. /\ Answer(h, FALSE) /\ handler[h].stage = "recording"
        /\ UNCHANGED <<tables, settings, changes, causes, failures, dismissed>>
    BY <1>4 DEF tables
  <2> QED BY <1>1, <2>1, Answers DEF TablesOK
<1> QED BY <1>2, <1>3, <1>4

LEMMA CreateHolds == ASSUME IInv, NEW h \in Handlers, Create(h) PROVE IInv'
<1> DEFINE r == handler[h].ref
<1> USE DEF Create, At
<1>1. HandlersOK /\ TablesOK /\ r \in Refs
  BY TypeParts DEF IInv, HandlersOK, Sound
<1>2. CASE Refused(h) /\ Answer(h, FALSE)
  <2>1. /\ Answer(h, FALSE) /\ handler[h].stage = "creating"
        /\ UNCHANGED <<tables, settings, changes, causes, failures, dismissed>>
    BY <1>2 DEF history
  <2> QED BY <1>1, <2>1, Answers DEF TablesOK
<1>3. CASE ~StatusPaid /\ ReadInside(h)
  <2>3. /\ HandlersOK' /\ handler'[h].stage = "inside" /\ handler'[h].ref = r
        /\ handler'[h].total = invoice.total /\ handler'[h].void = invoice.void
        /\ \A g \in Handlers \ {h} : handler'[g] = handler[g]
    <3>1. collected + charge[r].amount \in Nat
      BY <1>1 DEF TablesOK
    <3> QED BY <1>1, <1>3, <3>1, ReadsFacts DEF ReadInside
  <2>4. UNCHANGED <<tables, gateway, settings, history>>
    BY <1>3 DEF ReadInside
  <2>5. TypeOK'
    BY <1>1, <2>3, <2>4, TypeParts DEF TablesOK, tables, settings, gateway, history
  <2>6. Known' /\ SuccessIsAccountedFor'
    BY <2>3, <2>4 DEF IInv, Known, SuccessIsAccountedFor, tables, gateway, settings, history
  <2>7. AloneAndFirst' /\ SumsAreCurrent' /\ OneTotal'
    BY <2>3, <2>4 DEF IInv, AloneAndFirst, SumsAreCurrent, OneTotal, tables, gateway,
       settings, history
  <2>8. FirstPaysOff'
    BY <1>1, <1>3, <2>3, <2>4
       DEF IInv, FirstPaysOff, FirstSettles, Unpaid, PaidOff, NothingToPay, InTransaction,
          PaidUp, StatusPaid, NumberFree, Numbering, tables, gateway,
           history
  <2> QED BY <2>5, <2>6, <2>7, <2>8 DEF IInv
<1> QED BY <1>2, <1>3

LEMMA HoldHolds == ASSUME IInv, NEW h \in Handlers, Hold(h) PROVE IInv'
<1> USE DEF Hold, At, tables, gateway, settings, history
<1>1. TypeOK' /\ Known' /\ AloneAndFirst'
  BY DEF IInv, TypeOK, Known, AloneAndFirst, Stages
<1>2. FirstPaysOff'
  BY DEF IInv, TypeOK, FirstPaysOff, FirstSettles, Unpaid, PaidOff, NothingToPay,
     InTransaction, PaidUp
<1>3. SumsAreCurrent' /\ OneTotal' /\ SuccessIsAccountedFor'
  BY DEF IInv, TypeOK, SumsAreCurrent, OneTotal, SuccessIsAccountedFor
<1> QED BY <1>1, <1>2, <1>3 DEF IInv

(* The payment is committed: the first of a charge, and the one that pays   *)
(* off an invoice where nothing was edited.                                 *)
LEMMA CommitHolds == ASSUME IInv, NEW h \in Handlers, Commit(h) PROVE IInv'
<1> DEFINE r == handler[h].ref
<1> USE DEF Commit, At
<1>1. HandlersOK /\ TablesOK /\ r \in Refs
  BY TypeParts DEF IInv, HandlersOK, Sound
<1>2. /\ HandlersOK' /\ handler'[h].stage = "committed" /\ handler'[h].ref = r
      /\ \A g \in Handlers \ {h} : handler'[g] = handler[g]
  BY <1>1, BecomesFacts DEF Stages
<1>3. /\ copies' = [copies EXCEPT ![r] = @ + 1] /\ copies \in [Refs -> Nat]
      /\ collected' = collected + charge[r].amount
      /\ invoice' = Saved(handler[h].total, handler[h].void, collected + charge[r].amount)
      /\ causes \subseteq causes' /\ causes' \subseteq causes \cup {"overtaken"}
      /\ "overtaken" \notin causes' => Reading = {}
      /\ UNCHANGED <<gateway, settings, failures, changes, dismissed>>
  BY <1>1 DEF TablesOK
<1>4. /\ handler[h].total \in 0 .. MaxTotal /\ handler[h].void \in BOOLEAN
      /\ charge[r].amount \in Nat /\ collected \in Nat
      /\ collected + charge[r].amount \in Nat
  BY <1>1 DEF HandlersOK, TablesOK, Sound, HandlerType
<1>5. /\ invoice' \in InvoiceType
      /\ invoice'.total = handler[h].total /\ invoice'.void = handler[h].void
      /\ invoice'.numbered = invoice.numbered
      /\ invoice'.paid = Smaller(collected', invoice'.total)
  BY <1>1, <1>3, <1>4, SavedFacts
<1> HIDE DEF Commit
<1>6. TypeOK'
  BY <1>1, <1>2, <1>3, <1>4, <1>5, TypeParts DEF TablesOK, gateway, settings
<1>7. Known' /\ AloneAndFirst'
  BY <1>1, <1>2, <1>3 DEF IInv, Known, AloneAndFirst, gateway, Commit
<1>8. SumsAreCurrent' /\ OneTotal'
  BY <1>1, <1>2, <1>3, <1>5 DEF IInv, SumsAreCurrent, OneTotal, Reading, gateway, Commit
<1>9. SuccessIsAccountedFor'
  <2>1. \A q \in Refs : copies[q] > 0 => copies'[q] > 0
    BY <1>1, <1>3
  <2>2. "edited" \notin causes /\ collected >= invoice.total => collected' >= invoice'.total
    BY <1>1, <1>3, <1>4, <1>5 DEF TablesOK, InvoiceType, IInv, OneTotal, Commit
  <2>3. SuccessIsAccountedFor
    BY DEF IInv
  <2> QED BY <1>3, <2>1, <2>2, <2>3 DEF SuccessIsAccountedFor, gateway
<1>10. FirstPaysOff'
  <2> SUFFICES ASSUME FirstSettles PROVE ~invoice'.void /\ PaidOff'
    BY <1>3, <1>5 DEF FirstPaysOff, FirstSettles
  <2>1. Unpaid
    BY DEF IInv, FirstPaysOff, PaidOff, NothingToPay, InTransaction, Commit
  <2>2. /\ charge[r].amount >= invoice.total - collected /\ collected < invoice.total
        /\ handler[h].total = invoice.total /\ ~handler[h].void
    BY <1>1, <2>1 DEF Unpaid, InTransaction, IInv, Known, Commit
  <2>3. invoice'.paid = invoice'.total /\ invoice'.total > 0 /\ ~invoice'.void
    BY <1>1, <1>3, <1>4, <1>5, <2>2 DEF Smaller, TablesOK, InvoiceType
  <2>4. \A g \in Handlers : ~InTransaction(g)' /\ handler'[g].stage # "summed"
    BY <1>2, <2>1 DEF Unpaid, InTransaction, Commit
  <2>5. \A q \in Refs : copies'[q] <= 1
    BY <1>1, <1>3, <2>1 DEF Unpaid
  <2> QED BY <1>5, <2>3, <2>4, <2>5 DEF PaidOff, PaidUp, InvoiceType
<1> QED BY <1>6, <1>7, <1>8, <1>9, <1>10 DEF IInv

LEMMA FollowUpHolds == ASSUME IInv, NEW h \in Handlers, FollowUp(h) PROVE IInv'
<1> USE DEF FollowUp, At
<1>1. HandlersOK /\ TablesOK /\ copies[handler[h].ref] > 0
  BY TypeParts DEF IInv, Known
<1>2. UNCHANGED <<tables, settings, changes, dismissed, causes>>
  OBVIOUS
<1>3. CASE Answer(h, TRUE) /\ UNCHANGED failures
  BY <1>1, <1>2, <1>3, Answers DEF TablesOK
<1>4. CASE Answer(h, FALSE) /\ Fails
  <2>1. failures' \in 0 .. MaxFailures
    BY <1>1, <1>4, GatewayAssumption DEF Fails, TablesOK, GatewayAssumption
  <2> QED BY <1>1, <1>2, <1>4, <2>1, Answers DEF TablesOK
<1> QED BY <1>3, <1>4

(* After one repair there may be a second.                                  *)
LEMMA RepairedFacts ==
  ASSUME HandlersOK, NEW h \in Handlers, Repaired(h), handler[h].again,
         handler[h].stage \in {"existing", "summed"}
  PROVE  /\ HandlersOK' /\ UNCHANGED gateway
         /\ handler'[h].stage = "existing" /\ handler'[h].ref = handler[h].ref
         /\ \A g \in Handlers \ {h} : handler'[g] = handler[g]
<1> DEFINE k == [handler[h] EXCEPT !.stage = "existing", !.again = FALSE, !.total = 0,
                                     !.void = FALSE, !.sum = 0]
<1>1. handler[h] \in HandlerType /\ handler[h].ref \in Refs
  BY DEF HandlersOK, Sound
<1>2. /\ k \in HandlerType /\ k.stage = "existing" /\ k.ref = handler[h].ref
  <2>1. 0 \in 0 .. MaxTotal /\ 0 \in Nat
    BY GatewayAssumption DEF GatewayAssumption
  <2>2. ASSUME NEW x \in HandlerType
        PROVE  LET y == [x EXCEPT !.stage = "existing", !.again = FALSE, !.total = 0,
                                     !.void = FALSE, !.sum = 0]
               IN  y \in HandlerType /\ y.stage = "existing" /\ y.ref = x.ref
    BY <2>1 DEF HandlerType, Stages
  <2> QED BY <1>1, <2>2
<1>3. handler' = [handler EXCEPT ![h] = k] /\ UNCHANGED gateway
  BY DEF Repaired, HandlersOK
<1> HIDE DEF k
<1>4. Sound(k)
  BY <1>1, <1>2 DEF Sound
<1> QED BY <1>2, <1>3, <1>4, NewHandler

LEMMA EnsureHolds == ASSUME IInv, NEW h \in Handlers, Ensure(h) PROVE IInv'
<1> DEFINE r == handler[h].ref
<1>1. HandlersOK /\ TablesOK /\ r \in Refs /\ copies[r] > 0 /\ handler[h].stage = "existing"
  BY TypeParts DEF IInv, Known, HandlersOK, Sound, Ensure, At
<1>2. UNCHANGED <<tables, settings, history>>
  BY DEF Ensure
<1>3. CASE StatusPaid /\ handler[h].again
  <2>1. /\ HandlersOK' /\ UNCHANGED gateway
        /\ handler'[h].stage = "existing" /\ handler'[h].ref = r
        /\ \A g \in Handlers \ {h} : handler'[g] = handler[g]
    BY <1>1, <1>3, RepairedFacts DEF Ensure
  <2>2. TypeOK'
    BY <1>1, <1>2, <2>1, TypeParts DEF TablesOK, tables, settings, gateway, history
  <2>3. Known' /\ AloneAndFirst' /\ SuccessIsAccountedFor'
    BY <1>1, <1>2, <2>1 DEF IInv, Known, AloneAndFirst, SuccessIsAccountedFor, tables,
       gateway, history
  <2>4. FirstPaysOff' /\ SumsAreCurrent' /\ OneTotal'
    BY <1>1, <1>2, <2>1 DEF IInv, FirstPaysOff, FirstSettles, Unpaid, PaidOff,
       NothingToPay, InTransaction, PaidUp, SumsAreCurrent, OneTotal, tables, gateway, settings, history
  <2> QED BY <2>2, <2>3, <2>4 DEF IInv
<1>4. CASE StatusPaid /\ ~handler[h].again
  <2>1. Answer(h, TRUE)
    BY <1>4 DEF Ensure, Repaired
  <2> QED BY <1>1, <1>2, <2>1, Answers DEF TablesOK, history
<1>5. CASE ~StatusPaid
  <2>1. /\ HandlersOK' /\ UNCHANGED gateway
        /\ handler'[h].stage = "summed" /\ handler'[h].ref = r
        /\ handler'[h].total = invoice.total /\ handler'[h].sum = collected
        /\ \A g \in Handlers \ {h} : handler'[g] = handler[g]
    <3>1. collected \in Nat
      BY <1>1 DEF TablesOK
    <3> QED BY <1>1, <1>5, <3>1, ReadsFacts DEF Ensure
  <2>2. TypeOK'
    BY <1>1, <1>2, <2>1, TypeParts DEF TablesOK, tables, settings, gateway, history
  <2>3. Known' /\ AloneAndFirst' /\ SuccessIsAccountedFor'
    BY <1>1, <1>2, <2>1 DEF IInv, Known, AloneAndFirst, SuccessIsAccountedFor, tables,
       gateway, history
  <2>4. FirstPaysOff'
    BY <1>1, <1>2, <1>5, <2>1 DEF IInv, FirstPaysOff, FirstSettles, Unpaid, PaidOff,
       NothingToPay, InTransaction, PaidUp, StatusPaid, tables, gateway, settings, history
  <2>5. SumsAreCurrent' /\ OneTotal'
    BY <1>1, <1>2, <2>1 DEF IInv, SumsAreCurrent, OneTotal, tables, gateway, settings,
       history
  <2> QED BY <2>2, <2>3, <2>4, <2>5 DEF IInv
<1> QED BY <1>3, <1>4, <1>5

LEMMA EnsureSaveHolds == ASSUME IInv, NEW h \in Handlers, EnsureSave(h) PROVE IInv'
<1> DEFINE r == handler[h].ref
<1>1. HandlersOK /\ TablesOK /\ r \in Refs /\ copies[r] > 0 /\ handler[h].stage = "summed"
  BY TypeParts DEF IInv, Known, HandlersOK, Sound, EnsureSave, At
<1>2. UNCHANGED <<copies, collected, settings, history>> /\ Repaired(h)
  BY DEF EnsureSave
<1>3. /\ handler[h].total \in 0 .. MaxTotal /\ handler[h].void \in BOOLEAN
      /\ handler[h].sum \in Nat
  BY <1>1 DEF HandlersOK, HandlerType
<1>4. /\ invoice' \in InvoiceType
      /\ invoice'.total = handler[h].total /\ invoice'.numbered = invoice.numbered
      /\ invoice'.paid = Smaller(handler[h].sum, handler[h].total)
  BY <1>1, <1>3, SavedFacts DEF EnsureSave
<1>5. charge' = charge /\ HandlersOK' /\ handler'[h].stage \in {"idle", "existing"}
      /\ (handler'[h].stage = "existing" => handler'[h].ref = r)
      /\ \A g \in Handlers \ {h} : handler'[g] = handler[g]
  <2>1. CASE handler[h].again
    BY <1>1, <1>2, <2>1, RepairedFacts DEF gateway
  <2>2. CASE ~handler[h].again
    BY <1>1, <1>2, <2>2, AnswerFacts DEF Repaired
  <2> QED BY <2>1, <2>2
<1>6. TypeOK'
  <2>1. owed' \subseteq owed /\ told' \in [Refs -> {"nothing", "success", "failed"}]
    <3>1. CASE handler[h].again
      BY <1>1, <1>2, <3>1, RepairedFacts DEF gateway, TablesOK
    <3>2. CASE ~handler[h].again
      BY <1>1, <1>2, <3>2, AnswerFacts DEF Repaired
    <3> QED BY <3>1, <3>2
  <2> QED BY <1>1, <1>2, <1>4, <1>5, <2>1, TypeParts DEF TablesOK, settings, history
<1>7. Known'
  <2>1. owed' \subseteq owed /\ \A q \in Refs : told'[q] # told[q] => q = r
    <3>1. CASE handler[h].again
      BY <1>1, <1>2, <3>1, RepairedFacts DEF gateway
    <3>2. CASE ~handler[h].again
      BY <1>1, <1>2, <3>2, AnswerFacts DEF Repaired
    <3> QED BY <3>1, <3>2
  <2> QED BY <1>1, <1>2, <1>5, <2>1 DEF IInv, Known
<1>7a. AloneAndFirst'
  BY <1>1, <1>2, <1>5 DEF IInv, AloneAndFirst, history
<1>8. FirstPaysOff'
  <2>1. ~FirstSettles
    BY <1>1 DEF IInv, FirstPaysOff, Unpaid, PaidOff, NothingToPay
  <2> QED BY <1>2, <1>4, <2>1 DEF FirstPaysOff, FirstSettles, history
<1>9. SumsAreCurrent'
  BY <1>1, <1>2, <1>4, <1>5 DEF IInv, SumsAreCurrent, history
<1>10. OneTotal'
  BY <1>1, <1>2, <1>4, <1>5 DEF IInv, OneTotal, history
<1>11. SuccessIsAccountedFor'
  <2>1. "edited" \notin causes => invoice'.total = invoice.total
    BY <1>1, <1>4 DEF IInv, OneTotal
  <2> QED BY <1>1, <1>2, <1>5, <2>1
        DEF IInv, SuccessIsAccountedFor, history, Repaired, Answer, gateway, TablesOK
<1> QED BY <1>6, <1>7, <1>8, <1>9, <1>10, <1>11, <1>7a DEF IInv

(* An edit saves a total of its own: what is said of edited invoices only   *)
(* says nothing more.  A void leaves the total and the balance.             *)
LEMMA SavesFacts ==
  ASSUME IInv, NEW h \in Handlers, handler[h].stage = "editing",
         NEW n \in 0 .. MaxTotal, NEW v \in BOOLEAN, invoice' = Saved(n, v, handler[h].sum),
         handler' = [handler EXCEPT ![h] = Idle],
         UNCHANGED <<copies, collected, gateway, settings, failures, changes, dismissed>>,
         NEW c \in {"edited", "voided"}, causes' = causes \cup {c}
  PROVE  /\ TypeOK' /\ Known' /\ AloneAndFirst' /\ FirstPaysOff' /\ SumsAreCurrent'
         /\ invoice'.total = n
         /\ handler'[h].stage = "idle" /\ \A g \in Handlers \ {h} : handler'[g] = handler[g]
<1>1. HandlersOK /\ TablesOK
  BY TypeParts DEF IInv
<1>2. /\ HandlersOK' /\ handler'[h].stage = "idle"
      /\ \A g \in Handlers \ {h} : handler'[g] = handler[g]
  BY <1>1, NewHandler, IdleSound
<1>3. /\ invoice' \in InvoiceType /\ invoice'.total = n
      /\ invoice'.paid = Smaller(handler[h].sum, n)
  <2>1. handler[h].sum \in Nat
    BY <1>1 DEF HandlersOK, HandlerType
  <2> QED BY <1>1, <2>1, SavedFacts
<1>4. TypeOK'
  BY <1>1, <1>2, <1>3, TypeParts DEF TablesOK, gateway, settings
<1>5. Known' /\ AloneAndFirst'
  BY <1>2 DEF IInv, Known, AloneAndFirst, gateway
<1>6. FirstPaysOff'
  BY DEF FirstPaysOff, FirstSettles
<1>7. SumsAreCurrent'
  BY <1>1, <1>2, <1>3 DEF IInv, SumsAreCurrent
<1> QED BY <1>2, <1>3, <1>4, <1>5, <1>6, <1>7

LEMMA SaveEditHolds ==
  ASSUME IInv, NEW h \in Handlers, NEW n \in 0 .. MaxTotal, NEW v \in BOOLEAN, SaveEdit(h, n, v)
  PROVE  IInv'
<1>1. TypeOK' /\ Known' /\ AloneAndFirst' /\ FirstPaysOff' /\ SumsAreCurrent'
  BY SavesFacts DEF SaveEdit, At
<1>2. OneTotal' /\ SuccessIsAccountedFor'
  BY DEF OneTotal, SuccessIsAccountedFor, SaveEdit
<1> QED BY <1>1, <1>2 DEF IInv

LEMMA SaveVoidHolds == ASSUME IInv, NEW h \in Handlers, SaveVoid(h) PROVE IInv'
<1>1. handler[h].stage = "editing" /\ handler[h].total \in 0 .. MaxTotal
  BY TypeParts DEF IInv, SaveVoid, At, HandlersOK, HandlerType
<1>2. /\ TypeOK' /\ Known' /\ AloneAndFirst' /\ FirstPaysOff' /\ SumsAreCurrent'
      /\ invoice'.total = handler[h].total
      /\ handler'[h].stage = "idle" /\ \A g \in Handlers \ {h} : handler'[g] = handler[g]
  BY <1>1, SavesFacts DEF SaveVoid
<1>3. OneTotal' /\ SuccessIsAccountedFor'
  BY <1>1, <1>2 DEF IInv, OneTotal, SuccessIsAccountedFor, SaveVoid, gateway
<1> QED BY <1>2, <1>3 DEF IInv

(* An invoice is loaded for an edit while nothing has been collected.       *)
LEMMA LoadEditHolds == ASSUME IInv, NEW h \in Handlers, LoadEdit(h) PROVE IInv'
<1> DEFINE k == [Idle EXCEPT !.stage = "editing", !.total = invoice.total]
<1>1. HandlersOK /\ TablesOK /\ handler[h].stage = "idle" /\ collected = 0
  BY TypeParts DEF IInv, LoadEdit, At
<1>2. UNCHANGED <<tables, gateway, settings, failures, dismissed, causes>>
      /\ changes' \in 0 .. MaxChanges
  BY <1>1, GatewayAssumption DEF LoadEdit, TablesOK, GatewayAssumption
<1>3. Sound(k) /\ k.stage = "editing" /\ k.sum = 0 /\ k.total = invoice.total
  <2>1. PICK n \in 0 .. MaxTotal : n = invoice.total
    BY <1>1 DEF TablesOK, InvoiceType
  <2>2. PICK x \in HandlerType : x = Idle /\ x.sum = 0
    BY IdleSound DEF Sound, Idle
  <2> DEFINE y == [x EXCEPT !.stage = "editing", !.total = n]
  <2>3. y \in HandlerType /\ y.stage = "editing" /\ y.sum = x.sum /\ y.total = n
    BY DEF HandlerType, Stages
  <2>4. k = y
    BY <2>1, <2>2
  <2> HIDE DEF y, k
  <2> QED BY <2>1, <2>2, <2>3, <2>4 DEF Sound
<1>4. HandlersOK' /\ handler'[h] = k /\ \A g \in Handlers \ {h} : handler'[g] = handler[g]
  <2>1. handler' = [handler EXCEPT ![h] = k]
    BY DEF LoadEdit
  <2> HIDE DEF k
  <2> QED BY <1>1, <1>3, <2>1, NewHandler
<1> HIDE DEF k
<1>5. TypeOK'
  BY <1>1, <1>2, <1>4, TypeParts DEF TablesOK, tables, settings, gateway
<1>6. Known' /\ AloneAndFirst' /\ SuccessIsAccountedFor'
  BY <1>2, <1>3, <1>4 DEF IInv, Known, AloneAndFirst, SuccessIsAccountedFor, tables, gateway
<1>7. FirstPaysOff' /\ OneTotal'
  BY <1>2, <1>3, <1>4 DEF IInv, FirstPaysOff, FirstSettles, Unpaid, PaidOff, NothingToPay,
     InTransaction, PaidUp, OneTotal,
     tables, gateway
<1>8. SumsAreCurrent'
  BY <1>1, <1>2, <1>3, <1>4 DEF IInv, SumsAreCurrent, tables
<1> QED BY <1>5, <1>6, <1>7, <1>8 DEF IInv

-----------------------------------------------------------------------------
LEMMA StepHolds == ASSUME IInv, [Next]_vars PROVE IInv'
<1>1. CASE \E r \in Refs : \/ Initiate(r) \/ CustomerPays(r)
                           \/ \E n \in 1 .. MaxTotal : CreateIntent(r, n)
  BY <1>1, InitiateHolds, CustomerPaysHolds, CreateIntentHolds
<1>2. CASE \/ BankChanges \/ UNCHANGED vars
           \/ \E r \in Refs : NumbersBarred(r) \/ NumbersFreed(r)
  BY <1>2, SettingsHolds
<1>6. CASE Delete
  BY <1>6, DeleteHolds
<1>3. CASE \E h \in Handlers, r \in Refs : Webhook(h, r) \/ Callback(h, r) \/ Confirm(h, r)
  BY <1>3, ReceiveHolds
<1>4. ASSUME NEW h \in Handlers, Handle(h) PROVE IInv'
  BY <1>4, VerifiedHolds, NotVerifiedHolds, LookHolds, CheckHolds, RecordHolds, CreateHolds,
     HoldHolds, CommitHolds, FollowUpHolds, EnsureHolds, EnsureSaveHolds, SaveEditHolds,
     SaveVoidHolds DEF Handle
<1>5. ASSUME NEW h \in Handlers, LoadEdit(h) \/ Crash(h) PROVE IInv'
  BY <1>5, LoadEditHolds, CrashHolds
<1> QED BY <1>1, <1>2, <1>3, <1>4, <1>5, <1>6 DEF Next

LEMMA Invariance == Spec => []IInv
<1>1. Init => IInv
  BY InitHolds, GatewayAssumption
<1>2. IInv /\ [Next]_vars => IInv'
  BY StepHolds
<1> QED BY <1>1, <1>2, PTL DEF Spec

-----------------------------------------------------------------------------
(* Every variable of the online payments keeps its type.                    *)
THEOREM TypeCorrect == Spec => []TypeOK
<1>1. IInv => TypeOK
  BY DEF IInv
<1> QED BY <1>1, Invariance, PTL

(* A charge is recorded once, unless two handlers record it together on an  *)
(* invoice that was edited or whose payments are not numbered by a counter. *)
THEOREM RecordedOnce == Spec => []OnePaymentPerCharge
<1>1. IInv => OnePaymentPerCharge
  BY DEF IInv, TypeOK, OnePaymentPerCharge, AloneAndFirst, FirstPaysOff, Unpaid, PaidOff,
         NothingToPay
<1> QED BY <1>1, Invariance, PTL

(* The balance is what was collected, unless a payment comes between the    *)
(* read and the save of a repair or an edit.                                *)
THEOREM BalanceHolds == Spec => []BalanceIsCollected
<1>1. IInv => BalanceIsCollected
  BY DEF IInv, BalanceIsCollected, SumsAreCurrent
<1> QED BY <1>1, Invariance, PTL

(* Who is told of success can rely on it: the charge is recorded or paid by *)
(* others.                                                                  *)
THEOREM SuccessHolds == Spec => []SuccessIsAccountedFor
<1>1. IInv => SuccessIsAccountedFor
  BY DEF IInv
<1> QED BY <1>1, Invariance, PTL

=============================================================================
