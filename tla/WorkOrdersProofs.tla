--------------------------- MODULE WorkOrdersProofs ---------------------------
(* Proofs about WorkOrders for any number of request handlers, any choice  *)
(* of profiles and any endpoints in use.                                   *)
EXTENDS WorkOrders, TLAPS, SequenceTheorems

-----------------------------------------------------------------------------
(* Type correctness.                                                       *)

LEMMA NewRowType == ASSUME NEW p, NEW checked \in BOOLEAN PROVE NewRow(p, checked) \in Row
BY ConstantsAssumption DEF NewRow, Row, Status, Fields

LEMMA IdleType == Idle \in Request
<1>1. <<>> \in Seq(Step)
  OBVIOUS
<1> QED BY <1>1, NewRowType DEF Idle, Request, Diagnosis

LEMMA AfterType ==
  ASSUME NEW row \in Row, NEW t \in Status
  PROVE  After(row, t) \in Row
BY DEF After, Row

(* A copy with some columns changed is a row.                              *)
LEMMA CopyType ==
  ASSUME NEW row \in Row, NEW b \in BOOLEAN, NEW S \in SUBSET Fields
  PROVE  /\ [row EXCEPT !.requires = b] \in Row
         /\ [row EXCEPT !.approved = b] \in Row
         /\ [row EXCEPT !.filled = @ \cup S] \in Row
         /\ [row EXCEPT !.filled = @ \ S] \in Row
         /\ [row EXCEPT !.qcDone = b] \in Row
         /\ [row EXCEPT !.qcPassed = b] \in Row
         /\ [row EXCEPT !.qcRequired = b] \in Row
BY DEF Row

LEMMA CheckedType ==
  ASSUME NEW row \in Row, NEW b \in BOOLEAN, NEW c \in BOOLEAN
  PROVE  [row EXCEPT !.qcDone = b, !.qcPassed = c] \in Row
BY DEF Row

LEMMA NotedType ==
  ASSUME wo \in Row, NEW b \in BOOLEAN
  PROVE  Noted(b) \in Row
BY DEF Noted, Row, Fields

LEMMA CompletedType ==
  ASSUME wo \in Row, NEW b \in BOOLEAN
  PROVE  Completed(b) \in Row
<1>1. Noted(b) \in Row
  BY NotedType
<1>2. [Noted(b) EXCEPT !.approved = TRUE] \in Row
  BY <1>1, CopyType
<1>3. "awaiting_approval" \in Status /\ "approved" \in Status
  BY DEF Status
<1>4. /\ After(Noted(b), "awaiting_approval") \in Row
      /\ After(After([Noted(b) EXCEPT !.approved = TRUE], "awaiting_approval"), "approved")
           \in Row
  BY <1>1, <1>2, <1>3, AfterType
<1> QED BY <1>1, <1>2, <1>4 DEF Completed

LEMMA ProceedType ==
  ASSUME request \in [Workers -> Request], NEW w \in Workers,
         request[w].plan # <<>>, NEW copy \in Row, Proceed(w, copy)
  PROVE  request' \in [Workers -> Request]
<1>1. request[w] \in Request
  OBVIOUS
<1>2. Tail(request[w].plan) \in Seq(Step)
  BY <1>1, HeadTailProperties DEF Request
<1>3. [row |-> copy, diag |-> request[w].diag, plan |-> Tail(request[w].plan)] \in Request
  BY <1>1, <1>2 DEF Request
<1> QED BY <1>3, IdleType DEF Proceed

LEMMA PlanType ==
  ASSUME TypeOK, NEW w \in Workers, NEW op, NEW copy \in Row, NEW plan \in Seq(Step),
         Plan(w, op, copy, plan)
  PROVE  TypeOK'
<1>1. [row |-> copy, diag |-> diagnosis, plan |-> plan] \in Request
  BY DEF Request, TypeOK
<1>2. request' \in [Workers -> Request]
  BY <1>1 DEF Plan, TypeOK
<1> QED BY <1>2 DEF Plan, TypeOK, related

LEMMA HeadType ==
  ASSUME TypeOK, NEW w \in Workers, request[w].plan # <<>>
  PROVE  NextStep(w) \in Step /\ request[w].row \in Row
<1>1. request[w] \in Request
  BY DEF TypeOK
<1> QED BY <1>1, HeadTailProperties DEF Request, NextStep

LEMMA TypeInit == Init => TypeOK
<1> SUFFICES ASSUME Init PROVE TypeOK
  OBVIOUS
<1>1. wo \in Row
  <2> PICK checked \in {FALSE, profile = "full_repair"} :
        wo \in {NewRow(profile, checked)} \cup
          IF profile = "routine_fast_track"
          THEN {[NewRow(profile, checked) EXCEPT !.status = "approved"]} ELSE {}
    BY DEF Init
  <2>1. NewRow(profile, checked) \in Row
    BY NewRowType
  <2>2. [NewRow(profile, checked) EXCEPT !.status = "approved"] \in Row
    BY <2>1 DEF Row, Status
  <2> QED BY <2>1, <2>2
<1>2. request \in [Workers -> Request]
  BY IdleType DEF Init
<1> QED BY <1>1, <1>2 DEF Init, TypeOK, Diagnosis

(* Every commit keeps the types.                                           *)
LEMMA CommitType ==
  ASSUME TypeOK, NEW w \in Workers, Commit(w)
  PROVE  TypeOK'
<1>a. ASSUME request[w].plan # <<>> PROVE NextStep(w) \in Step /\ request[w].row \in Row
  BY <1>a, HeadType
<1>b. ASSUME NEW s, At(w, s) PROVE request[w].plan # <<>>
  BY <1>b DEF At
<1>c. wo \in Row /\ request \in [Workers -> Request] /\ diagnosis \in Diagnosis
  BY DEF TypeOK
<1>1. CASE Transition(w)
  <2>1. request[w].row \in Row /\ After(request[w].row, NextStep(w)) \in Row
    BY <1>1, <1>a, AfterType DEF Transition
  <2>2. request' \in [Workers -> Request]
    BY <1>1, <1>c, <2>1, ProceedType DEF Transition
  <2> QED BY <1>1, <2>1, <2>2 DEF Transition, TypeOK
<1>2. CASE SaveRow(w)
  <2>1. request[w].row \in Row /\ request' \in [Workers -> Request]
    BY <1>2, <1>a, <1>b, <1>c, ProceedType DEF SaveRow
  <2> QED BY <1>2, <2>1 DEF SaveRow, TypeOK, related
<1>3. CASE Fill(w)
  <2>1. {NextStep(w)} \in SUBSET Fields /\ request[w].row \in Row
    BY <1>3, <1>a DEF Fill
  <2>2. /\ [wo EXCEPT !.filled = @ \cup {NextStep(w)}] \in Row
        /\ [request[w].row EXCEPT !.filled = @ \cup {NextStep(w)}] \in Row
    BY <1>c, <2>1, CopyType
  <2>3. request' \in [Workers -> Request]
    BY <1>3, <1>c, <2>2, ProceedType DEF Fill
  <2> QED BY <1>3, <2>2, <2>3 DEF Fill, TypeOK, related
<1>4. CASE SetApproval(w)
  <2> PICK step \in {"agree", "unapprove"} :
        /\ At(w, step)
        /\ wo' = [wo EXCEPT !.approved = (step = "agree")]
        /\ Proceed(w, [request[w].row EXCEPT !.approved = (step = "agree")])
        /\ UNCHANGED related
    BY <1>4 DEF SetApproval
  <2>1. (step = "agree") \in BOOLEAN /\ request[w].row \in Row
    BY <1>a, <1>b
  <2>2. /\ [wo EXCEPT !.approved = (step = "agree")] \in Row
        /\ [request[w].row EXCEPT !.approved = (step = "agree")] \in Row
    BY <1>c, <2>1, CopyType
  <2>3. request' \in [Workers -> Request]
    BY <1>b, <1>c, <2>2, ProceedType
  <2> QED BY <2>2, <2>3 DEF TypeOK, related
<1>5. CASE Release(w)
  <2>1. {"technician"} \in SUBSET Fields /\ request[w].row \in Row
    BY <1>5, <1>a, <1>b DEF Release, Fields
  <2>2. [wo EXCEPT !.filled = @ \ {"technician"}] \in Row
    BY <1>c, <2>1, CopyType
  <2>3. request' \in [Workers -> Request]
    BY <1>5, <1>b, <1>c, <2>1, ProceedType DEF Release
  <2> QED BY <1>5, <2>2, <2>3 DEF Release, TypeOK, related
<1>6. CASE \/ SkipTasks(w) \/ CloseTasks(w) \/ ConvertRecommendations(w) \/ InsertPart(w)
           \/ SaveInspection(w) \/ SavePayment(w) \/ GetOrCreateDiagnosis(w)
  <2>1. request[w].plan # <<>> /\ Proceed(w, request[w].row)
    BY <1>6, <1>b DEF SkipTasks, CloseTasks, ConvertRecommendations, InsertPart,
       SaveInspection, SavePayment, GetOrCreateDiagnosis
  <2>2. request' \in [Workers -> Request]
    BY <1>a, <1>c, <2>1, ProceedType
  <2> QED
    BY <1>6, <2>2 DEF SkipTasks, CloseTasks, ConvertRecommendations, InsertPart,
       SaveInspection, SavePayment, GetOrCreateDiagnosis, TypeOK, Diagnosis
<1>7. CASE Reload(w)
  <2>1. request' \in [Workers -> Request]
    BY <1>7, <1>b, <1>c, ProceedType, IdleType DEF Reload
  <2> QED BY <1>7, <2>1 DEF Reload, TypeOK, related
<1>8. ASSUME NEW status \in Diagnosis, NEW row \in Row, request[w].plan # <<>>,
             DiagnosisCommit(w, status, row)
      PROVE  TypeOK'
  <2>1. request' \in [Workers -> Request]
    BY <1>8, <1>c, ProceedType DEF DiagnosisCommit
  <2> QED BY <1>8, <2>1 DEF DiagnosisCommit, TypeOK
<1>d. /\ "paused" \in Diagnosis /\ "in_progress" \in Diagnosis
      /\ "awaiting_approval" \in Diagnosis /\ "completed" \in Diagnosis
      /\ "paused" \in Status /\ "diagnosis" \in Status /\ "awaiting_approval" \in Status
  BY DEF Diagnosis, Status
<1>9. CASE PauseDiagnosis(w)
  <2>1. request[w].plan # <<>> /\ After(request[w].row, "paused") \in Row
    BY <1>9, <1>a, <1>b, <1>d, AfterType DEF PauseDiagnosis
  <2> QED BY <1>9, <1>8, <1>c, <1>d, <2>1 DEF PauseDiagnosis
<1>10. CASE ResumeDiagnosis(w)
  <2>1. request[w].plan # <<>> /\ After(request[w].row, "diagnosis") \in Row
    BY <1>10, <1>a, <1>b, <1>d, AfterType DEF ResumeDiagnosis
  <2> QED BY <1>10, <1>8, <1>c, <1>d, <2>1 DEF ResumeDiagnosis
<1>11. CASE SubmitDiagnosis(w)
  <2>1. request[w].plan # <<>>
    BY <1>11, <1>b DEF SubmitDiagnosis
  <2>2. Noted(TRUE) \in Row /\ After(Noted(TRUE), "awaiting_approval") \in Row
    BY <1>c, <1>d, NotedType, AfterType
  <2> QED BY <1>11, <1>8, <1>d, <2>1, <2>2 DEF SubmitDiagnosis
<1>12. CASE \E requires \in BOOLEAN : CompleteDiagnosisRecord(w, requires)
  <2> PICK requires \in BOOLEAN : CompleteDiagnosisRecord(w, requires)
    BY <1>12
  <2>1. request[w].plan # <<>> /\ Completed(requires) \in Row
    BY <1>b, <1>c, CompletedType DEF CompleteDiagnosisRecord
  <2> QED BY <1>8, <1>d, <2>1 DEF CompleteDiagnosisRecord
<1>13. CASE SyncDiagnosis(w)
  <2>1. request[w].plan # <<>> /\ Completed(TRUE) \in Row /\ request[w].row \in Row
    BY <1>13, <1>a, <1>b, <1>c, CompletedType DEF SyncDiagnosis
  <2>2. CASE diagnosis = "awaiting_approval"
    BY <1>13, <1>8, <1>d, <2>1, <2>2 DEF SyncDiagnosis
  <2>3. CASE diagnosis # "awaiting_approval"
    <3>1. request' \in [Workers -> Request]
      BY <1>13, <1>c, <2>1, <2>3, ProceedType DEF SyncDiagnosis
    <3> QED BY <1>13, <2>3, <3>1 DEF SyncDiagnosis, TypeOK, related
  <2> QED BY <2>2, <2>3
<1>14. CASE ReopenDiagnosis(w)
  <2> DEFINE copy == [request[w].row EXCEPT !.approved = FALSE]
  <2>1. request[w].plan # <<>> /\ request[w].row \in Row
    BY <1>14, <1>a, <1>b DEF ReopenDiagnosis
  <2>2. copy \in Row /\ [wo EXCEPT !.approved = FALSE] \in Row
    BY <1>c, <2>1, CopyType
  <2>3. After(copy, "diagnosis") \in Row
    BY <1>d, <2>2, AfterType
  <2> QED BY <1>14, <1>8, <1>d, <2>1, <2>2, <2>3 DEF ReopenDiagnosis
<1> QED
  BY <1>1, <1>2, <1>3, <1>4, <1>5, <1>6, <1>7, <1>9, <1>10, <1>11, <1>12, <1>13, <1>14
  DEF Commit

-----------------------------------------------------------------------------
(* Every plan is a sequence of steps.                                      *)
LEMMA PlansType ==
  /\ Status \subseteq Step /\ Fields \subseteq Step
  /\ \A a \in Step : <<a>> \in Seq(Step)
  /\ \A a, b \in Step : <<a, b>> \in Seq(Step)
  /\ \A a, b, c \in Step : <<a, b, c>> \in Seq(Step)
  /\ \A a, b, c, d \in Step : <<a, b, c, d>> \in Seq(Step)
  /\ \A a, b, c, d, e, f, g \in Step : <<a, b, c, d, e, f, g>> \in Seq(Step)
<1>1. Status \subseteq Step /\ Fields \subseteq Step
  BY DEF Step
<1> HIDE DEF Step
<1> QED BY <1>1

LEMMA WithType ==
  ASSUME wo \in Row, NEW S \in SUBSET Fields
  PROVE  With(S) \in Row
BY CopyType DEF With

LEMMA PatchedType == ASSUME wo \in Row, NEW f PROVE Patched(f) \in Row
BY DEF Patched, Row

(* The endpoints that move the job along.                                  *)
LEMMA MoveEndpointsType ==
  ASSUME TypeOK, NEW w \in Workers,
         \/ start_intake(w) \/ start_diagnosis(w) \/ request_approval(w)
         \/ complete_diagnosis(w) \/ approve(w) \/ decline(w) \/ start_work(w)
         \/ pause(w) \/ resume(w) \/ flag_additional_work(w)
  PROVE  TypeOK'
<1>1. wo \in Row
  BY DEF TypeOK
<1>2. /\ [wo EXCEPT !.requires = TRUE] \in Row
      /\ [wo EXCEPT !.approved = TRUE] \in Row
      /\ [wo EXCEPT !.approved = FALSE] \in Row
  BY <1>1, CopyType
<1>3. /\ "notes" \in Fields /\ "technician" \in Fields /\ "coordinator" \in Fields
      /\ {"notes"} \in SUBSET Fields
  BY DEF Fields
<1>4. /\ [With({"notes"}) EXCEPT !.requires = TRUE] \in Row
      /\ [With({"notes"}) EXCEPT !.requires = FALSE] \in Row
  BY <1>1, <1>3, WithType, CopyType
<1>5. /\ "save" \in Step /\ "agree" \in Step /\ "unapprove" \in Step /\ "convert" \in Step
      /\ "create_diagnosis" \in Step /\ "sync" \in Step /\ "reopen" \in Step
      /\ "d_resume" \in Step
      /\ "technician" \in Step /\ "coordinator" \in Step /\ "intake" \in Step
      /\ "assigned" \in Step /\ "diagnosis" \in Step /\ "awaiting_approval" \in Step
      /\ "approved" \in Step /\ "in_progress" \in Step /\ "paused" \in Step
      /\ "additional_work_found" \in Step
  BY DEF Step, Status, Fields
<1>6. /\ <<"intake">> \in Seq(Step) /\ <<"coordinator", "assigned">> \in Seq(Step)
      /\ <<>> \in Seq(Step)
      /\ <<"diagnosis", "create_diagnosis">> \in Seq(Step)
      /\ <<"awaiting_approval">> \in Seq(Step)
      /\ <<"save", "awaiting_approval">> \in Seq(Step)
      /\ <<"save", "agree", "awaiting_approval", "approved", "sync", "convert",
           "in_progress">> \in Seq(Step)
      /\ <<"approved", "sync">> \in Seq(Step) /\ <<"approved">> \in Seq(Step)
      /\ <<"unapprove", "reopen">> \in Seq(Step)
      /\ <<"unapprove", "diagnosis">> \in Seq(Step)
      /\ <<"convert", "in_progress">> \in Seq(Step)
      /\ <<"technician", "convert", "in_progress">> \in Seq(Step)
      /\ <<"paused">> \in Seq(Step) /\ <<"d_resume">> \in Seq(Step)
      /\ <<"diagnosis">> \in Seq(Step) /\ <<"in_progress">> \in Seq(Step)
      /\ <<"additional_work_found">> \in Seq(Step)
  BY <1>5, PlansType
<1>7. CASE start_intake(w)
  <2> PICK given \in BOOLEAN :
        Plan(w, "start_intake", wo,
             (IF wo.status = "intake" THEN <<>> ELSE <<"intake">>)
             \o (IF given \/ "coordinator" \in wo.filled
                 THEN <<"coordinator", "assigned">> ELSE <<>>))
    BY <1>7 DEF start_intake
  <2>1. (IF wo.status = "intake" THEN <<>> ELSE <<"intake">>)
          \o (IF given \/ "coordinator" \in wo.filled
              THEN <<"coordinator", "assigned">> ELSE <<>>) \in Seq(Step)
    BY <1>6, ConcatProperties
  <2> QED BY <1>1, <2>1, PlanType
<1>8. CASE start_diagnosis(w) \/ pause(w) \/ flag_additional_work(w)
  BY <1>1, <1>6, <1>8, PlanType DEF start_diagnosis, pause, flag_additional_work
<1>9. CASE request_approval(w) \/ complete_diagnosis(w)
  BY <1>2, <1>4, <1>6, <1>9, PlanType DEF request_approval, complete_diagnosis
<1>10. CASE approve(w) \/ decline(w)
  BY <1>2, <1>6, <1>10, PlanType DEF approve, decline
<1>11. CASE start_work(w) \/ resume(w)
  BY <1>1, <1>6, <1>11, PlanType DEF start_work, resume
<1> QED BY <1>7, <1>8, <1>9, <1>10, <1>11

(* The endpoints from the quality check to the gate, and those of the      *)
(* records beside the work order.                                          *)
LEMMA OtherEndpointsType ==
  ASSUME TypeOK, NEW w \in Workers,
         \/ request_quality_check(w) \/ quality_check(w) \/ complete(w) \/ mark_invoiced(w)
         \/ close(w) \/ discontinue_job(w) \/ set_status(w) \/ edit(w)
         \/ release_assignment(w) \/ complete_task(w) \/ add_part(w)
         \/ approve_inspection(w) \/ pay_invoice(w) \/ diagnosis_action(w)
  PROVE  TypeOK'
<1>1. wo \in Row
  BY DEF TypeOK
<1>2. /\ {} \in SUBSET Fields /\ {"odometer"} \in SUBSET Fields
      /\ {"reason"} \in SUBSET Fields
  BY DEF Fields
<1>3. /\ "save" \in Step /\ "skip_tasks" \in Step /\ "release" \in Step
      /\ "close_tasks" \in Step /\ "add_part" \in Step /\ "approve_inspection" \in Step
      /\ "pay" \in Step /\ "reload" \in Step /\ "d_pause" \in Step /\ "d_resume" \in Step
      /\ "d_submit" \in Step /\ "d_complete" \in Step /\ "d_complete_free" \in Step
      /\ "reopen" \in Step /\ "inspector" \in Step /\ "odometer" \in Step
      /\ "quality_check" \in Step /\ "completed" \in Step /\ "in_progress" \in Step
      /\ "invoiced" \in Step /\ "closed" \in Step /\ "discontinued_pending_bill" \in Step
      /\ "additional_work_found" \in Step /\ "intake" \in Step
  BY DEF Step, Status, Fields
<1>4. /\ <<"inspector">> \in Seq(Step) /\ <<"inspector", "quality_check">> \in Seq(Step)
      /\ <<"completed">> \in Seq(Step) /\ <<"in_progress">> \in Seq(Step)
      /\ <<"odometer", "invoiced">> \in Seq(Step) /\ <<"closed">> \in Seq(Step)
      /\ <<"skip_tasks", "discontinued_pending_bill">> \in Seq(Step)
      /\ <<"save">> \in Seq(Step) /\ <<"release">> \in Seq(Step)
      /\ <<"close_tasks", "quality_check">> \in Seq(Step) /\ <<"close_tasks">> \in Seq(Step)
      /\ <<"add_part", "additional_work_found">> \in Seq(Step)
      /\ <<"add_part">> \in Seq(Step)
      /\ <<"approve_inspection", "intake">> \in Seq(Step)
      /\ <<"approve_inspection">> \in Seq(Step)
      /\ <<"pay", "reload", "odometer", "invoiced">> \in Seq(Step)
      /\ <<"pay", "reload", "invoiced">> \in Seq(Step)
      /\ <<"d_pause">> \in Seq(Step) /\ <<"d_resume">> \in Seq(Step)
      /\ <<"d_submit">> \in Seq(Step) /\ <<"d_complete">> \in Seq(Step)
      /\ <<"d_complete_free">> \in Seq(Step) /\ <<"reopen">> \in Seq(Step)
  BY <1>3, PlansType
<1>5. CASE request_quality_check(w) \/ mark_invoiced(w) \/ close(w)
  BY <1>1, <1>4, <1>5, PlanType DEF request_quality_check, mark_invoiced, close
<1>6. CASE quality_check(w)
  <2> PICK passed \in BOOLEAN, read \in {{}, {"odometer"}} :
        Plan(w, "quality_check", Checked(With(read), passed),
             IF passed THEN <<"completed">> ELSE <<"in_progress">>)
    BY <1>6 DEF quality_check
  <2>1. With(read) \in Row
    BY <1>1, <1>2, WithType
  <2>2. Checked(With(read), passed) \in Row
    BY <2>1, CheckedType DEF Checked
  <2> QED BY <1>4, <2>2, PlanType
<1>7. CASE complete(w)
  <2> PICK read \in {{}, {"odometer"}} :
        Plan(w, "complete",
             [With(read) EXCEPT !.qcDone = @ \/ ~wo.qcRequired,
                                !.qcPassed = @ \/ ~wo.qcRequired],
             <<"completed">>)
    BY <1>7 DEF complete
  <2>1. With(read) \in Row
    BY <1>1, <1>2, WithType
  <2>2. wo.qcRequired \in BOOLEAN
    BY <1>1 DEF Row
  <2>3. [With(read) EXCEPT !.qcDone = @ \/ ~wo.qcRequired,
                           !.qcPassed = @ \/ ~wo.qcRequired] \in Row
    BY <2>1, <2>2 DEF Row
  <2> QED BY <1>4, <2>3, PlanType
<1>8. CASE discontinue_job(w)
  BY <1>1, <1>2, <1>4, <1>8, WithType, PlanType DEF discontinue_job
<1>9. CASE set_status(w)
  <2> PICK t \in Targets : Plan(w, "set_status", wo, <<t>>)
    BY <1>9 DEF set_status
  <2>1. t \in Step
    BY ConstantsAssumption, PlansType
  <2> QED BY <1>1, <2>1, PlansType, PlanType
<1>10. CASE edit(w)
  <2>1. CASE \E f \in {"coordinator", "technician", "notes", "odometer"} \ wo.filled :
               Plan(w, "edit", With({f}), <<"save">>)
    <3> PICK f \in {"coordinator", "technician", "notes", "odometer"} :
          Plan(w, "edit", With({f}), <<"save">>)
      BY <2>1
    <3>1. {f} \in SUBSET Fields
      BY DEF Fields
    <3> QED BY <1>1, <1>4, <3>1, WithType, PlanType
  <2>2. ASSUME NEW f \in PatchedFlags, NEW plan \in Seq(Step),
               Plan(w, "edit", Patched(f), plan)
        PROVE  TypeOK'
    <3>1. Patched(f) \in Row
      BY <1>1, PatchedType
    <3> QED BY <2>2, <3>1, PlanType
  <2>3. \A t \in Targets : <<t>> \in Seq(Step)
    BY ConstantsAssumption, PlansType
  <2> QED BY <1>4, <1>10, <2>1, <2>2, <2>3 DEF edit
<1>11. CASE release_assignment(w) \/ complete_task(w) \/ add_part(w)
  BY <1>1, <1>4, <1>11, PlanType DEF release_assignment, complete_task, add_part
<1>12. CASE approve_inspection(w) \/ pay_invoice(w) \/ diagnosis_action(w)
  BY <1>1, <1>4, <1>12, PlanType DEF approve_inspection, pay_invoice, diagnosis_action
<1> QED BY <1>5, <1>6, <1>7, <1>8, <1>9, <1>10, <1>11, <1>12

(* The row the edit form saves.                                            *)
Filled(s, given) ==
  [wo EXCEPT !.status = s, !.filled = (@ \ {"technician", "notes"}) \cup given]

LEMMA FilledType ==
  ASSUME wo \in Row, NEW s \in Status, NEW given \in SUBSET {"technician", "notes"}
  PROVE  Filled(s, given) \in Row
BY DEF Filled, Row, Fields

(* The back doors and an aborted request.                                  *)
LEMMA DirectType ==
  ASSUME TypeOK, NEW w \in Workers,
         dvi_form(w) \/ mobile_quick_update(w) \/ workorder_edit_view(w) \/ Abort(w)
  PROVE  TypeOK'
<1>1. <<"save">> \in Seq(Step)
  BY PlansType DEF Step
<1>2. \A s \in Status : [wo EXCEPT !.status = s] \in Row
  BY DEF TypeOK, Row
<1>3. \A s \in Status :
        [row |-> [wo EXCEPT !.status = s], diag |-> diagnosis, plan |-> <<"save">>] \in Request
  BY <1>1, <1>2 DEF Request, TypeOK
<1>4. CASE dvi_form(w)
  <2>1. "intake" \in Status
    BY DEF Status
  <2>2. request' \in [Workers -> Request]
    BY <1>3, <1>4, <2>1 DEF dvi_form, TypeOK
  <2> QED BY <1>4, <2>2 DEF dvi_form, TypeOK
<1>5. CASE mobile_quick_update(w)
  <2>1. request' \in [Workers -> Request]
    BY <1>3, <1>5, ConstantsAssumption DEF mobile_quick_update, TypeOK
  <2> QED BY <1>5, <2>1 DEF mobile_quick_update, TypeOK, related
<1>6. CASE Abort(w)
  <2>1. request' \in [Workers -> Request]
    BY <1>6, IdleType DEF Abort, TypeOK
  <2> QED BY <1>6, <2>1 DEF Abort, TypeOK, related
<1>7. CASE workorder_edit_view(w)
  <2> PICK s \in DirectStatuses \cup {wo.status}, given \in SUBSET {"technician", "notes"} :
        request' = [request EXCEPT ![w] = [row |-> Filled(s, given), diag |-> diagnosis,
                                           plan |-> <<"save">>]]
    BY <1>7 DEF workorder_edit_view, Filled
  <2>1. s \in Status
    BY ConstantsAssumption DEF TypeOK, Row
  <2>2. Filled(s, given) \in Row
    BY <2>1, FilledType DEF TypeOK
  <2>3. [row |-> Filled(s, given), diag |-> diagnosis, plan |-> <<"save">>] \in Request
    BY <1>1, <2>2 DEF Request, TypeOK
  <2>4. request' \in [Workers -> Request]
    BY <2>3 DEF TypeOK
  <2> QED BY <1>7, <2>4 DEF workorder_edit_view, TypeOK, related
<1> QED BY <1>4, <1>5, <1>6, <1>7

LEMMA SingleType == ASSUME TypeOK, Single PROVE TypeOK'
BY DEF Single, TypeOK, Diagnosis, complete_inspection, reject_inspection, start_task,
   create_task, skip_task, resolve_part, create_diagnosis, start_diagnosis_record,
   create_invoice, issue_invoice, void_invoice

LEMMA TypeNext == TypeOK /\ [Next]_vars => TypeOK'
<1> SUFFICES ASSUME TypeOK, [Next]_vars PROVE TypeOK'
  OBVIOUS
<1>1. CASE Single
  BY <1>1, SingleType
<1>2. ASSUME NEW w \in Workers, Endpoint(w) \/ Commit(w) \/ Abort(w) PROVE TypeOK'
  BY <1>2, MoveEndpointsType, OtherEndpointsType, DirectType, CommitType DEF Endpoint
<1>3. CASE UNCHANGED vars
  BY <1>3 DEF vars, TypeOK
<1> QED BY <1>1, <1>2, <1>3 DEF Next

(* Type correctness: no endpoint leaves a row, a stale copy or a plan that  *)
(* the code could not read back, for any number of request handlers.       *)
THEOREM TypeCorrect == Spec => []TypeOK
<1> QED BY TypeInit, TypeNext, PTL DEF Spec

-----------------------------------------------------------------------------
(* What every row and every stale copy of it agree on.  A copy may be saved  *)
(* over the row at any later moment, so the invariant must hold of copies.   *)

PausedOK(row) == row.status = "paused" <=> row.pausedFrom # "none"

QualityOK(p, row) ==
  /\ p \notin {"inspection_only", "diagnostic_only"} /\ row.qcRequired
       /\ row.status \in {"completed", "invoiced", "closed"}
       => row.qcDone \/ "reason" \in row.filled
  /\ row.status = "discontinued_pending_bill" => "reason" \in row.filled

(* The check is never unmade nor asked for later by an edit, and no view    *)
(* that bypasses the guards sets a late status.                            *)
LateStatuses == {"completed", "invoiced", "closed", "discontinued_pending_bill"}
QcKept ==
  PatchedFlags \cap {"qcDone", "qcDemanded"} = {} /\ DirectStatuses \cap LateStatuses = {}

RowOK(p, row) ==
  (BackDoors = {} => PausedOK(row)) /\ (QcKept => QualityOK(p, row))

RowsOK == RowOK(profile, wo) /\ \A w \in Workers : RowOK(profile, request[w].row)

IInv == TypeOK /\ RowsOK

LEMMA NewRowOK == ASSUME NEW p, NEW q, NEW checked PROVE RowOK(p, NewRow(q, checked))
BY DEF RowOK, PausedOK, QualityOK, NewRow

LEMMA IdleOK == ASSUME NEW p PROVE RowOK(p, Idle.row)
<1>1. Idle.row = NewRow("full_repair", TRUE)
  BY DEF Idle
<1> QED BY <1>1, NewRowOK

(* Where the late statuses are entered from.                               *)
LEMMA EntryStatuses ==
  ASSUME NEW s \in Status, NEW t \in Status, profile \in Profiles, Allowed(s, t)
  PROVE  /\ t = "invoiced" => s \in {"completed", "discontinued_pending_bill"}
         /\ t = "closed" => s = "invoiced"
<1>1. profile \in AllProfiles
  BY ConstantsAssumption
<1>2. CASE t = "invoiced"
  <2>1. <<s, t>> \notin ExtraTransitions[profile]
    BY <1>1, <1>2 DEF ExtraTransitions, AllProfiles
  <2> QED BY <1>2, <2>1 DEF Allowed, VALID_TRANSITIONS, Status
<1>3. CASE t = "closed"
  <2>1. <<s, t>> \notin ExtraTransitions[profile]
    BY <1>1, <1>3 DEF ExtraTransitions, AllProfiles
  <2> QED BY <1>3, <2>1 DEF Allowed, VALID_TRANSITIONS, Status
<1> QED BY <1>2, <1>3

(* The row a transition writes is in order when its guard held of the copy  *)
(* it was computed from, or when the new status promises nothing.           *)
LEMMA AfterOK ==
  ASSUME NEW row \in Row, NEW t \in Status, profile \in Profiles, RowOK(profile, row),
         \/ Guard(row, t)
         \/ t \notin {"completed", "invoiced", "closed", "discontinued_pending_bill"}
  PROVE  RowOK(profile, After(row, t))
<1>1. ASSUME BackDoors = {} PROVE PausedOK(After(row, t))
  BY <1>1 DEF RowOK, PausedOK, After, Row, Status
<1>2. ASSUME QcKept PROVE QualityOK(profile, After(row, t))
  <2>1. QualityOK(profile, row) /\ row.status \in Status
    BY <1>2 DEF RowOK, Row
  <2>2. CASE t \notin {"completed", "invoiced", "closed", "discontinued_pending_bill"}
    BY <2>2 DEF QualityOK, After
  <2>3. CASE t = "completed" /\ Guard(row, t)
    BY <2>3 DEF QualityOK, After, Guard, FastTrack, Completable
  <2>4. CASE t \in {"invoiced", "closed"} /\ Guard(row, t)
    <3>1. Allowed(row.status, t)
      BY <2>4 DEF Guard, FastTrack
    <3> QED BY <2>1, <2>4, <3>1, EntryStatuses DEF QualityOK, After
  <2>5. CASE t = "discontinued_pending_bill" /\ Guard(row, t)
    BY <2>5 DEF QualityOK, After, Guard, FastTrack
  <2> QED BY <2>2, <2>3, <2>4, <2>5
<1> QED BY <1>1, <1>2 DEF RowOK

(* A change that keeps the status, the check and the reason, and asks for   *)
(* no check that was not asked for, keeps a row in order.                  *)
LEMMA SameRowOK ==
  ASSUME NEW p, NEW row, NEW copy, RowOK(p, row),
         copy.status = row.status, copy.pausedFrom = row.pausedFrom,
         row.qcDone => copy.qcDone, copy.qcRequired => row.qcRequired,
         "reason" \in row.filled => "reason" \in copy.filled
  PROVE  RowOK(p, copy)
BY DEF RowOK, PausedOK, QualityOK

LEMMA CopyOK ==
  ASSUME NEW p, NEW row \in Row, RowOK(p, row), NEW b \in BOOLEAN, NEW f
  PROVE  /\ RowOK(p, [row EXCEPT !.requires = b])
         /\ RowOK(p, [row EXCEPT !.approved = b])
         /\ RowOK(p, [row EXCEPT !.filled = @ \cup {f}])
         /\ RowOK(p, [row EXCEPT !.filled = @ \ {"technician"}])
<1>1. RowOK(p, [row EXCEPT !.requires = b])
  BY SameRowOK DEF Row
<1>2. RowOK(p, [row EXCEPT !.approved = b])
  BY SameRowOK DEF Row
<1>3. RowOK(p, [row EXCEPT !.filled = @ \cup {f}])
  BY SameRowOK DEF Row
<1>4. RowOK(p, [row EXCEPT !.filled = @ \ {"technician"}])
  BY SameRowOK DEF Row
<1> QED BY <1>1, <1>2, <1>3, <1>4

LEMMA WithOK ==
  ASSUME NEW p, wo \in Row, RowOK(p, wo), NEW S \in SUBSET Fields
  PROVE  RowOK(p, With(S))
BY SameRowOK DEF With, Row

LEMMA NotedOK ==
  ASSUME NEW p, wo \in Row, RowOK(p, wo), NEW b \in BOOLEAN
  PROVE  RowOK(p, Noted(b))
<1>1. /\ Noted(b).status = wo.status /\ Noted(b).pausedFrom = wo.pausedFrom
      /\ Noted(b).qcDone = wo.qcDone /\ Noted(b).qcRequired = wo.qcRequired
  BY DEF Noted, Row
<1>2. Noted(b).filled = wo.filled \cup {"notes"}
  BY DEF Noted, Row
<1> QED BY <1>1, <1>2, SameRowOK

LEMMA CompletedOK ==
  ASSUME wo \in Row, profile \in Profiles, RowOK(profile, wo), NEW b \in BOOLEAN
  PROVE  RowOK(profile, Completed(b))
<1> DEFINE noted == Noted(b)
           agreed == [noted EXCEPT !.approved = TRUE]
<1>1. noted \in Row /\ RowOK(profile, noted)
  BY NotedType, NotedOK
<1>2. agreed \in Row /\ RowOK(profile, agreed)
  BY <1>1, CopyType, CopyOK
<1>3. "awaiting_approval" \in Status /\ "approved" \in Status
  BY DEF Status
<1>4. /\ After(agreed, "awaiting_approval") \in Row
      /\ RowOK(profile, After(noted, "awaiting_approval"))
      /\ RowOK(profile, After(agreed, "awaiting_approval"))
  BY <1>1, <1>2, <1>3, AfterType, AfterOK
<1>5. RowOK(profile, After(After(agreed, "awaiting_approval"), "approved"))
  BY <1>3, <1>4, AfterOK
<1> QED BY <1>1, <1>2, <1>4, <1>5 DEF Completed

LEMMA ProceedOK ==
  ASSUME TypeOK, RowsOK, NEW w \in Workers, NEW copy, RowOK(profile, copy), Proceed(w, copy),
         profile' = profile
  PROVE  \A v \in Workers : RowOK(profile', request'[v].row)
<1>1. RowOK(profile, Idle.row)
  BY IdleOK
<1>2. \A v \in Workers : request'[v].row \in {request[v].row, copy, Idle.row}
  BY DEF Proceed, TypeOK
<1> QED BY <1>1, <1>2 DEF RowsOK

(* A commit that writes a row in order keeps every row in order.           *)
LEMMA CommitStepOK ==
  ASSUME IInv, NEW w \in Workers, NEW copy, RowOK(profile, copy), Proceed(w, copy),
         profile' = profile, RowOK(profile, wo')
  PROVE  RowsOK'
BY ProceedOK DEF RowsOK, IInv

LEMMA CommitOK ==
  ASSUME IInv, NEW w \in Workers, Commit(w)
  PROVE  RowsOK'
<1> DEFINE copy == request[w].row
<1>a. request[w].plan # <<>> => NextStep(w) \in Step /\ copy \in Row
  BY HeadType DEF IInv
<1>b. \A s : At(w, s) => request[w].plan # <<>>
  BY DEF At
<1>c. /\ TypeOK /\ wo \in Row /\ profile \in Profiles
      /\ RowOK(profile, wo) /\ RowOK(profile, copy)
  BY DEF IInv, TypeOK, RowsOK
<1> HIDE DEF copy
<1>1. CASE Transition(w)
  <2>1. /\ copy \in Row /\ NextStep(w) \in Status /\ Guard(copy, NextStep(w))
        /\ wo' = After(copy, NextStep(w)) /\ Proceed(w, After(copy, NextStep(w)))
        /\ profile' = profile
    BY <1>1, <1>a DEF Transition, copy
  <2>2. RowOK(profile, After(copy, NextStep(w)))
    BY <1>c, <2>1, AfterOK
  <2> QED BY <2>1, <2>2, CommitStepOK
<1>2. CASE SaveRow(w)
  BY <1>2, <1>c, CommitStepOK DEF SaveRow, copy, related
<1>3. CASE Fill(w)
  <2> DEFINE f == NextStep(w)
  <2>1. /\ copy \in Row /\ wo' = [wo EXCEPT !.filled = @ \cup {f}]
        /\ Proceed(w, [copy EXCEPT !.filled = @ \cup {f}]) /\ profile' = profile
    BY <1>3, <1>a DEF Fill, copy, related
  <2> HIDE DEF f
  <2>2. /\ RowOK(profile, [wo EXCEPT !.filled = @ \cup {f}])
        /\ RowOK(profile, [copy EXCEPT !.filled = @ \cup {f}])
    BY <1>c, <2>1, CopyOK
  <2> QED BY <2>1, <2>2, CommitStepOK
<1>4. CASE SetApproval(w)
  <2> PICK step \in {"agree", "unapprove"} :
        /\ At(w, step)
        /\ wo' = [wo EXCEPT !.approved = (step = "agree")]
        /\ Proceed(w, [copy EXCEPT !.approved = (step = "agree")])
        /\ UNCHANGED related
    BY <1>4 DEF SetApproval, copy
  <2> DEFINE b == step = "agree"
  <2>1. /\ b \in BOOLEAN /\ copy \in Row /\ wo' = [wo EXCEPT !.approved = b]
        /\ Proceed(w, [copy EXCEPT !.approved = b]) /\ profile' = profile
    BY <1>a, <1>b DEF related
  <2> HIDE DEF b
  <2>2. /\ RowOK(profile, [wo EXCEPT !.approved = b])
        /\ RowOK(profile, [copy EXCEPT !.approved = b])
    BY <1>c, <2>1, CopyOK
  <2> QED BY <2>1, <2>2, CommitStepOK
<1>5. CASE Release(w)
  <2>1. /\ wo' = [wo EXCEPT !.filled = @ \ {"technician"}] /\ Proceed(w, copy)
        /\ profile' = profile
    BY <1>5 DEF Release, copy, related
  <2>2. RowOK(profile, [wo EXCEPT !.filled = @ \ {"technician"}])
    BY <1>c, CopyOK
  <2> QED BY <1>c, <2>1, <2>2, CommitStepOK
<1>6. CASE \/ SkipTasks(w) \/ CloseTasks(w) \/ ConvertRecommendations(w) \/ InsertPart(w)
           \/ SaveInspection(w) \/ SavePayment(w) \/ GetOrCreateDiagnosis(w)
  <2>1. Proceed(w, copy) /\ wo' = wo /\ profile' = profile
    BY <1>6 DEF SkipTasks, CloseTasks, ConvertRecommendations, InsertPart,
       SaveInspection, SavePayment, GetOrCreateDiagnosis, copy
  <2> QED BY <1>c, <2>1, CommitStepOK
<1>7. CASE Reload(w)
  <2>1. wo' = wo /\ profile' = profile
    BY <1>7 DEF Reload, related
  <2>2. CASE Proceed(w, wo)
    BY <1>c, <2>1, <2>2, CommitStepOK
  <2>3. CASE request' = [request EXCEPT ![w] = Idle]
    <3>1. \A v \in Workers : request'[v].row \in {request[v].row, Idle.row}
      BY <1>c, <2>3 DEF TypeOK
    <3> QED BY <2>1, <3>1, IdleOK DEF IInv, RowsOK
  <2> QED BY <1>7, <2>2, <2>3 DEF Reload
<1>8. ASSUME NEW status, NEW row, DiagnosisCommit(w, status, row), RowOK(profile, row)
      PROVE  RowsOK'
  BY <1>8, CommitStepOK DEF DiagnosisCommit
<1>d. "paused" \in Status /\ "diagnosis" \in Status /\ "awaiting_approval" \in Status
  BY DEF Status
<1>9. CASE PauseDiagnosis(w)
  <2>1. RowOK(profile, After(copy, "paused"))
    BY <1>9, <1>a, <1>b, <1>c, <1>d, AfterOK DEF PauseDiagnosis
  <2> QED BY <1>9, <1>8, <1>c, <2>1 DEF PauseDiagnosis, copy
<1>10. CASE ResumeDiagnosis(w)
  <2>1. RowOK(profile, After(copy, "diagnosis"))
    BY <1>10, <1>a, <1>b, <1>c, <1>d, AfterOK DEF ResumeDiagnosis
  <2> QED BY <1>10, <1>8, <1>c, <2>1 DEF ResumeDiagnosis, copy
<1>11. CASE SubmitDiagnosis(w)
  <2>1. Noted(TRUE) \in Row /\ RowOK(profile, Noted(TRUE))
    BY <1>c, NotedType, NotedOK
  <2>2. RowOK(profile, After(Noted(TRUE), "awaiting_approval"))
    BY <1>c, <1>d, <2>1, AfterOK
  <2> QED BY <1>11, <1>8, <2>1, <2>2 DEF SubmitDiagnosis
<1>12. CASE \E requires \in BOOLEAN : CompleteDiagnosisRecord(w, requires)
  BY <1>12, <1>8, <1>c, CompletedOK DEF CompleteDiagnosisRecord
<1>13. CASE SyncDiagnosis(w)
  <2>1. CASE diagnosis = "awaiting_approval"
    BY <1>13, <1>8, <1>c, <2>1, CompletedOK DEF SyncDiagnosis
  <2>2. CASE diagnosis # "awaiting_approval"
    BY <1>13, <1>c, <2>2, CommitStepOK DEF SyncDiagnosis, copy, related
  <2> QED BY <2>1, <2>2
<1>14. CASE ReopenDiagnosis(w)
  <2> DEFINE open == [copy EXCEPT !.approved = FALSE]
  <2>1. copy \in Row
    BY <1>14, <1>a, <1>b DEF ReopenDiagnosis
  <2>2. /\ open \in Row /\ RowOK(profile, open)
        /\ RowOK(profile, [wo EXCEPT !.approved = FALSE])
    BY <1>c, <2>1, CopyType, CopyOK
  <2>3. RowOK(profile, After(open, "diagnosis"))
    BY <1>c, <1>d, <2>2, AfterOK
  <2>4. \/ DiagnosisCommit(w, "in_progress", After(open, "diagnosis"))
        \/ DiagnosisCommit(w, "in_progress", [wo EXCEPT !.approved = FALSE])
    BY <1>14 DEF ReopenDiagnosis, copy
  <2> QED BY <1>8, <2>2, <2>3, <2>4
<1> QED
  BY <1>1, <1>2, <1>3, <1>4, <1>5, <1>6, <1>7, <1>9, <1>10, <1>11, <1>12, <1>13, <1>14
  DEF Commit

LEMMA PlanOK ==
  ASSUME IInv, NEW w \in Workers, NEW op, NEW row, NEW plan, Plan(w, op, row, plan),
         RowOK(profile, row)
  PROVE  RowsOK'
<1>1. \A v \in Workers : request'[v].row \in {request[v].row, row}
  BY DEF Plan, IInv, TypeOK
<1> QED BY <1>1 DEF Plan, RowsOK, IInv, related

(* The row a view that sets the status saves: a status that is not late     *)
(* promises nothing, and the form that keeps the status keeps the check.   *)
LEMMA DirectOK ==
  ASSUME wo \in Row, RowOK(profile, wo), BackDoors # {}, NEW s,
         NEW copy, copy.status = s, s \notin LateStatuses \/ s = wo.status \/ ~QcKept,
         copy.qcRequired = wo.qcRequired, copy.qcDone = wo.qcDone,
         "reason" \in wo.filled => "reason" \in copy.filled
  PROVE  RowOK(profile, copy)
BY DEF RowOK, QualityOK, LateStatuses

(* An endpoint loads a row in order and changes it into one.               *)
LEMMA EndpointOK ==
  ASSUME IInv, NEW w \in Workers, Endpoint(w)
  PROVE  RowsOK'
<1>1. wo \in Row /\ RowOK(profile, wo)
  BY DEF IInv, TypeOK, RowsOK
<1>2. /\ RowOK(profile, [wo EXCEPT !.requires = TRUE])
      /\ RowOK(profile, [wo EXCEPT !.approved = TRUE])
      /\ RowOK(profile, [wo EXCEPT !.approved = FALSE])
  BY <1>1, CopyOK
<1>3. \A S \in SUBSET Fields : With(S) \in Row /\ RowOK(profile, With(S))
  BY <1>1, WithType, WithOK
<1>4. /\ {"notes"} \in SUBSET Fields /\ {} \in SUBSET Fields /\ {"odometer"} \in SUBSET Fields
      /\ {"reason"} \in SUBSET Fields
      /\ \A f \in {"coordinator", "technician", "notes", "odometer"} : {f} \in SUBSET Fields
  BY DEF Fields
<1>5. CASE complete_diagnosis(w)
  <2>1. /\ RowOK(profile, [With({"notes"}) EXCEPT !.requires = TRUE])
        /\ RowOK(profile, [With({"notes"}) EXCEPT !.requires = FALSE])
    BY <1>3, <1>4, CopyOK
  <2> QED BY <1>5, <2>1, PlanOK DEF complete_diagnosis
<1>6. CASE approve(w) \/ decline(w) \/ request_approval(w)
  BY <1>2, <1>6, PlanOK DEF approve, decline, request_approval
<1>7. CASE \/ start_intake(w) \/ start_diagnosis(w) \/ start_work(w) \/ pause(w) \/ resume(w)
           \/ flag_additional_work(w) \/ request_quality_check(w)
  BY <1>1, <1>7, PlanOK DEF start_intake, start_diagnosis, start_work, pause, resume,
     flag_additional_work, request_quality_check
<1>8. CASE quality_check(w)
  <2>0. PICK passed \in BOOLEAN, read \in {{}, {"odometer"}} :
         \E plan : Plan(w, "quality_check", Checked(With(read), passed), plan)
    BY <1>8 DEF quality_check
  <2>1. With(read) \in Row /\ RowOK(profile, With(read))
    BY <1>3, <1>4
  <2> DEFINE row == With(read)
  <2> HIDE DEF row
  <2>2. /\ Checked(row, passed).status = row.status /\ Checked(row, passed).qcDone
        /\ Checked(row, passed).qcRequired = row.qcRequired
        /\ Checked(row, passed).pausedFrom = row.pausedFrom
        /\ Checked(row, passed).filled = row.filled
    BY <2>1 DEF Checked, Row, row
  <2>3. RowOK(profile, Checked(row, passed))
    BY <2>1, <2>2, SameRowOK DEF row
  <2> QED BY <2>0, <2>3, PlanOK DEF row
<1>9. CASE complete(w)
  <2> PICK read \in {{}, {"odometer"}} :
        Plan(w, "complete",
             [With(read) EXCEPT !.qcDone = @ \/ ~wo.qcRequired,
                                !.qcPassed = @ \/ ~wo.qcRequired],
             <<"completed">>)
    BY <1>9 DEF complete
  <2> DEFINE done == [With(read) EXCEPT !.qcDone = @ \/ ~wo.qcRequired,
                                        !.qcPassed = @ \/ ~wo.qcRequired]
  <2>1. With(read) \in Row /\ RowOK(profile, With(read))
    BY <1>3, <1>4
  <2>2. /\ done.status = With(read).status /\ done.pausedFrom = With(read).pausedFrom
        /\ With(read).qcDone => done.qcDone
        /\ done.qcRequired = With(read).qcRequired
    BY <2>1 DEF Row
  <2>3. done.filled = With(read).filled
    BY <2>1 DEF Row
  <2> HIDE DEF done
  <2>4. RowOK(profile, done)
    BY <2>1, <2>2, <2>3, SameRowOK
  <2> QED BY <2>4, PlanOK DEF done
<1>10. CASE discontinue_job(w)
  BY <1>3, <1>4, <1>10, PlanOK DEF discontinue_job
<1>11. CASE \/ mark_invoiced(w) \/ close(w) \/ set_status(w) \/ release_assignment(w)
            \/ complete_task(w) \/ add_part(w) \/ approve_inspection(w) \/ pay_invoice(w)
  BY <1>1, <1>11, PlanOK DEF mark_invoiced, close, set_status, release_assignment,
     complete_task, add_part, approve_inspection, pay_invoice
<1>12. CASE diagnosis_action(w)
  BY <1>1, <1>12, PlanOK DEF diagnosis_action
<1>13. CASE edit(w)
  <2>1. CASE \E f \in {"coordinator", "technician", "notes", "odometer"} \ wo.filled :
               Plan(w, "edit", With({f}), <<"save">>)
    BY <1>3, <1>4, <2>1, PlanOK
  <2>2. ASSUME NEW f \in PatchedFlags, NEW plan, Plan(w, "edit", Patched(f), plan)
        PROVE  RowsOK'
    <3>1. /\ Patched(f).status = wo.status /\ Patched(f).pausedFrom = wo.pausedFrom
          /\ Patched(f).filled = wo.filled
      BY <1>1 DEF Patched, Row
    <3>2. f \in Flags
      BY ConstantsAssumption
    <3>3. QcKept => /\ Patched(f).qcDone = wo.qcDone
                    /\ Patched(f).qcRequired => wo.qcRequired
      BY <1>1, <3>2 DEF Patched, Row, Flags, QcKept
    <3>4. RowOK(profile, Patched(f))
      BY <1>1, <3>1, <3>3 DEF RowOK, PausedOK, QualityOK
    <3> QED BY <2>2, <3>4, PlanOK
  <2> QED BY <1>13, <2>1, <2>2 DEF edit
<1>14. ASSUME NEW row, RowOK(profile, row), wo' = wo, profile' = profile,
              request' = [request EXCEPT ![w] = [row |-> row, diag |-> diagnosis,
                                                 plan |-> <<"save">>]]
       PROVE  RowsOK'
  <2>1. \A v \in Workers : request'[v].row \in {request[v].row, row}
    BY <1>14 DEF IInv, TypeOK
  <2> QED BY <1>14, <2>1 DEF RowsOK, IInv
<1>15. CASE dvi_form(w)
  <2>1. RowOK(profile, [wo EXCEPT !.status = "intake"])
    BY <1>1, <1>15, DirectOK DEF dvi_form, Row, LateStatuses
  <2> QED BY <1>14, <1>15, <2>1 DEF dvi_form
<1>16. CASE mobile_quick_update(w)
  <2> PICK s \in DirectStatuses :
        request' = [request EXCEPT ![w] = [row |-> [wo EXCEPT !.status = s],
                                           diag |-> diagnosis, plan |-> <<"save">>]]
    BY <1>16 DEF mobile_quick_update
  <2>1. RowOK(profile, [wo EXCEPT !.status = s])
    BY <1>1, <1>16, DirectOK DEF mobile_quick_update, Row, QcKept
  <2> QED BY <1>14, <1>16, <2>1 DEF mobile_quick_update, related
<1>17. CASE workorder_edit_view(w)
  <2> PICK s \in DirectStatuses \cup {wo.status}, given \in SUBSET {"technician", "notes"} :
        request' = [request EXCEPT ![w] = [row |-> Filled(s, given), diag |-> diagnosis,
                                           plan |-> <<"save">>]]
    BY <1>17 DEF workorder_edit_view, Filled
  <2>1. /\ Filled(s, given).status = s /\ Filled(s, given).qcDone = wo.qcDone
        /\ Filled(s, given).qcRequired = wo.qcRequired
        /\ "reason" \in wo.filled => "reason" \in Filled(s, given).filled
    BY <1>1 DEF Filled, Row
  <2>2. RowOK(profile, Filled(s, given))
    BY <1>1, <1>17, <2>1, DirectOK DEF workorder_edit_view, QcKept
  <2> QED BY <1>14, <1>17, <2>2 DEF workorder_edit_view, related
<1> QED
  BY <1>5, <1>6, <1>7, <1>8, <1>9, <1>10, <1>11, <1>12, <1>13, <1>15,
     <1>16, <1>17 DEF Endpoint

LEMMA IInvInit == Init => IInv
<1> SUFFICES ASSUME Init PROVE IInv
  OBVIOUS
<1>1. \A checked : RowOK(profile, [NewRow(profile, checked) EXCEPT !.status = "approved"])
  BY DEF RowOK, PausedOK, QualityOK, NewRow
<1>2. RowOK(profile, wo)
  BY <1>1, NewRowOK DEF Init
<1>3. \A w \in Workers : request[w].row = Idle.row
  BY DEF Init
<1> QED BY <1>2, <1>3, TypeInit, IdleOK DEF IInv, RowsOK

LEMMA IInvNext == ASSUME IInv, [Next]_vars PROVE IInv'
<1>1. TypeOK'
  BY TypeNext DEF IInv
<1>2. RowsOK'
  <2>1. CASE Single
    <3>1. wo' = wo /\ profile' = profile /\ request' = request
      BY <2>1 DEF Single, complete_inspection, reject_inspection, start_task, create_task,
         skip_task, resolve_part, create_diagnosis, start_diagnosis_record,
         create_invoice, issue_invoice, void_invoice
    <3> QED BY <3>1 DEF IInv, RowsOK
  <2>2. ASSUME NEW w \in Workers, Abort(w) PROVE RowsOK'
    <3>1. \A v \in Workers : request'[v].row \in {request[v].row, Idle.row}
      BY <2>2 DEF Abort, IInv, TypeOK
    <3> QED BY <2>2, <3>1, IdleOK DEF Abort, IInv, RowsOK, related
  <2>3. CASE UNCHANGED vars
    BY <2>3 DEF vars, IInv, RowsOK
  <2> QED BY <2>1, <2>2, <2>3, CommitOK, EndpointOK DEF Next
<1> QED BY <1>1, <1>2 DEF IInv

(* Without the back doors, a paused job always knows what it goes back to,  *)
(* however many requests overlap and whatever old copies they save.         *)
THEOREM PausedAlwaysRemembers ==
  ASSUME BackDoors = {} PROVE Spec => []PausedRemembers
<1>1. IInv => PausedRemembers
  BY DEF IInv, RowsOK, RowOK, PausedOK, PausedRemembers
<1> QED BY <1>1, IInvInit, IInvNext, PTL DEF Spec

(* A job whose row requires a quality check is completed, invoiced or       *)
(* closed only after one or after being broken off, however many requests   *)
(* overlap, whatever old copies they save, whichever edits they make but    *)
(* those that unmake the check or ask for it later, and wherever the views  *)
(* that bypass the guards have sent it but past completion.                *)
THEOREM QualityAlwaysBeforeBilling ==
  ASSUME PatchedFlags \cap {"qcDone", "qcDemanded"} = {},
         DirectStatuses \cap {"completed", "invoiced", "closed", "discontinued_pending_bill"} = {}
  PROVE  Spec => []QualityBeforeBilling
<1>1. QcKept
  BY DEF QcKept, LateStatuses
<1>2. IInv => QualityBeforeBilling
  BY <1>1 DEF IInv, RowsOK, RowOK, QualityOK, QualityBeforeBilling, MustBeChecked
<1> QED BY <1>2, IInvInit, IInvNext, PTL DEF Spec

-----------------------------------------------------------------------------
(* WorkOrders implements JobPhases, for any profiles and any endpoints in   *)
(* use: what one request at a time may do to a job is what the workshop     *)
(* promises of it.                                                         *)

(* The hypotheses: requests do not overlap, no view sets the status itself, *)
(* nobody edits the columns of the approval.                               *)
OneByOne ==
  /\ \A v, w \in Workers : v = w
  /\ BackDoors = {} /\ PatchedFlags \cap {"requires", "approved"} = {}

-----------------------------------------------------------------------------
(* Phases and steps of a job as relations between rows.                    *)

Early == {"draft", "inspection", "intake", "assigned"}

PhaseOf(row) ==
  CASE row.status \in Early -> "intake"
    [] row.status \in {"in_progress", "quality_check"} -> "repair"
    [] row.status = "paused" -> IF row.pausedFrom = "in_progress" THEN "repair"
                                ELSE "assessment"
    [] row.status \in {"completed", "discontinued_pending_bill"} -> "finished"
    [] row.status = "additional_work_found" -> "new_work"
    [] row.status = "invoiced" -> "billed"
    [] row.status = "closed" -> "closed"
    [] OTHER -> "assessment"

Repairing(row) ==
  \/ row.status \in {"in_progress", "quality_check"}
  \/ row.status = "paused" /\ row.pausedFrom = "in_progress"

(* A step of JobPhases, or none, from phase p with consent c.              *)
Promised(p, c, q, d) ==
  \/ q = p /\ (d = c \/ p # "repair")
  \/ p \in {"intake", "new_work", "repair"} /\ q = "assessment" /\ d \in {c, FALSE}
  \/ p = "assessment" /\ c /\ q = "repair" /\ d = c
  \/ p \in {"assessment", "repair"} /\ q = "new_work" /\ d = FALSE
  \/ p \in {"intake", "assessment", "new_work", "repair"} /\ q = "finished" /\ d = c
  \/ p = "finished" /\ q = "billed" /\ d = c
  \/ p = "billed" /\ q = "closed" /\ d = c

Step2(old, new) ==
  Promised(PhaseOf(old), is_approved(old), PhaseOf(new), is_approved(new))

LEMMA PhaseValues ==
  ASSUME NEW row \in Row
  PROVE  /\ row.status \in Early => PhaseOf(row) = "intake"
         /\ PhaseOf(row) = "repair" <=> Repairing(row)
         /\ row.status = "paused" /\ ~Repairing(row) => PhaseOf(row) = "assessment"
         /\ row.status \in {"diagnosis", "awaiting_approval", "approved"}
              => PhaseOf(row) = "assessment"
         /\ row.status \in {"completed", "discontinued_pending_bill"}
              => PhaseOf(row) = "finished"
         /\ row.status = "additional_work_found" => PhaseOf(row) = "new_work"
         /\ row.status = "invoiced" => PhaseOf(row) = "billed"
         /\ row.status = "closed" => PhaseOf(row) = "closed"
<1>1. row.status \in Status
  BY DEF Row
<1>2. CASE row.status \in Early
  BY <1>2 DEF PhaseOf, Repairing, Early
<1>3. CASE row.status \in {"in_progress", "quality_check"}
  BY <1>3 DEF PhaseOf, Repairing, Early
<1>4. CASE row.status = "paused"
  BY <1>4 DEF PhaseOf, Repairing, Early
<1>5. CASE row.status \in {"completed", "discontinued_pending_bill"}
  BY <1>5 DEF PhaseOf, Repairing, Early
<1>6. CASE row.status \in {"additional_work_found", "invoiced", "closed"}
  BY <1>6 DEF PhaseOf, Repairing, Early
<1>7. CASE row.status \in {"diagnosis", "awaiting_approval", "approved"}
  BY <1>7 DEF PhaseOf, Repairing, Early
<1> QED BY <1>1, <1>2, <1>3, <1>4, <1>5, <1>6, <1>7 DEF Status, Early

LEMMA SamePhase ==
  ASSUME NEW row, NEW new, row.status = new.status, row.pausedFrom = new.pausedFrom
  PROVE  PhaseOf(row) = PhaseOf(new) /\ (Repairing(row) <=> Repairing(new))
BY DEF PhaseOf, Repairing

LEMMA PromisedStep ==
  ASSUME Step2(wo, wo') PROVE [Job!Next]_(Job!vars)
<1>1. phase = PhaseOf(wo) /\ phase' = PhaseOf(wo')
  BY DEF phase, PhaseOf, Early
<1>2. is_approved(wo) \in BOOLEAN /\ is_approved(wo)' \in BOOLEAN
  BY DEF is_approved
<1>3. Promised(phase, is_approved(wo), phase', is_approved(wo)')
  BY <1>1 DEF Step2, is_approved
<1> QED
  BY <1>2, <1>3 DEF Promised, Job!Next, Job!vars, Job!Decide, Job!Assess, Job!Repair,
     Job!FindMore, Job!Finish, Job!Bill, Job!Close
-----------------------------------------------------------------------------
(* Where a transition may come from.                                       *)

LEMMA Sources ==
  ASSUME NEW s \in Status, NEW t \in Status, profile \in Profiles, Allowed(s, t)
  PROVE  /\ t \in Early => s \in Early
         /\ t \in {"draft", "inspection"} => s \in {"draft", "inspection"}
         /\ t = "diagnosis" => s \in {"assigned", "awaiting_approval", "paused"}
         /\ t = "awaiting_approval" => s \in {"diagnosis", "additional_work_found"}
         /\ t = "approved" => s = "awaiting_approval"
         /\ t = "in_progress" => s \in {"approved", "paused", "quality_check"}
         /\ t = "paused" => s \in {"diagnosis", "in_progress"}
         /\ t = "additional_work_found" => s \in {"approved", "in_progress", "paused"}
         /\ t = "quality_check" => s = "in_progress"
         /\ t \in {"completed", "discontinued_pending_bill"}
              => s \notin {"completed", "discontinued_pending_bill", "invoiced", "closed"}
         /\ t = "invoiced" => s \in {"completed", "discontinued_pending_bill"}
         /\ t = "closed" => s = "invoiced"
<1>1. profile \in AllProfiles
  BY ConstantsAssumption
<1>2. ASSUME t # "completed" PROVE t \in VALID_TRANSITIONS[s]
  BY <1>1, <1>2 DEF Allowed, ExtraTransitions, AllProfiles
<1>3. CASE t = "completed"
  <2>1. \/ s = "quality_check" \/ s = "inspection"
        \/ s \in {"diagnosis", "awaiting_approval", "approved"}
    BY <1>1, <1>3 DEF Allowed, ExtraTransitions, AllProfiles, VALID_TRANSITIONS, Status
  <2> QED BY <1>3, <2>1 DEF Early
<1>4. CASE t \in Early
  BY <1>2, <1>4 DEF VALID_TRANSITIONS, Status, Early
<1>5. CASE t \in {"diagnosis", "awaiting_approval", "approved", "in_progress"}
  BY <1>2, <1>5 DEF VALID_TRANSITIONS, Status, Early
<1>6. CASE t \in {"paused", "additional_work_found", "quality_check"}
  BY <1>2, <1>6 DEF VALID_TRANSITIONS, Status, Early
<1>7. CASE t \in {"discontinued_pending_bill", "invoiced", "closed"}
  BY <1>2, <1>7 DEF VALID_TRANSITIONS, Status, Early
<1> QED BY <1>3, <1>4, <1>5, <1>6, <1>7 DEF Status, Early

-----------------------------------------------------------------------------
(* What is true of the row of a job while requests do not overlap: a job    *)
(* pauses from diagnosis or repair, a routine job keeps its consent at      *)
(* check-in, repairs have a consent, and one that the end of a diagnosis    *)
(* without approval may not take back.                                     *)
Stands(row, d) ==
  /\ PausedOK(row)
  /\ row.pausedFrom \in {"none", "diagnosis", "in_progress"}
  /\ profile = "routine_fast_track" /\ row.status \in {"draft", "inspection"}
       => row.approved
  /\ (row.status = "approved" \/ Repairing(row))
       => (row.requires \/ row.approved \/ d = "completed")
  /\ Repairing(row) => is_approved(row)

Alike(row, copy) ==
  /\ copy.status = row.status /\ copy.pausedFrom = row.pausedFrom
  /\ copy.requires = row.requires /\ copy.approved = row.approved

LEMMA AlikeStands ==
  ASSUME NEW row, NEW copy, NEW d, Alike(row, copy), Stands(row, d)
  PROVE  Stands(copy, d) /\ Step2(row, copy)
<1>1. PhaseOf(row) = PhaseOf(copy) /\ (Repairing(row) <=> Repairing(copy))
  BY SamePhase DEF Alike
<1> QED BY <1>1 DEF Alike, Stands, PausedOK, is_approved, Step2, Promised

(* A copy as an endpoint changes it before a transition to t: the approval  *)
(* is recorded with the move to approved, asked for with the move to        *)
(* awaiting approval.                                                      *)
Loaded(row, copy, t) ==
  /\ copy.status = row.status /\ copy.pausedFrom = row.pausedFrom
  /\ copy.approved # row.approved => t = "approved" /\ copy.approved
  /\ copy.requires # row.requires => t = "awaiting_approval" /\ copy.requires

LEMMA AfterFields ==
  ASSUME NEW row \in Row, NEW t \in Status
  PROVE  /\ After(row, t).status = t
         /\ After(row, t).pausedFrom = IF t = "paused" THEN row.status
              ELSE IF row.status = "paused" THEN "none" ELSE row.pausedFrom
         /\ After(row, t).requires = (row.requires \/ t = "additional_work_found")
         /\ After(row, t).approved = (row.approved /\ t # "additional_work_found")
BY DEF After

LEMMA MoveStands ==
  ASSUME profile \in Profiles, NEW row \in Row, NEW copy \in Row, NEW t \in Status, NEW d,
         Stands(row, d), Loaded(row, copy, t), Guard(copy, t)
  PROVE  Stands(After(copy, t), d) /\ Step2(row, After(copy, t))
<1> DEFINE new == After(copy, t)
<1>1. /\ new \in Row /\ new.status = t
      /\ new.pausedFrom = IF t = "paused" THEN row.status
            ELSE IF row.status = "paused" THEN "none" ELSE row.pausedFrom
      /\ new.requires = (copy.requires \/ t = "additional_work_found")
      /\ new.approved = (copy.approved /\ t # "additional_work_found")
  BY AfterFields, AfterType DEF Loaded
<1>2. row.status \in Status /\ copy.status = row.status
  BY DEF Row, Loaded
<1>a. /\ row.requires \in BOOLEAN /\ row.approved \in BOOLEAN
      /\ copy.requires \in BOOLEAN /\ copy.approved \in BOOLEAN
      /\ new.requires \in BOOLEAN /\ new.approved \in BOOLEAN
  BY <1>1 DEF Row
<1>b. /\ t # "approved" => copy.approved = row.approved
      /\ t # "awaiting_approval" => copy.requires = row.requires
      /\ t = "approved" /\ copy.approved # row.approved => copy.approved
      /\ t = "awaiting_approval" /\ copy.requires # row.requires => copy.requires
  BY DEF Loaded
<1>3. /\ row.status = "paused" <=> row.pausedFrom # "none"
      /\ row.pausedFrom \in {"none", "diagnosis", "in_progress"}
      /\ profile = "routine_fast_track" /\ row.status \in {"draft", "inspection"}
           => row.approved
      /\ (row.status = "approved" \/ Repairing(row))
           => (row.requires \/ row.approved \/ d = "completed")
      /\ Repairing(row) => ~row.requires \/ row.approved
  BY DEF Stands, PausedOK, is_approved
<1> HIDE DEF new
<1>4. CASE FastTrack(copy, t)
  <2>1. t = "approved" /\ row.status = "draft" /\ row.approved
    BY <1>4, <1>2, <1>3 DEF FastTrack
  <2>2. new.approved /\ new.pausedFrom = "none"
    BY <1>1, <1>3, <1>a, <1>b, <2>1
  <2>3. PhaseOf(row) = "intake" /\ PhaseOf(new) = "assessment"
    BY <1>1, <2>1, PhaseValues DEF Early
  <2>4. ~Repairing(new)
    BY <1>1, <2>1 DEF Repairing
  <2>5. is_approved(row) /\ is_approved(new)
    BY <2>1, <2>2 DEF is_approved
  <2>6. Stands(new, d)
    BY <1>1, <2>1, <2>2, <2>4 DEF Stands, PausedOK
  <2>7. Step2(row, new)
    BY <2>3, <2>5 DEF Step2, Promised, is_approved
  <2> QED BY <2>6, <2>7 DEF new
<1>5. CASE ~FastTrack(copy, t)
  <2>1. Allowed(row.status, t)
    BY <1>5, <1>2 DEF Guard
  <2>2. /\ t = "approved" => copy.requires \/ copy.approved
        /\ t = "in_progress" => is_approved(copy)
        /\ t = "in_progress" /\ row.status = "paused" => copy.pausedFrom # "diagnosis"
    BY <1>5, <1>2 DEF Guard, Startable
  <2>3. copy.pausedFrom = row.pausedFrom
    BY DEF Loaded
  <2>4. /\ PhaseOf(row) = "repair" <=> Repairing(row)
        /\ PhaseOf(new) = "repair" <=> Repairing(new)
    BY <1>1, PhaseValues
  <2>5. CASE t = "in_progress"
    <3>1. row.status \in {"approved", "paused", "quality_check"}
      BY <1>2, <2>1, <2>5, Sources
    <3>2. row.status = "approved" \/ Repairing(row)
      BY <1>3, <2>2, <2>3, <2>5, <3>1 DEF Repairing
    <3>3. /\ new.pausedFrom = "none" /\ new.status = "in_progress"
          /\ new.requires = row.requires /\ new.approved = row.approved
      BY <1>1, <1>3, <1>a, <1>b, <2>5, <3>1
    <3>4. is_approved(new) /\ is_approved(row) /\ Repairing(new)
      BY <1>b, <2>2, <2>5, <3>3 DEF is_approved, Repairing
    <3>5. PhaseOf(row) \in {"assessment", "repair"} /\ PhaseOf(new) = "repair"
      BY <2>4, <3>1, <3>2, <3>4, PhaseValues
    <3>6. Stands(new, d)
      BY <1>3, <3>2, <3>3, <3>4 DEF Stands, PausedOK
    <3> QED BY <3>4, <3>5, <3>6 DEF Step2, Promised, new
  <2>6. CASE t \in {"quality_check", "paused"}
    <3>1. /\ row.status \in {"in_progress", "diagnosis"}
          /\ t = "quality_check" => row.status = "in_progress"
      BY <1>2, <2>1, <2>6, Sources
    <3>2. /\ new.pausedFrom = IF t = "paused" THEN row.status ELSE "none"
          /\ new.requires = row.requires /\ new.approved = row.approved
      BY <1>1, <1>3, <1>a, <1>b, <2>6, <3>1
    <3>3. /\ Repairing(new) <=> Repairing(row)
          /\ is_approved(new) <=> is_approved(row)
      BY <1>1, <1>3, <2>6, <3>1, <3>2 DEF Repairing, is_approved
    <3>4. PhaseOf(row) = PhaseOf(new)
      <4>1. row.status = "in_progress" => Repairing(row)
        BY DEF Repairing
      <4>2. CASE ~Repairing(row)
        <5>1. row.status = "diagnosis" /\ new.status = "paused"
          BY <1>1, <2>6, <3>1, <4>1, <4>2
        <5> QED BY <1>1, <3>3, <4>2, <5>1, PhaseValues
      <4> QED BY <2>4, <3>3, <4>2
    <3>5. Stands(new, d)
      BY <1>1, <1>3, <2>6, <3>1, <3>2, <3>3 DEF Stands, PausedOK, is_approved
    <3> QED BY <3>2, <3>4, <3>5 DEF Step2, Promised, new, is_approved
  <2>7. CASE t \notin {"in_progress", "quality_check", "paused"}
    <3>1. ~Repairing(new) /\ new.pausedFrom = "none"
      BY <1>1, <1>3, <2>7 DEF Repairing
    <3>2. Stands(new, d)
      <4>1. t \in {"draft", "inspection"} => /\ row.status \in {"draft", "inspection"}
                                            /\ new.approved = row.approved
        BY <1>1, <1>2, <1>a, <1>b, <2>1, Sources
      <4>2. t = "approved" => new.requires \/ new.approved
        BY <1>1, <1>a, <2>2
      <4> QED BY <1>1, <1>3, <2>7, <3>1, <4>1, <4>2 DEF Stands, PausedOK
    <3>3. CASE t \in Early
      <4>1. PhaseOf(row) = "intake" /\ PhaseOf(new) = "intake"
        BY <1>1, <1>2, <2>1, <3>3, Sources, PhaseValues
      <4> QED BY <3>2, <4>1 DEF Step2, Promised, new
    <3>4. CASE t \in {"diagnosis", "awaiting_approval", "approved"}
      <4>1. PhaseOf(new) = "assessment"
        BY <1>1, <3>4, PhaseValues
      <4>2. row.status \in {"assigned", "awaiting_approval", "paused", "diagnosis",
                            "additional_work_found"}
        BY <1>2, <2>1, <3>4, Sources
      <4>3. /\ PhaseOf(row) \in {"intake", "assessment", "new_work", "repair"}
            /\ t # "diagnosis" => PhaseOf(row) \in {"assessment", "new_work"}
            /\ t = "approved" => PhaseOf(row) = "assessment"
        <5>1. row.status = "assigned" => PhaseOf(row) = "intake"
          BY PhaseValues DEF Early
        <5>2. t # "diagnosis" =>
                row.status \in {"diagnosis", "awaiting_approval", "additional_work_found"}
          BY <1>2, <2>1, <3>4, Sources
        <5>3. t = "approved" => row.status = "awaiting_approval"
          BY <1>2, <2>1, <3>4, Sources
        <5> QED BY <2>4, <4>2, <5>1, <5>2, <5>3, PhaseValues
      <4>4. /\ t = "diagnosis" => is_approved(new) = is_approved(row)
            /\ t = "awaiting_approval" => is_approved(new) \in {is_approved(row), FALSE}
        BY <1>1, <1>a, <1>b, <3>4 DEF is_approved
      <4> QED BY <3>2, <3>4, <4>1, <4>3, <4>4 DEF Step2, Promised, new, is_approved
    <3>5. CASE t = "additional_work_found"
      <4>1. row.status \in {"approved", "in_progress", "paused"}
        BY <1>2, <2>1, <3>5, Sources
      <4>2. PhaseOf(row) \in {"assessment", "repair"} /\ PhaseOf(new) = "new_work"
        BY <1>1, <2>4, <3>5, <4>1, PhaseValues DEF Repairing
      <4>3. is_approved(new) = FALSE
        BY <1>1, <1>a, <3>5 DEF is_approved
      <4> QED BY <3>2, <4>2, <4>3 DEF Step2, Promised, new
    <3>6. CASE t \in {"completed", "discontinued_pending_bill", "invoiced", "closed"}
      <4>1. is_approved(new) = is_approved(row)
        BY <1>1, <1>a, <1>b, <3>6 DEF is_approved
      <4>2. CASE t \in {"completed", "discontinued_pending_bill"}
        <5>1. PhaseOf(new) = "finished"
          BY <1>1, <4>2, PhaseValues
        <5>2. PhaseOf(row) \in {"intake", "assessment", "new_work", "repair"}
          <6>1. row.status \notin {"completed", "discontinued_pending_bill", "invoiced",
                                   "closed"}
            BY <1>2, <2>1, <4>2, Sources
          <6> QED BY <1>2, <2>4, <6>1, PhaseValues DEF Status, Early, Repairing
        <5> QED BY <3>2, <4>1, <5>1, <5>2 DEF Step2, Promised, new
      <4>3. CASE t = "invoiced"
        <5>1. PhaseOf(row) = "finished" /\ PhaseOf(new) = "billed"
          BY <1>1, <1>2, <2>1, <4>3, Sources, PhaseValues
        <5> QED BY <3>2, <4>1, <5>1 DEF Step2, Promised, new
      <4>4. CASE t = "closed"
        <5>1. PhaseOf(row) = "billed" /\ PhaseOf(new) = "closed"
          BY <1>1, <1>2, <2>1, <4>4, Sources, PhaseValues
        <5> QED BY <3>2, <4>1, <5>1 DEF Step2, Promised, new
      <4> QED BY <3>6, <4>2, <4>3, <4>4
    <3> QED BY <2>7, <3>3, <3>4, <3>5, <3>6 DEF Status, Early
  <2> QED BY <2>5, <2>6, <2>7
<1> QED BY <1>4, <1>5

(* Between diagnosis and approval nobody repairs: consent comes and goes.   *)
Assessed == {"diagnosis", "awaiting_approval", "approved"}

LEMMA AssessStands ==
  ASSUME NEW row \in Row, NEW new \in Row, NEW d,
         row.status \in Assessed, new.status \in Assessed, new.pausedFrom = "none",
         new.status = "approved" => new.requires \/ new.approved \/ d = "completed"
  PROVE  Stands(new, d) /\ Step2(row, new)
<1>1. PhaseOf(row) = "assessment" /\ PhaseOf(new) = "assessment"
  BY PhaseValues DEF Assessed
<1>2. ~Repairing(new)
  BY DEF Repairing, Assessed
<1> QED BY <1>1, <1>2 DEF Stands, PausedOK, Step2, Promised, Assessed

LEMMA StandsAgain ==
  ASSUME NEW row, NEW d, NEW e, Stands(row, d), d = "completed" => e = "completed"
  PROVE  Stands(row, e)
BY DEF Stands

-----------------------------------------------------------------------------
(* What one handler holds.  Plans begin with the commit their endpoint       *)
(* prepared the copy for; what follows only goes on from there.             *)
Later == {"save", "unapprove", "d_pause", "d_resume", "d_submit", "d_complete",
          "d_complete_free"}

Follows(plan) ==
  \A i \in 2 .. Len(plan) :
    /\ plan[i] \notin Later
    /\ plan[i] = "sync" => plan[i - 1] = "approved"
    /\ plan[i] = "agree" => plan[i - 1] = "save"

(* The copy of a request whose next commit is h, with more to come or not,  *)
(* and what it read of the diagnosis, against the stored row and record.    *)
Fits(h, more, copy, diag, row, d) ==
  /\ copy.status = row.status /\ copy.pausedFrom = row.pausedFrom
  /\ h = "sync" => row.status = "approved"
  /\ h = "agree" => row.status = "diagnosis"
  /\ h = "unapprove" => row.status = "awaiting_approval"
  /\ h = "save" /\ more => row.status = "diagnosis"
  /\ h \in Later \ {"save", "unapprove"} /\ diag \notin {"none", "not_started"} => d = diag
  /\ copy.approved # row.approved =>
       \/ h = "approved" /\ copy.approved
       \/ h = "unapprove"
       \/ h = "save" /\ row.status = "diagnosis"
  /\ copy.requires # row.requires =>
       \/ h = "awaiting_approval" /\ copy.requires
       \/ h = "save" /\ row.status = "diagnosis"

Current(w) ==
  request[w].plan # <<>> =>
    /\ Follows(request[w].plan)
    /\ Fits(Head(request[w].plan), Tail(request[w].plan) # <<>>, request[w].row,
            request[w].diag, wo, diagnosis)

JobInv == TypeOK /\ Stands(wo, diagnosis) /\ \A w \in Workers : Current(w)

LEMMA FollowsTail ==
  ASSUME NEW plan \in Seq(Step), plan # <<>>, Tail(plan) # <<>>, Follows(plan)
  PROVE  /\ Follows(Tail(plan))
         /\ Head(Tail(plan)) \notin Later
         /\ Head(Tail(plan)) = "sync" => Head(plan) = "approved"
         /\ Head(Tail(plan)) = "agree" => Head(plan) = "save"
<1>1. /\ Tail(plan) \in Seq(Step) /\ Len(Tail(plan)) = Len(plan) - 1
      /\ \A i \in 1 .. Len(Tail(plan)) : Tail(plan)[i] = plan[i + 1]
      /\ Len(plan) \in Nat /\ Len(plan) >= 2
  <2>1. Tail(plan) \in Seq(Step) /\ Len(Tail(plan)) = Len(plan) - 1
    BY HeadTailProperties
  <2>2. Len(plan) \in Nat /\ Len(Tail(plan)) \in Nat /\ Len(Tail(plan)) # 0
    BY <2>1, EmptySeq, LenProperties
  <2>3. \A i \in 1 .. Len(Tail(plan)) : Tail(plan)[i] = plan[i + 1]
    BY HeadTailProperties
  <2> QED BY <2>1, <2>2, <2>3
<1>2. Head(plan) = plan[1] /\ Head(Tail(plan)) = plan[2]
  BY <1>1
<1>3. Follows(Tail(plan))
  <2> SUFFICES ASSUME NEW i \in 2 .. Len(Tail(plan))
               PROVE  /\ Tail(plan)[i] \notin Later
                      /\ Tail(plan)[i] = "sync" => Tail(plan)[i - 1] = "approved"
                      /\ Tail(plan)[i] = "agree" => Tail(plan)[i - 1] = "save"
    BY DEF Follows
  <2>1. Tail(plan)[i] = plan[i + 1] /\ Tail(plan)[i - 1] = plan[i]
    BY <1>1
  <2>2. i + 1 \in 2 .. Len(plan) /\ (i + 1) - 1 = i
    BY <1>1
  <2> QED BY <2>1, <2>2 DEF Follows
<1>4. 2 \in 2 .. Len(plan) /\ 2 - 1 = 1
  BY <1>1
<1> QED BY <1>2, <1>3, <1>4 DEF Follows

(* A copy the endpoint has not changed in what counts.                     *)
LEMMA AlikeFits ==
  ASSUME NEW h, NEW more, NEW copy, NEW diag, NEW row, NEW d, Alike(row, copy),
         h = "sync" => row.status = "approved",
         h = "agree" => row.status = "diagnosis",
         h = "unapprove" => row.status = "awaiting_approval",
         h = "save" /\ more => row.status = "diagnosis",
         h \in Later \ {"save", "unapprove"} /\ diag \notin {"none", "not_started"}
           => d = diag
  PROVE  Fits(h, more, copy, diag, row, d)
BY DEF Alike, Fits

(* A commit after which the copy is as the stored row leaves the rest of    *)
(* the plan fit to go on.                                                  *)
LEMMA Carry ==
  ASSUME OneByOne, TypeOK, NEW w \in Workers, Current(w), request[w].plan # <<>>,
         NEW copy, Proceed(w, copy), Alike(wo', copy),
         NextStep(w) = "approved" => wo'.status = "approved",
         NextStep(w) = "save" /\ Tail(request[w].plan) # <<>> => wo'.status = "diagnosis"
  PROVE  \A v \in Workers : Current(v)'
<1> SUFFICES Current(w)'
  BY DEF OneByOne
<1>1. request[w].plan \in Seq(Step) /\ request \in [Workers -> Request]
  BY DEF TypeOK, Request
<1>2. CASE Tail(request[w].plan) = <<>>
  <2>1. request'[w] = Idle
    BY <1>1, <1>2 DEF Proceed
  <2> QED BY <2>1 DEF Current, Idle
<1>3. CASE Tail(request[w].plan) # <<>>
  <2>1. request'[w] = [row |-> copy, diag |-> request[w].diag,
                       plan |-> Tail(request[w].plan)]
    BY <1>1, <1>3 DEF Proceed
  <2>2. /\ Follows(Tail(request[w].plan))
        /\ Head(Tail(request[w].plan)) \notin Later
        /\ Head(Tail(request[w].plan)) = "sync" => NextStep(w) = "approved"
        /\ Head(Tail(request[w].plan)) = "agree" => NextStep(w) = "save"
    BY <1>1, <1>3, FollowsTail DEF Current, NextStep
  <2>3. ASSUME NEW more
        PROVE  Fits(Head(Tail(request[w].plan)), more, copy, request[w].diag, wo', diagnosis')
    BY <1>3, <2>2 DEF Fits, Alike, Later
  <2>4. /\ request'[w].plan = Tail(request[w].plan) /\ request'[w].row = copy
        /\ request'[w].diag = request[w].diag
    BY <2>1
  <2>5. Fits(Head(request'[w].plan), Tail(request'[w].plan) # <<>>, request'[w].row,
             request'[w].diag, wo', diagnosis')
    BY <2>3, <2>4
  <2>6. Follows(request'[w].plan)
    BY <2>2, <2>4
  <2> QED BY <2>5, <2>6 DEF Current
<1> QED BY <1>2, <1>3

LEMMA Dropped ==
  ASSUME OneByOne, TypeOK, NEW w \in Workers, request' = [request EXCEPT ![w] = Idle]
  PROVE  \A v \in Workers : Current(v)'
<1>1. request'[w].plan = <<>>
  BY DEF TypeOK, Idle
<1> QED BY <1>1 DEF OneByOne, Current

(* A request that begins: nothing is stored yet.                           *)
LEMMA Begun ==
  ASSUME OneByOne, TypeOK, NEW w \in Workers, NEW op, NEW copy, NEW plan,
         Plan(w, op, copy, plan), Follows(plan),
         Fits(Head(plan), Tail(plan) # <<>>, copy, diagnosis, wo, diagnosis)
  PROVE  \A v \in Workers : Current(v)'
<1> SUFFICES Current(w)'
  BY DEF OneByOne
<1>1. request'[w] = [row |-> copy, diag |-> diagnosis, plan |-> plan]
  BY DEF Plan, TypeOK
<1>2. wo' = wo /\ diagnosis' = diagnosis
  BY DEF Plan, related
<1>3. request'[w].plan = plan /\ request'[w].row = copy /\ request'[w].diag = diagnosis
  BY <1>1
<1>4. Fits(Head(request'[w].plan), Tail(request'[w].plan) # <<>>, request'[w].row,
           request'[w].diag, wo', diagnosis')
  BY <1>2, <1>3
<1>5. Follows(request'[w].plan)
  BY <1>3
<1> QED BY <1>4, <1>5 DEF Current

LEMMA Shorts ==
  /\ \A a : Follows(<<a>>) /\ Head(<<a>>) = a /\ Tail(<<a>>) = <<>>
  /\ \A a, b : /\ b \notin Later /\ (b = "sync" => a = "approved") /\ (b = "agree" => a = "save")
                  => Follows(<<a, b>>)
               /\ Head(<<a, b>>) = a
  /\ \A a, b, c : /\ {b, c} \cap (Later \cup {"sync", "agree"}) = {} => Follows(<<a, b, c>>)
                  /\ Head(<<a, b, c>>) = a
  /\ \A a, b, c, d : /\ {b, c, d} \cap (Later \cup {"sync", "agree"}) = {}
                           => Follows(<<a, b, c, d>>)
                     /\ Head(<<a, b, c, d>>) = a
<1>1. \A a : Follows(<<a>>) /\ Head(<<a>>) = a /\ Tail(<<a>>) = <<>>
  BY DEF Follows
<1>2. ASSUME NEW a, NEW b
      PROVE  /\ b \notin Later /\ (b = "sync" => a = "approved") /\ (b = "agree" => a = "save")
                  => Follows(<<a, b>>)
             /\ Head(<<a, b>>) = a
  BY DEF Follows
<1>3. ASSUME NEW a, NEW b, NEW c
      PROVE  /\ {b, c} \cap (Later \cup {"sync", "agree"}) = {} => Follows(<<a, b, c>>)
             /\ Head(<<a, b, c>>) = a
  BY DEF Follows
<1>4. ASSUME NEW a, NEW b, NEW c, NEW d
      PROVE  /\ {b, c, d} \cap (Later \cup {"sync", "agree"}) = {} => Follows(<<a, b, c, d>>)
             /\ Head(<<a, b, c, d>>) = a
  BY DEF Follows
<1> QED BY <1>1, <1>2, <1>3, <1>4

(* Most endpoints change nothing that counts before their first commit.    *)
LEMMA BegunAlike ==
  ASSUME OneByOne, TypeOK, NEW w \in Workers, NEW op, NEW copy, NEW plan,
         Plan(w, op, copy, plan), Follows(plan), Alike(wo, copy),
         Head(plan) \notin {"sync", "agree", "unapprove"},
         Head(plan) = "save" => Tail(plan) = <<>>
  PROVE  \A v \in Workers : Current(v)'
<1>1. Fits(Head(plan), Tail(plan) # <<>>, copy, diagnosis, wo, diagnosis)
  BY AlikeFits
<1> QED BY <1>1, Begun

LEMMA WithAlike ==
  ASSUME wo \in Row, NEW S
  PROVE  Alike(wo, With(S)) /\ Alike(wo, wo)
BY DEF Alike, With, Row

LEMMA EndpointCurrent ==
  ASSUME OneByOne, TypeOK, NEW w \in Workers, Endpoint(w)
  PROVE  UNCHANGED <<wo, diagnosis>> /\ \A v \in Workers : Current(v)'
<1>1. UNCHANGED <<wo, diagnosis>>
  <2>1. BackDoors = {}
    BY DEF OneByOne
  <2> QED
    BY <2>1 DEF Endpoint, start_intake, start_diagnosis, request_approval, complete_diagnosis,
       approve, decline, start_work, pause, resume, flag_additional_work,
       request_quality_check, quality_check, complete, mark_invoiced, close, discontinue_job,
       set_status, edit, release_assignment, complete_task, add_part, approve_inspection,
       pay_invoice, diagnosis_action, dvi_form, mobile_quick_update, workorder_edit_view, Plan,
       related
<1> SUFFICES \A v \in Workers : Current(v)'
  BY <1>1
<1>w. wo \in Row /\ Alike(wo, wo) /\ \A S : Alike(wo, With(S))
  BY WithAlike DEF TypeOK
<1>s. ASSUME NEW op, NEW copy, NEW a, Plan(w, op, copy, <<a>>), Alike(wo, copy),
             a \notin {"sync", "agree", "unapprove"}
      PROVE  \A v \in Workers : Current(v)'
  <2>1. Follows(<<a>>) /\ Head(<<a>>) = a /\ Tail(<<a>>) = <<>>
    BY Shorts
  <2> QED BY <1>s, <2>1, BegunAlike
<1>p. ASSUME NEW op, NEW copy, NEW a, NEW b, Plan(w, op, copy, <<a, b>>), Alike(wo, copy),
             a \notin {"sync", "agree", "unapprove", "save"},
             b \notin Later \cup {"sync", "agree"}
      PROVE  \A v \in Workers : Current(v)'
  <2>1. Follows(<<a, b>>) /\ Head(<<a, b>>) = a
    BY <1>p, Shorts
  <2> QED BY <1>p, <2>1, BegunAlike
<1>t. ASSUME NEW op, NEW copy, NEW a, NEW b, NEW c, Plan(w, op, copy, <<a, b, c>>),
             Alike(wo, copy), a \notin {"sync", "agree", "unapprove", "save"},
             {b, c} \cap (Later \cup {"sync", "agree"}) = {}
      PROVE  \A v \in Workers : Current(v)'
  <2>1. Follows(<<a, b, c>>) /\ Head(<<a, b, c>>) = a
    BY <1>t, Shorts
  <2> QED BY <1>t, <2>1, BegunAlike
<1>q. ASSUME NEW op, NEW copy, NEW a, NEW b, NEW c, NEW d, Plan(w, op, copy, <<a, b, c, d>>),
             Alike(wo, copy), a \notin {"sync", "agree", "unapprove", "save"},
             {b, c, d} \cap (Later \cup {"sync", "agree"}) = {}
      PROVE  \A v \in Workers : Current(v)'
  <2>1. Follows(<<a, b, c, d>>) /\ Head(<<a, b, c, d>>) = a
    BY <1>q, Shorts
  <2> QED BY <1>q, <2>1, BegunAlike
<1>2. CASE start_intake(w)
  <2> PICK given \in BOOLEAN :
        LET moves == IF wo.status = "intake" THEN <<>> ELSE <<"intake">>
            assigns == IF given \/ "coordinator" \in wo.filled
                       THEN <<"coordinator", "assigned">> ELSE <<>>
        IN moves \o assigns # <<>> /\ Plan(w, "start_intake", wo, moves \o assigns)
    BY <1>2 DEF start_intake
  <2>1. /\ <<>> \o <<>> = <<>> /\ <<"intake">> \o <<>> = <<"intake">>
        /\ <<>> \o <<"coordinator", "assigned">> = <<"coordinator", "assigned">>
        /\ <<"intake">> \o <<"coordinator", "assigned">> =
             <<"intake", "coordinator", "assigned">>
    <3>1. /\ <<>> \in Seq(Step) /\ <<"intake">> \in Seq(Step)
          /\ <<"coordinator", "assigned">> \in Seq(Step)
      BY PlansType DEF Status, Fields
    <3>2. <<"intake">> \o <<"coordinator", "assigned">> = <<"intake", "coordinator", "assigned">>
      <4> DEFINE both == <<"intake">> \o <<"coordinator", "assigned">>
                 all == <<"intake", "coordinator", "assigned">>
      <4>1. /\ both \in Seq(Step) /\ Len(both) = 3
            /\ both[1] = "intake" /\ both[2] = "coordinator" /\ both[3] = "assigned"
        BY <3>1, ConcatProperties
      <4>2. all \in Seq(Step) /\ Len(all) = 3
        BY PlansType DEF Status, Fields
      <4>3. all[1] = "intake" /\ all[2] = "coordinator" /\ all[3] = "assigned"
        OBVIOUS
      <4> HIDE DEF both, all
      <4>4. \A i \in 1 .. Len(both) : both[i] = all[i]
        <5>1. 1 .. Len(both) = {1, 2, 3}
          BY <4>1
        <5> QED BY <4>1, <4>3, <5>1
      <4> QED BY <4>1, <4>2, <4>4, SeqEqual DEF both, all
    <3> QED BY <3>1, <3>2, ConcatEmptySeq
  <2>2. \/ Plan(w, "start_intake", wo, <<"intake">>)
        \/ Plan(w, "start_intake", wo, <<"coordinator", "assigned">>)
        \/ Plan(w, "start_intake", wo, <<"intake", "coordinator", "assigned">>)
    BY <2>1
  <2> QED BY <1>w, <1>s, <1>p, <1>t, <2>2 DEF Later
<1>3. CASE start_diagnosis(w)
  BY <1>3, <1>w, <1>p DEF start_diagnosis, Later
<1>4. CASE request_approval(w)
  <2>1. Plan(w, "request_approval", [wo EXCEPT !.requires = TRUE], <<"awaiting_approval">>)
    BY <1>4 DEF request_approval
  <2>2. Follows(<<"awaiting_approval">>) /\ Head(<<"awaiting_approval">>) = "awaiting_approval"
    BY Shorts
  <2>3. ASSUME NEW more
        PROVE  Fits("awaiting_approval", more, [wo EXCEPT !.requires = TRUE], diagnosis, wo,
                    diagnosis)
    BY <1>w DEF Fits, Row, Later
  <2> QED BY <2>1, <2>2, <2>3, Begun
<1>5. CASE complete_diagnosis(w)
  <2> DEFINE long == <<"save", "agree", "awaiting_approval", "approved", "sync", "convert",
                       "in_progress">>
  <2>1. Follows(long) /\ Head(long) = "save"
    BY DEF Follows, Later
  <2>2. Follows(<<"save", "awaiting_approval">>) /\ Head(<<"save", "awaiting_approval">>) = "save"
    BY Shorts DEF Later
  <2>3. ASSUME NEW more, NEW b
        PROVE  Fits("save", more, [With({"notes"}) EXCEPT !.requires = b], diagnosis, wo,
                    diagnosis)
    BY <1>5, <1>w DEF complete_diagnosis, Fits, Row, Later, With
  <2>4. \/ Plan(w, "complete_diagnosis", [With({"notes"}) EXCEPT !.requires = TRUE],
                <<"save", "awaiting_approval">>)
        \/ Plan(w, "complete_diagnosis", [With({"notes"}) EXCEPT !.requires = FALSE], long)
    BY <1>5 DEF complete_diagnosis
  <2> HIDE DEF long
  <2> QED BY <2>1, <2>2, <2>3, <2>4, Begun
<1>6. CASE approve(w)
  <2> DEFINE given == [wo EXCEPT !.approved = TRUE]
  <2>1. /\ Follows(<<"approved", "sync">>) /\ Head(<<"approved", "sync">>) = "approved"
        /\ Follows(<<"approved">>) /\ Head(<<"approved">>) = "approved"
    BY Shorts DEF Later
  <2>2. ASSUME NEW more PROVE Fits("approved", more, given, diagnosis, wo, diagnosis)
    BY <1>w DEF Fits, Row, Later
  <2>3. \/ Plan(w, "approve", given, <<"approved", "sync">>)
        \/ Plan(w, "portal_approve", given, <<"approved">>)
    BY <1>6 DEF approve
  <2> HIDE DEF given
  <2> QED BY <2>1, <2>2, <2>3, Begun
<1>7. CASE decline(w)
  <2> DEFINE refused == [wo EXCEPT !.approved = FALSE]
  <2>1. /\ Follows(<<"unapprove", "reopen">>) /\ Head(<<"unapprove", "reopen">>) = "unapprove"
        /\ Follows(<<"unapprove", "diagnosis">>)
        /\ Head(<<"unapprove", "diagnosis">>) = "unapprove"
    BY Shorts DEF Later
  <2>2. ASSUME NEW more PROVE Fits("unapprove", more, refused, diagnosis, wo, diagnosis)
    BY <1>7, <1>w DEF decline, Fits, Row, Later
  <2>3. \E op : \/ Plan(w, op, refused, <<"unapprove", "reopen">>)
                \/ Plan(w, op, refused, <<"unapprove", "diagnosis">>)
    BY <1>7 DEF decline
  <2> HIDE DEF refused
  <2> QED BY <2>1, <2>2, <2>3, Begun
<1>8. CASE start_work(w)
  BY <1>8, <1>w, <1>p, <1>t DEF start_work, Later
<1>9. CASE pause(w) \/ resume(w) \/ flag_additional_work(w) \/ close(w)
  BY <1>9, <1>w, <1>s DEF pause, resume, flag_additional_work, close
<1>10. CASE request_quality_check(w) \/ mark_invoiced(w) \/ discontinue_job(w)
  BY <1>10, <1>w, <1>s, <1>p
  DEF request_quality_check, mark_invoiced, discontinue_job, Later
<1>11. CASE quality_check(w)
  <2> PICK passed \in BOOLEAN, read \in {{}, {"odometer"}} :
        Plan(w, "quality_check", Checked(With(read), passed),
             IF passed THEN <<"completed">> ELSE <<"in_progress">>)
    BY <1>11 DEF quality_check
  <2>1. Alike(wo, Checked(With(read), passed))
    BY <1>w DEF Alike, Checked, With, Row
  <2> QED BY <1>s, <2>1
<1>12. CASE complete(w)
  <2> PICK read \in {{}, {"odometer"}} :
        Plan(w, "complete",
             [With(read) EXCEPT !.qcDone = @ \/ ~wo.qcRequired,
                                !.qcPassed = @ \/ ~wo.qcRequired],
             <<"completed">>)
    BY <1>12 DEF complete
  <2>1. Alike(wo, [With(read) EXCEPT !.qcDone = @ \/ ~wo.qcRequired,
                                     !.qcPassed = @ \/ ~wo.qcRequired])
    BY <1>w DEF Alike, With, Row
  <2> QED BY <1>s, <2>1
<1>13. CASE set_status(w)
  <2> PICK t \in Targets \ {wo.status} : Plan(w, "set_status", wo, <<t>>)
    BY <1>13 DEF set_status
  <2>1. t \notin {"sync", "agree", "unapprove"}
    BY ConstantsAssumption DEF Status
  <2> QED BY <1>w, <1>s, <2>1
<1>14. CASE edit(w)
  <2>1. CASE \E f \in {"coordinator", "technician", "notes", "odometer"} \ wo.filled :
               Plan(w, "edit", With({f}), <<"save">>)
    BY <1>w, <1>s, <2>1
  <2>2. ASSUME NEW f \in PatchedFlags, NEW a, Plan(w, "edit", Patched(f), <<a>>),
               a = "save" \/ a \in Targets
        PROVE  \A v \in Workers : Current(v)'
    <3>1. Alike(wo, Patched(f))
      BY <1>w DEF OneByOne, Patched, Alike, Row
    <3>2. a \notin {"sync", "agree", "unapprove"}
      BY <2>2, ConstantsAssumption DEF Status
    <3> QED BY <1>s, <2>2, <3>1, <3>2
  <2> QED BY <1>14, <2>1, <2>2 DEF edit
<1>15. CASE release_assignment(w) \/ complete_task(w) \/ add_part(w) \/ approve_inspection(w)
  BY <1>15, <1>w, <1>s, <1>p
  DEF release_assignment, complete_task, add_part, approve_inspection, Later
<1>16. CASE pay_invoice(w)
  BY <1>16, <1>w, <1>t, <1>q DEF pay_invoice, Later
<1>17. CASE diagnosis_action(w)
  BY <1>17, <1>w, <1>s DEF diagnosis_action
<1>18. ~(dvi_form(w) \/ mobile_quick_update(w) \/ workorder_edit_view(w))
  BY DEF OneByOne, dvi_form, mobile_quick_update, workorder_edit_view
<1> QED
  BY <1>1, <1>2, <1>3, <1>4, <1>5, <1>6, <1>7, <1>8, <1>9, <1>10, <1>11, <1>12, <1>13, <1>14,
     <1>15, <1>16, <1>17, <1>18
  DEF Endpoint

-----------------------------------------------------------------------------
(* Every commit keeps what stands, and is a step of JobPhases.             *)
LEMMA CommitJob ==
  ASSUME OneByOne, JobInv, NEW w \in Workers, Commit(w), TypeOK'
  PROVE  Stands(wo', diagnosis') /\ Step2(wo, wo') /\ \A v \in Workers : Current(v)'
<1> DEFINE copy == request[w].row
           h == NextStep(w)
           more == Tail(request[w].plan) # <<>>
<1>t. /\ TypeOK /\ wo \in Row /\ profile \in Profiles /\ diagnosis \in Diagnosis
      /\ wo' \in Row /\ Stands(wo, diagnosis)
  BY DEF JobInv, TypeOK
<1>c. /\ Current(w)
      /\ request[w].plan # <<>> => /\ Fits(h, more, copy, request[w].diag, wo, diagnosis)
                                  /\ copy \in Row /\ h \in Step
  BY <1>t, HeadType DEF JobInv, Current, NextStep
<1>h. \A s : At(w, s) => request[w].plan # <<>> /\ h = s
  BY DEF At, NextStep
<1>b. wo.requires \in BOOLEAN /\ wo.approved \in BOOLEAN /\ wo.status \in Status
  BY <1>t DEF Row
<1>l. \A s : "sync" # s /\ s \notin {"approved", "awaiting_approval", "unapprove", "save"}
              /\ At(w, s)
              => Alike(wo, copy)
  BY <1>c, <1>h DEF Fits, Alike
<1>y. At(w, "sync") => Alike(wo, copy) /\ wo.status = "approved"
  BY <1>c, <1>h DEF Fits, Alike
<1>o. ASSUME NEW new \in Row, request[w].plan # <<>>, Proceed(w, new), Alike(wo', new),
             h = "approved" => wo'.status = "approved",
             h = "save" /\ more => wo'.status = "diagnosis"
      PROVE  \A v \in Workers : Current(v)'
  BY <1>o, <1>t, <1>c, Carry
<1>1. CASE Transition(w)
  <2>1. /\ request[w].plan # <<>> /\ h \in Status /\ Guard(copy, h)
        /\ wo' = After(copy, h) /\ Proceed(w, After(copy, h)) /\ diagnosis' = diagnosis
    BY <1>1 DEF Transition
  <2>2. copy \in Row /\ Loaded(wo, copy, h)
    BY <1>c, <2>1 DEF Fits, Loaded, Status
  <2>3. Stands(wo', diagnosis') /\ Step2(wo, wo')
    BY <1>t, <2>1, <2>2, MoveStands
  <2>4. wo'.status = h /\ h # "save" /\ Alike(wo', After(copy, h))
    BY <2>1, <2>2, AfterFields DEF Status, Alike
  <2> QED BY <1>t, <1>o, <2>1, <2>3, <2>4
<1>2. CASE SaveRow(w)
  <2>1. /\ request[w].plan # <<>> /\ h = "save" /\ wo' = copy /\ Proceed(w, copy)
        /\ diagnosis' = diagnosis
    BY <1>2, <1>h DEF SaveRow, related
  <2>2. /\ copy.status = wo.status /\ copy.pausedFrom = wo.pausedFrom
        /\ Alike(wo, copy) \/ wo.status = "diagnosis"
        /\ more => wo.status = "diagnosis"
    BY <1>c, <2>1 DEF Fits, Alike
  <2>3. Stands(wo', diagnosis') /\ Step2(wo, wo')
    <3>1. CASE Alike(wo, copy)
      BY <1>t, <2>1, <3>1, AlikeStands
    <3>2. CASE wo.status = "diagnosis"
      <4>1. copy.pausedFrom = "none" /\ copy.status = "diagnosis"
        BY <1>t, <2>2, <3>2 DEF Stands, PausedOK
      <4> QED BY <1>t, <1>c, <2>1, <3>2, <4>1, AssessStands DEF Assessed
    <3> QED BY <2>2, <3>1, <3>2
  <2>4. Alike(wo', copy) /\ (more => wo'.status = "diagnosis")
    BY <2>1, <2>2 DEF Alike
  <2> QED BY <1>c, <1>o, <2>1, <2>3, <2>4
<1>3. CASE Fill(w)
  <2> DEFINE new == [copy EXCEPT !.filled = @ \cup {h}]
  <2>1. /\ request[w].plan # <<>> /\ h \in Fields /\ wo' = [wo EXCEPT !.filled = @ \cup {h}]
        /\ Proceed(w, new) /\ diagnosis' = diagnosis
    BY <1>3 DEF Fill, related
  <2>2. Alike(wo, copy) /\ h \notin {"approved", "save"} /\ copy \in Row
    BY <1>c, <2>1 DEF Fits, Alike, Fields
  <2>3. Alike(wo, wo') /\ Alike(wo', new) /\ new \in Row
    BY <1>t, <2>1, <2>2 DEF Alike, Row
  <2>4. Stands(wo', diagnosis') /\ Step2(wo, wo')
    BY <1>t, <2>1, <2>3, AlikeStands
  <2> QED BY <1>o, <2>1, <2>2, <2>3, <2>4
<1>4. CASE SetApproval(w)
  <2> PICK step \in {"agree", "unapprove"} :
        /\ At(w, step)
        /\ wo' = [wo EXCEPT !.approved = (step = "agree")]
        /\ Proceed(w, [request[w].row EXCEPT !.approved = (step = "agree")])
        /\ UNCHANGED related
    BY <1>4 DEF SetApproval
  <2> DEFINE new == [copy EXCEPT !.approved = (step = "agree")]
  <2>1. request[w].plan # <<>> /\ h = step /\ copy \in Row
    BY <1>c, <1>h
  <2>2. /\ copy.status = wo.status /\ copy.pausedFrom = wo.pausedFrom
        /\ copy.requires = wo.requires
        /\ wo.status \in {"diagnosis", "awaiting_approval"}
    BY <1>c, <2>1 DEF Fits
  <2>3. new \in Row /\ Alike(wo', new)
    BY <1>t, <2>1, <2>2 DEF Alike, Row
  <2>4. wo'.status = wo.status /\ wo'.pausedFrom = "none"
    BY <1>t, <2>2 DEF Row, Stands, PausedOK
  <2>5. Stands(wo', diagnosis') /\ Step2(wo, wo')
    <3>1. wo.status \in Assessed /\ wo'.status \in Assessed /\ wo'.status # "approved"
      BY <2>2, <2>4 DEF Assessed
    <3> QED BY <1>t, <2>4, <3>1, AssessStands
  <2> QED BY <1>o, <2>1, <2>3, <2>5
<1>5. CASE Release(w)
  <2>1. /\ request[w].plan # <<>> /\ h = "release" /\ Proceed(w, copy)
        /\ wo' = [wo EXCEPT !.filled = @ \ {"technician"}] /\ diagnosis' = diagnosis
    BY <1>5, <1>h DEF Release, related
  <2>2. Alike(wo, copy) /\ copy \in Row
    BY <1>5, <1>l, <1>c, <2>1 DEF Release
  <2>3. Alike(wo, wo') /\ Alike(wo', copy)
    BY <1>t, <2>1, <2>2 DEF Alike, Row
  <2>4. Stands(wo', diagnosis') /\ Step2(wo, wo')
    BY <1>t, <2>1, <2>3, AlikeStands
  <2> QED BY <1>o, <2>1, <2>2, <2>3, <2>4
<1>u. ASSUME UNCHANGED wo, diagnosis = "completed" => diagnosis' = "completed"
      PROVE  Stands(wo', diagnosis') /\ Step2(wo, wo')
  <2>1. Stands(wo, diagnosis')
    BY <1>t, <1>u, StandsAgain
  <2> QED BY <1>u, <2>1 DEF Step2, Promised
<1>6. CASE \/ SkipTasks(w) \/ CloseTasks(w) \/ ConvertRecommendations(w) \/ InsertPart(w)
           \/ SaveInspection(w) \/ SavePayment(w) \/ GetOrCreateDiagnosis(w)
  <2>1. /\ request[w].plan # <<>> /\ Proceed(w, copy) /\ UNCHANGED wo
        /\ h \in {"skip_tasks", "close_tasks", "convert", "add_part", "approve_inspection",
                  "pay", "create_diagnosis"}
        /\ At(w, h)
    BY <1>6, <1>h DEF SkipTasks, CloseTasks, ConvertRecommendations, InsertPart,
       SaveInspection, SavePayment, GetOrCreateDiagnosis
  <2>2. Alike(wo', copy) /\ copy \in Row
    BY <1>l, <1>c, <2>1
  <2>3. diagnosis = "completed" => diagnosis' = "completed"
    BY <1>6 DEF SkipTasks, CloseTasks, ConvertRecommendations, InsertPart, SaveInspection,
       SavePayment, GetOrCreateDiagnosis
  <2> QED BY <1>o, <1>u, <2>1, <2>2, <2>3
<1>7. CASE Reload(w)
  <2>1. request[w].plan # <<>> /\ h = "reload" /\ UNCHANGED <<wo, diagnosis>>
    BY <1>7, <1>h DEF Reload, related
  <2>2. Proceed(w, wo) \/ request' = [request EXCEPT ![w] = Idle]
    BY <1>7 DEF Reload
  <2>3. Alike(wo', wo)
    BY <2>1 DEF Alike
  <2>4. CASE Proceed(w, wo)
    BY <1>t, <1>o, <1>u, <2>1, <2>3, <2>4
  <2>5. CASE request' = [request EXCEPT ![w] = Idle]
    BY <1>t, <1>u, <2>1, <2>5, Dropped
  <2> QED BY <2>2, <2>4, <2>5
(* The diagnosis record.                                                   *)
<1>d. ASSUME NEW status, NEW row \in Row, request[w].plan # <<>>, h \notin {"approved", "save"},
             DiagnosisCommit(w, status, row), Stands(row, status), Step2(wo, row)
      PROVE  Stands(wo', diagnosis') /\ Step2(wo, wo') /\ \A v \in Workers : Current(v)'
  <2>1. wo' = row /\ diagnosis' = status /\ Proceed(w, row)
    BY <1>d DEF DiagnosisCommit
  <2>2. Alike(wo', row)
    BY <2>1 DEF Alike
  <2>3. \A v \in Workers : Current(v)'
    BY <1>d, <1>o, <2>1, <2>2
  <2> QED BY <1>d, <2>1, <2>3
<1>s. Step2(wo, wo)
  BY DEF Step2, Promised
<1>m. ASSUME NEW t \in {"paused", "diagnosis", "awaiting_approval"}, NEW row \in Row, NEW e,
             row.status = wo.status, row.pausedFrom = wo.pausedFrom,
             row.approved = wo.approved, t # "awaiting_approval" => row.requires = wo.requires,
             t = "awaiting_approval" /\ row.requires # wo.requires => row.requires,
             Guard(row, t), diagnosis = "completed" => e = "completed"
      PROVE  After(row, t) \in Row /\ Stands(After(row, t), e) /\ Step2(wo, After(row, t))
  <2>1. t \in Status /\ Loaded(wo, row, t)
    BY <1>m DEF Loaded, Status
  <2> QED BY <1>t, <1>m, <2>1, MoveStands, AfterType, StandsAgain
<1>f. ASSUME NEW s \in {"d_pause", "d_resume", "d_submit", "d_complete", "d_complete_free"},
             At(w, s), request[w].diag \notin {"none", "not_started"}
      PROVE  /\ diagnosis = request[w].diag
             /\ Alike(wo, copy) /\ copy \in Row
             /\ h \notin {"approved", "save"} /\ request[w].plan # <<>>
  BY <1>f, <1>c, <1>h, <1>l DEF Fits, Later
<1>8. CASE PauseDiagnosis(w)
  <2>1. /\ At(w, "d_pause") /\ request[w].diag = "in_progress"
        /\ copy.status = "diagnosis" => Guard(copy, "paused")
        /\ DiagnosisCommit(w, "paused",
             IF copy.status = "diagnosis" THEN After(copy, "paused") ELSE wo)
    BY <1>8 DEF PauseDiagnosis
  <2>2. /\ diagnosis = "in_progress" /\ Alike(wo, copy) /\ copy \in Row
        /\ h \notin {"approved", "save"} /\ request[w].plan # <<>>
    BY <1>f, <2>1
  <2>3. CASE copy.status = "diagnosis"
    <3>1. /\ After(copy, "paused") \in Row /\ Stands(After(copy, "paused"), "paused")
          /\ Step2(wo, After(copy, "paused"))
      BY <1>m, <2>1, <2>2, <2>3 DEF Alike
    <3> QED BY <1>d, <2>1, <2>2, <2>3, <3>1
  <2>4. CASE copy.status # "diagnosis"
    <3>1. Stands(wo, "paused")
      BY <1>t, <2>2, StandsAgain
    <3> QED BY <1>t, <1>d, <1>s, <2>1, <2>2, <2>4, <3>1
  <2> QED BY <2>3, <2>4
<1>9. CASE ResumeDiagnosis(w)
  <2>1. /\ At(w, "d_resume") /\ request[w].diag = "paused"
        /\ copy.status = "paused" => Guard(copy, "diagnosis")
        /\ DiagnosisCommit(w, "in_progress",
             IF copy.status = "paused" THEN After(copy, "diagnosis") ELSE wo)
    BY <1>9 DEF ResumeDiagnosis
  <2>2. /\ diagnosis = "paused" /\ Alike(wo, copy) /\ copy \in Row
        /\ h \notin {"approved", "save"} /\ request[w].plan # <<>>
    BY <1>f, <2>1
  <2>3. CASE copy.status = "paused"
    <3>1. /\ After(copy, "diagnosis") \in Row /\ Stands(After(copy, "diagnosis"), "in_progress")
          /\ Step2(wo, After(copy, "diagnosis"))
      BY <1>m, <2>1, <2>2, <2>3 DEF Alike
    <3> QED BY <1>d, <2>1, <2>2, <2>3, <3>1
  <2>4. CASE copy.status # "paused"
    <3>1. Stands(wo, "in_progress")
      BY <1>t, <2>2, StandsAgain
    <3> QED BY <1>t, <1>d, <1>s, <2>1, <2>2, <2>4, <3>1
  <2> QED BY <2>3, <2>4
<1>n. ASSUME NEW b \in BOOLEAN
      PROVE  /\ Noted(b) \in Row /\ Noted(b).status = wo.status
             /\ Noted(b).pausedFrom = wo.pausedFrom
             /\ Noted(b).approved = wo.approved /\ Noted(b).requires = b
             /\ PhaseOf(Noted(b)) = PhaseOf(wo) /\ (Repairing(Noted(b)) <=> Repairing(wo))
             /\ Repairing(wo) => PhaseOf(wo) = "repair"
             /\ PhaseOf(wo) = "repair" => Repairing(wo)
  <2>1. /\ Noted(b) \in Row /\ Noted(b).status = wo.status
        /\ Noted(b).pausedFrom = wo.pausedFrom
        /\ Noted(b).approved = wo.approved /\ Noted(b).requires = b
    BY <1>t, NotedType DEF Noted, Row
  <2> QED BY <1>t, <2>1, SamePhase, PhaseValues
<1>r. ASSUME Repairing(wo) => wo.approved, NEW e
      PROVE  Stands(Noted(TRUE), e) /\ Step2(wo, Noted(TRUE))
  <2>1. Repairing(wo) => is_approved(wo) /\ is_approved(Noted(TRUE))
    BY <1>r, <1>n DEF is_approved
  <2> QED BY <1>t, <1>n, <2>1 DEF Stands, PausedOK, Step2, Promised, is_approved
<1>10. CASE SubmitDiagnosis(w)
  <2>1. /\ At(w, "d_submit") /\ request[w].diag \in {"in_progress", "paused"}
        /\ wo.status = "diagnosis" => Guard(Noted(TRUE), "awaiting_approval")
        /\ DiagnosisCommit(w, "awaiting_approval",
             IF wo.status = "diagnosis" THEN After(Noted(TRUE), "awaiting_approval")
             ELSE Noted(TRUE))
    BY <1>10 DEF SubmitDiagnosis
  <2>2. /\ diagnosis # "completed"
        /\ h \notin {"approved", "save"} /\ request[w].plan # <<>>
    BY <1>f, <2>1
  <2>3. CASE wo.status = "diagnosis"
    <3>1. /\ After(Noted(TRUE), "awaiting_approval") \in Row
          /\ Stands(After(Noted(TRUE), "awaiting_approval"), "awaiting_approval")
          /\ Step2(wo, After(Noted(TRUE), "awaiting_approval"))
      BY <1>m, <1>n, <2>1, <2>2, <2>3
    <3> QED BY <1>d, <2>1, <2>2, <2>3, <3>1
  <2>4. CASE wo.status # "diagnosis"
    <3>1. Repairing(wo) => wo.approved
      BY <1>t, <1>b, <2>2 DEF Stands, is_approved
    <3>2. Stands(Noted(TRUE), "awaiting_approval") /\ Step2(wo, Noted(TRUE))
      BY <1>r, <3>1
    <3> QED BY <1>d, <1>n, <2>1, <2>2, <2>4, <3>2
  <2> QED BY <2>3, <2>4
<1>k. ASSUME wo.status = "diagnosis", NEW row \in Row, row.status \in Assessed,
             row.pausedFrom = "none"
      PROVE  Stands(row, "completed") /\ Step2(wo, row)
  BY <1>t, <1>k, AssessStands DEF Assessed
<1>x. ASSUME NEW b \in BOOLEAN, b /\ Repairing(wo) => wo.approved
      PROVE  /\ Completed(b) \in Row
             /\ Stands(Completed(b), "completed") /\ Step2(wo, Completed(b))
  <2>1. Completed(b) \in Row
    BY <1>t, CompletedType
  <2>2. CASE wo.status = "diagnosis"
    <3>1. wo.pausedFrom = "none"
      BY <1>t, <2>2 DEF Stands, PausedOK
    <3>2. Completed(b).status \in Assessed /\ Completed(b).pausedFrom = "none"
      <4> DEFINE agreed == [Noted(b) EXCEPT !.approved = TRUE]
                 asked == After(agreed, "awaiting_approval")
      <4>1. /\ agreed \in Row /\ agreed.status = "diagnosis" /\ agreed.pausedFrom = "none"
            /\ Noted(b) \in Row /\ Noted(b).status = "diagnosis"
            /\ Noted(b).pausedFrom = "none"
        <5>1. Noted(b) \in Row /\ Noted(b).status = wo.status /\ Noted(b).pausedFrom = wo.pausedFrom
          BY <1>n
        <5>2. agreed \in Row
          BY <5>1, CopyType
        <5>3. agreed.status = Noted(b).status /\ agreed.pausedFrom = Noted(b).pausedFrom
          BY <5>1 DEF Row
        <5> HIDE DEF agreed
        <5> QED BY <2>2, <3>1, <5>1, <5>2, <5>3
      <4>2. /\ asked \in Row /\ asked.status = "awaiting_approval"
            /\ asked.pausedFrom = "none"
            /\ After(Noted(b), "awaiting_approval").status = "awaiting_approval"
            /\ After(Noted(b), "awaiting_approval").pausedFrom = "none"
        <5>1. "awaiting_approval" \in Status /\ "diagnosis" # "paused"
          BY DEF Status
        <5> HIDE DEF agreed
        <5> QED BY <4>1, <5>1, AfterFields, AfterType
      <4>3. After(asked, "approved").status = "approved"
            /\ After(asked, "approved").pausedFrom = "none"
        BY <4>2, AfterFields DEF Status
      <4> QED BY <2>2, <4>1, <4>2, <4>3 DEF Completed, Assessed
    <3> QED BY <1>k, <2>1, <2>2, <3>2
  <2>3. CASE wo.status # "diagnosis"
    <3>1. Completed(b) = Noted(b)
      BY <2>3 DEF Completed
    <3>2. CASE b
      <4>1. b = TRUE
        BY <3>2
      <4> QED BY <1>r, <1>x, <2>1, <3>1, <4>1
    <3>3. CASE ~b
      <4>1. is_approved(Noted(b)) = TRUE
        BY <1>n, <3>3 DEF is_approved
      <4>2. Repairing(wo) => is_approved(wo) = TRUE
        BY <1>t DEF Stands, is_approved
      <4>3. Stands(Noted(b), "completed")
        BY <1>t, <1>n, <4>1 DEF Stands, PausedOK
      <4>4. Step2(wo, Noted(b))
        BY <1>n, <4>1, <4>2 DEF Step2, Promised
      <4> QED BY <2>1, <3>1, <4>3, <4>4
    <3> QED BY <3>2, <3>3
  <2> QED BY <2>2, <2>3
<1>11. CASE \E requires \in BOOLEAN : CompleteDiagnosisRecord(w, requires)
  <2> PICK requires \in BOOLEAN : CompleteDiagnosisRecord(w, requires)
    BY <1>11
  <2>1. /\ At(w, IF requires THEN "d_complete" ELSE "d_complete_free")
        /\ request[w].diag \in {"in_progress", "paused", "awaiting_approval"}
        /\ requires => copy.approved
        /\ DiagnosisCommit(w, "completed", Completed(requires))
    BY DEF CompleteDiagnosisRecord
  <2>2. Alike(wo, copy) /\ h \notin {"approved", "save"} /\ request[w].plan # <<>>
    BY <1>f, <2>1
  <2>3. requires /\ Repairing(wo) => wo.approved
    BY <2>1, <2>2 DEF Alike
  <2> QED BY <1>d, <1>x, <2>1, <2>2, <2>3
<1>12. CASE SyncDiagnosis(w)
  <2>1. /\ At(w, "sync") /\ request[w].plan # <<>> /\ h = "sync" /\ copy \in Row
        /\ Alike(wo, copy) /\ wo.status = "approved"
    BY <1>12, <1>h, <1>y, <1>c DEF SyncDiagnosis
  <2>2. CASE diagnosis = "awaiting_approval"
    <3>1. DiagnosisCommit(w, "completed", Completed(TRUE))
      BY <1>12, <2>2 DEF SyncDiagnosis
    <3>2. ~Repairing(wo)
      BY <2>1 DEF Repairing
    <3> QED BY <1>d, <1>x, <2>1, <3>1, <3>2
  <2>3. CASE diagnosis # "awaiting_approval"
    <3>1. Proceed(w, copy) /\ UNCHANGED <<wo, diagnosis>>
      BY <1>12, <2>3 DEF SyncDiagnosis, related
    <3>2. Alike(wo', copy)
      BY <2>1, <3>1 DEF Alike
    <3> QED BY <1>u, <1>o, <2>1, <3>1, <3>2
  <2> QED BY <2>2, <2>3
<1>13. CASE ReopenDiagnosis(w)
  <2> DEFINE again == [copy EXCEPT !.approved = FALSE]
             row == IF again.status = "awaiting_approval" THEN After(again, "diagnosis")
                    ELSE [wo EXCEPT !.approved = FALSE]
  <2>1. /\ At(w, "reopen") /\ DiagnosisCommit(w, "in_progress", row)
        /\ again.status \in {"diagnosis", "awaiting_approval"}
    BY <1>13 DEF ReopenDiagnosis
  <2>2. Alike(wo, copy) /\ copy \in Row /\ request[w].plan # <<>> /\ h = "reopen"
    BY <1>h, <1>l, <1>c, <2>1
  <2>3. /\ again \in Row /\ again.status = wo.status /\ again.pausedFrom = wo.pausedFrom
        /\ [wo EXCEPT !.approved = FALSE] \in Row
        /\ [wo EXCEPT !.approved = FALSE].status = wo.status
        /\ [wo EXCEPT !.approved = FALSE].pausedFrom = wo.pausedFrom
    <3>1. again \in Row /\ [wo EXCEPT !.approved = FALSE] \in Row
      BY <1>t, <2>2, CopyType
    <3>2. again.status = copy.status /\ again.pausedFrom = copy.pausedFrom
      BY <2>2 DEF Row
    <3>3. /\ [wo EXCEPT !.approved = FALSE].status = wo.status
          /\ [wo EXCEPT !.approved = FALSE].pausedFrom = wo.pausedFrom
      BY <1>t DEF Row
    <3> HIDE DEF again
    <3> QED BY <2>2, <3>1, <3>2, <3>3 DEF Alike
  <2>4. wo.status \in {"diagnosis", "awaiting_approval"} /\ wo.pausedFrom = "none"
    BY <1>t, <2>1, <2>3 DEF Stands, PausedOK
  <2>5. /\ After(again, "diagnosis") \in Row /\ After(again, "diagnosis").status = "diagnosis"
        /\ After(again, "diagnosis").pausedFrom = "none"
    <3>1. "diagnosis" \in Status
      BY DEF Status
    <3> HIDE DEF again
    <3> QED BY <2>3, <2>4, <3>1, AfterType, AfterFields
  <2>6. row \in Row /\ row.status = "diagnosis" /\ row.pausedFrom = "none"
    BY <2>1, <2>3, <2>4, <2>5
  <2>7. Stands(row, "in_progress") /\ Step2(wo, row)
    <3>1. wo.status \in Assessed /\ row.status \in Assessed /\ row.status # "approved"
      BY <2>4, <2>6 DEF Assessed
    <3> HIDE DEF row
    <3> QED BY <1>t, <2>6, <3>1, AssessStands
  <2> QED BY <1>d, <2>1, <2>2, <2>6, <2>7
<1> QED
  BY <1>1, <1>2, <1>3, <1>4, <1>5, <1>6, <1>7, <1>8, <1>9, <1>10, <1>11, <1>12, <1>13
  DEF Commit

-----------------------------------------------------------------------------
LEMMA SingleJob ==
  ASSUME JobInv, Single
  PROVE  /\ Stands(wo', diagnosis') /\ Step2(wo, wo')
         /\ \A v \in Workers : Current(v)'
<1>1. /\ UNCHANGED <<wo, request>>
      /\ diagnosis' = diagnosis \/ diagnosis \in {"none", "not_started"}
  BY DEF Single, complete_inspection, reject_inspection, start_task, create_task, skip_task,
     resolve_part, create_diagnosis, start_diagnosis_record, create_invoice, issue_invoice,
     void_invoice
<1>2. Stands(wo, diagnosis')
  BY <1>1, StandsAgain DEF JobInv
<1>3. ASSUME NEW v \in Workers PROVE Current(v)'
  <2>1. Current(v)
    BY DEF JobInv
  <2> QED BY <1>1, <2>1 DEF Current, Fits
<1> QED BY <1>1, <1>2, <1>3 DEF Step2, Promised

LEMMA JobInit == Init => JobInv /\ Job!Init
<1> SUFFICES ASSUME Init PROVE JobInv /\ Job!Init
  OBVIOUS
<1>1. TypeOK
  BY TypeInit
<1>2. /\ wo.status = "draft" \/ (profile = "routine_fast_track" /\ wo.status = "approved")
      /\ wo.pausedFrom = "none" /\ diagnosis = "none"
      /\ profile = "routine_fast_track" => wo.approved
  <2> PICK checked :
        /\ \/ wo = NewRow(profile, checked)
           \/ /\ profile = "routine_fast_track"
              /\ wo = [NewRow(profile, checked) EXCEPT !.status = "approved"]
        /\ diagnosis = "none"
    BY DEF Init
  <2>2. CASE wo = NewRow(profile, checked)
    <3>1. /\ wo.status = "draft" /\ wo.pausedFrom = "none"
          /\ wo.approved = (profile = "routine_fast_track")
      BY <2>2 DEF NewRow
    <3> QED BY <3>1
  <2>3. CASE /\ profile = "routine_fast_track"
             /\ wo = [NewRow(profile, checked) EXCEPT !.status = "approved"]
    BY <2>3 DEF NewRow
  <2> QED BY <2>2, <2>3
<1>3. Stands(wo, diagnosis)
  BY <1>2 DEF Stands, PausedOK, Repairing
<1>4. \A w \in Workers : Current(w)
  BY DEF Init, Current, Idle
<1>5. phase \in {"intake", "assessment"} /\ is_approved(wo) \in BOOLEAN
  BY <1>2 DEF phase, is_approved
<1> QED BY <1>1, <1>3, <1>4, <1>5 DEF JobInv, Job!Init

LEMMA ProfileKept == ASSUME [Next]_vars PROVE profile' = profile
<1>1. ASSUME NEW w \in Workers, Endpoint(w) PROVE profile' = profile
  BY <1>1 DEF Endpoint, start_intake, start_diagnosis, request_approval, complete_diagnosis,
     approve, decline, start_work, pause, resume, flag_additional_work,
     request_quality_check, quality_check, complete, mark_invoiced, close, discontinue_job,
     set_status, edit, release_assignment, complete_task, add_part, approve_inspection,
     pay_invoice, diagnosis_action, dvi_form, mobile_quick_update, workorder_edit_view, Plan,
       related
<1>2. ASSUME NEW w \in Workers, Commit(w) PROVE profile' = profile
  BY <1>2 DEF Commit, Transition, SaveRow, Fill, SetApproval, Release, SkipTasks, CloseTasks,
     ConvertRecommendations, InsertPart, SaveInspection, SavePayment, Reload,
     GetOrCreateDiagnosis, PauseDiagnosis, ResumeDiagnosis, SubmitDiagnosis,
     CompleteDiagnosisRecord, SyncDiagnosis, ReopenDiagnosis, DiagnosisCommit, related
<1>3. Single => profile' = profile
  BY DEF Single, complete_inspection, reject_inspection, start_task, create_task, skip_task,
     resolve_part, create_diagnosis, start_diagnosis_record, create_invoice, issue_invoice,
     void_invoice
<1> QED BY <1>1, <1>2, <1>3 DEF Next, Abort, related, vars

LEMMA JobStep ==
  ASSUME OneByOne, JobInv, [Next]_vars
  PROVE  JobInv' /\ [Job!Next]_(Job!vars)
<1>1. TypeOK'
  BY TypeNext DEF JobInv
<1>2. /\ Stands(wo', diagnosis') /\ Step2(wo, wo')
      /\ \A v \in Workers : Current(v)'
  <2>1. CASE Single
    BY <2>1, SingleJob
  <2>2. CASE \E w \in Workers : Endpoint(w)
    <3> PICK w \in Workers : Endpoint(w)
      BY <2>2
    <3>1. UNCHANGED <<wo, diagnosis>> /\ \A v \in Workers : Current(v)'
      BY EndpointCurrent DEF JobInv
    <3> QED BY <3>1 DEF JobInv, Step2, Promised
  <2>3. CASE \E w \in Workers : Commit(w)
    BY <1>1, <2>3, CommitJob
  <2>4. CASE \E w \in Workers : Abort(w)
    <3> PICK w \in Workers : Abort(w)
      BY <2>4
    <3>1. \A v \in Workers : Current(v)'
      BY Dropped DEF Abort, JobInv
    <3>2. UNCHANGED <<wo, diagnosis>>
      BY DEF Abort, related
    <3> QED BY <3>1, <3>2 DEF JobInv, Step2, Promised
  <2>5. CASE UNCHANGED vars
    <3>1. UNCHANGED <<wo, diagnosis, request>>
      BY <2>5 DEF vars
    <3> QED BY <3>1 DEF JobInv, Step2, Promised, Current
  <2> QED BY <2>1, <2>2, <2>3, <2>4, <2>5 DEF Next
<1>3. Stands(wo, diagnosis)'
  <2>1. profile' = profile
    BY ProfileKept
  <2> QED BY <1>2, <2>1 DEF Stands, PausedOK, Repairing, is_approved
<1> QED BY <1>1, <1>2, <1>3, PromisedStep DEF JobInv

(* While requests do not overlap and nobody goes around the transitions,    *)
(* transition_to and the endpoints keep the promise of JobPhases.          *)
THEOREM JobPromiseHolds == ASSUME OneByOne PROVE Spec => JobPromise
<1>1. Init => JobInv /\ Job!Init
  BY JobInit
<1>2. JobInv /\ [Next]_vars => JobInv' /\ [Job!Next]_(Job!vars)
  BY JobStep
<1> QED BY <1>1, <1>2, PTL DEF Spec, JobPromise, Job!Spec

=============================================================================
