----------------------------- MODULE WorkOrders -----------------------------
(***************************************************************************)
(* One work order from check-in to gate pass (apps/workorders), with what  *)
(* its transitions read: the inspection, the diagnosis record, mechanical  *)
(* tasks, parts and invoice that belong to it.                             *)
(*                                                                         *)
(* Every endpoint loads the work order, decides on that copy, and saves:   *)
(* a transition writes the whole row back (save()), other changes only     *)
(* the columns they name (save(update_fields=...)).  Nothing is locked, so *)
(* an endpoint is modelled by the copy it loaded and the plan of commits   *)
(* it still has to make; other requests commit in between.  Any commit may *)
(* be refused, or the process may die before it (Abort): what was          *)
(* committed stays.                                                        *)
(***************************************************************************)
EXTENDS Sequences, FiniteSets

CONSTANTS
  Workers,      \* request handlers running at the same time
  Profiles,     \* workflow profiles a job may have
  Ops,          \* endpoints in use
  Prefilled,    \* fields every job has from its creation
  Targets,      \* statuses that staff set directly, BOUND of bulk updates and PATCH
  PatchedFlags, \* approval and QC columns that staff PATCH directly
  BackDoors,    \* server-rendered and mobile views that set the status
  DirectStatuses \* BOUND: statuses those views are asked to set

AllProfiles == {"full_repair", "routine_fast_track", "inspection_only", "diagnostic_only"}
Fields == {"coordinator", "technician", "inspector", "notes", "odometer", "reason"}
Flags == {"requires", "approved", "qcDone", "qcPassed", "qcWaived", "qcDemanded"}

VARIABLES
  wo,          \* the WorkOrder row
  profile,     \* workflow profile of its job type
  inspection,  \* its vehicle inspection: open, completed or approved
  diagnosis,   \* status of its diagnosis record
  tasks,       \* its mechanical tasks: none, one still open, all closed
  parts,       \* its parts: none, one unresolved, all installed or returned
  invoice,     \* its primary invoice: none, draft, issued or paid
  request      \* what each request handler holds and has still to do

related == <<profile, inspection, diagnosis, tasks, parts, invoice>>
vars == <<wo, profile, inspection, diagnosis, tasks, parts, invoice, request>>

-----------------------------------------------------------------------------
Status == {"draft", "inspection", "intake", "assigned", "diagnosis",
           "awaiting_approval", "approved", "in_progress", "paused",
           "additional_work_found", "quality_check", "completed",
           "discontinued_pending_bill", "invoiced", "closed"}

ASSUME ConstantsAssumption ==
  /\ Profiles # {} /\ Profiles \subseteq AllProfiles
  /\ Prefilled \subseteq Fields \ {"reason"}
  /\ Targets \subseteq Status
  /\ PatchedFlags \subseteq Flags
  /\ BackDoors \subseteq {"dvi_form", "quick_update", "edit_form"}
  /\ DirectStatuses \subseteq Status

VALID_TRANSITIONS == [
  draft |-> {"inspection"},
  inspection |-> {"intake", "draft", "discontinued_pending_bill"},
  intake |-> {"assigned", "discontinued_pending_bill"},
  assigned |-> {"diagnosis", "intake", "discontinued_pending_bill"},
  diagnosis |-> {"awaiting_approval", "paused", "discontinued_pending_bill"},
  awaiting_approval |-> {"approved", "diagnosis", "discontinued_pending_bill"},
  approved |-> {"in_progress", "additional_work_found", "discontinued_pending_bill"},
  in_progress |-> {"paused", "quality_check", "additional_work_found",
                   "discontinued_pending_bill"},
  additional_work_found |-> {"awaiting_approval", "discontinued_pending_bill"},
  paused |-> {"diagnosis", "in_progress", "additional_work_found",
              "discontinued_pending_bill"},
  quality_check |-> {"completed", "in_progress", "discontinued_pending_bill"},
  discontinued_pending_bill |-> {"invoiced"},
  completed |-> {"invoiced"},
  invoiced |-> {"closed"},
  closed |-> {}]

(* What a profile adds to the graph, and what it takes away.               *)
ExtraTransitions == [
  full_repair |-> {}, routine_fast_track |-> {},
  inspection_only |-> {<<"inspection", "completed">>},
  diagnostic_only |-> {<<"diagnosis", "completed">>, <<"awaiting_approval", "completed">>,
                       <<"approved", "completed">>}]
BlockedTransitions == [
  full_repair |-> {}, routine_fast_track |-> {},
  inspection_only |-> {<<"inspection", "intake">>},
  diagnostic_only |-> {<<"approved", "in_progress">>}]

Row == [status: Status, pausedFrom: {"none"} \cup Status, requires: BOOLEAN,
        approved: BOOLEAN, qcRequired: BOOLEAN, qcDone: BOOLEAN, qcPassed: BOOLEAN,
        filled: SUBSET Fields]
Diagnosis == {"none", "not_started", "in_progress", "paused", "awaiting_approval",
              "completed"}
Step == Status \cup Fields \cup
  {"save", "agree", "unapprove", "release", "skip_tasks", "close_tasks", "convert", "add_part",
   "approve_inspection", "pay", "reload", "create_diagnosis", "sync", "reopen",
   "d_pause", "d_resume", "d_submit", "d_complete", "d_complete_free"}
Request == [row: Row, diag: Diagnosis, plan: Seq(Step)]

NewRow(p, checked) ==
  [status |-> "draft", pausedFrom |-> "none", requires |-> p # "routine_fast_track",
   approved |-> p = "routine_fast_track", qcRequired |-> checked, qcDone |-> FALSE,
   qcPassed |-> FALSE, filled |-> Prefilled]
Idle == [row |-> NewRow("full_repair", TRUE), diag |-> "none", plan |-> <<>>]

(* A routine job gets its tasks and parts from the service bundle and is    *)
(* approved at check-in, unless that transition fails.  Its job type says   *)
(* whether a full repair needs a quality check; no other profile does.     *)
Init ==
  /\ profile \in Profiles
  /\ \E checked \in {FALSE, profile = "full_repair"} :
       wo \in {NewRow(profile, checked)} \cup
         IF profile = "routine_fast_track"
         THEN {[NewRow(profile, checked) EXCEPT !.status = "approved"]} ELSE {}
  /\ tasks = IF profile = "routine_fast_track" THEN "open" ELSE "none"
  /\ parts = IF profile = "routine_fast_track" THEN "open" ELSE "none"
  /\ inspection = "open" /\ diagnosis = "none" /\ invoice = "none"
  /\ request = [w \in Workers |-> Idle]

-----------------------------------------------------------------------------
(* can_transition_to and validate_before_status_change.                    *)

is_approved(row) == ~row.requires \/ row.approved
SkipsDiagnosis == profile \in {"routine_fast_track", "inspection_only"}
InspectionDone == inspection \in {"completed", "approved"}
Issued == invoice \in {"issued", "paid"}
MustBeChecked(row) ==
  profile \notin {"inspection_only", "diagnostic_only"} /\ row.qcRequired

Allowed(s, t) ==
  /\ t \in VALID_TRANSITIONS[s] \/ <<s, t>> \in ExtraTransitions[profile]
  /\ <<s, t>> \notin BlockedTransitions[profile]

CompletableNoQc(row) ==                     \* Fault: QC result not asked for
  CASE profile = "inspection_only" -> InspectionDone
    [] profile = "diagnostic_only" -> "notes" \in row.filled
    [] OTHER -> tasks = "closed" /\ parts # "open"
Completable(row) ==
  CASE profile = "inspection_only" -> InspectionDone
    [] profile = "diagnostic_only" -> "notes" \in row.filled
    [] OTHER -> tasks = "closed" /\ parts # "open" /\ (row.qcRequired => row.qcDone)

StartableUnapproved(row) ==                 \* Fault: approval not asked for
  /\ "technician" \in row.filled
  /\ row.status = "paused" =>
       row.pausedFrom # "diagnosis" /\ diagnosis \in {"none", "completed"}
Startable(row) ==
  /\ is_approved(row) /\ "technician" \in row.filled
  /\ row.status = "paused" =>
       row.pausedFrom # "diagnosis" /\ diagnosis \in {"none", "completed"}

FastTrack(row, t) ==
  /\ profile = "routine_fast_track" /\ row.status = "draft" /\ t = "approved"
  /\ tasks # "none" /\ parts # "none"

Guard(row, t) ==
  \/ FastTrack(row, t)
  \/ /\ Allowed(row.status, t)
     /\ t = "discontinued_pending_bill" => "reason" \in row.filled
     /\ t = "assigned" => "coordinator" \in row.filled
     /\ t = "intake" => InspectionDone \/ profile = "routine_fast_track"
     /\ t = "diagnosis" =>
          /\ ~SkipsDiagnosis
          /\ "coordinator" \in row.filled \/ row.status \in {"paused", "awaiting_approval"}
          /\ row.status = "paused" => diagnosis = "paused"
     /\ t = "awaiting_approval" => ~SkipsDiagnosis /\ "notes" \in row.filled
     /\ t = "approved" => row.requires \/ row.approved
     /\ t = "in_progress" => Startable(row)
     /\ t = "quality_check" => tasks = "closed" /\ "inspector" \in row.filled
     /\ t = "completed" => Completable(row)
     /\ t = "invoiced" => "odometer" \in row.filled /\ Issued
     /\ t = "closed" => Issued

(* The row transition_to saves.                                            *)
AfterPausedKept(row, t) ==                  \* Fault: pausedFrom not cleared
  [row EXCEPT !.status = t,
     !.pausedFrom = IF t = "paused" THEN row.status ELSE @,
     !.requires = @ \/ t = "additional_work_found",
     !.approved = @ /\ t # "additional_work_found"]
AfterBlank(row, t) ==                       \* Fault: blank instead of no status
  [row EXCEPT !.status = t,
     !.pausedFrom = IF t = "paused" THEN row.status
                    ELSE IF row.status = "paused" THEN "" ELSE @]
After(row, t) ==
  [status |-> t,
   pausedFrom |-> IF t = "paused" THEN row.status
                  ELSE IF row.status = "paused" THEN "none" ELSE row.pausedFrom,
   requires |-> row.requires \/ t = "additional_work_found",
   approved |-> row.approved /\ t # "additional_work_found",
   qcRequired |-> row.qcRequired, qcDone |-> row.qcDone, qcPassed |-> row.qcPassed,
   filled |-> row.filled]

-----------------------------------------------------------------------------
(* Commits.  A handler works off its plan; the copy it holds follows what   *)
(* it saves and is otherwise as old as the load.                           *)

NextStep(w) == Head(request[w].plan)
At(w, s) == request[w].plan # <<>> /\ Head(request[w].plan) = s

Proceed(w, copy) ==
  request' = [request EXCEPT ![w] =
    IF Tail(request[w].plan) = <<>> THEN Idle
    ELSE [row |-> copy, diag |-> request[w].diag, plan |-> Tail(request[w].plan)]]

(* transition_to, with the recommendations it turns into tasks.            *)
Transition(w) ==
  LET copy == request[w].row  t == NextStep(w) IN
  /\ request[w].plan # <<>> /\ t \in Status
  /\ Guard(copy, t)
  /\ wo' = After(copy, t)
  /\ tasks' \in IF t = "in_progress" /\ tasks = "none" /\ diagnosis # "none"
                THEN {"none", "open"} ELSE {tasks}
  /\ Proceed(w, After(copy, t))
  /\ UNCHANGED <<profile, inspection, diagnosis, parts, invoice>>

SaveRow(w) ==
  /\ At(w, "save")
  /\ wo' = request[w].row
  /\ Proceed(w, request[w].row)
  /\ UNCHANGED related

(* save(update_fields=...): the named column only, on the row and the copy. *)
Fill(w) ==
  LET f == NextStep(w) IN
  /\ request[w].plan # <<>> /\ f \in Fields
  /\ wo' = [wo EXCEPT !.filled = @ \cup {f}]
  /\ Proceed(w, [request[w].row EXCEPT !.filled = @ \cup {f}])
  /\ UNCHANGED related

SetApproval(w) ==
  \E step \in {"agree", "unapprove"} :
    /\ At(w, step)
    /\ wo' = [wo EXCEPT !.approved = (step = "agree")]
    /\ Proceed(w, [request[w].row EXCEPT !.approved = (step = "agree")])
    /\ UNCHANGED related

Release(w) ==
  /\ At(w, "release")
  /\ wo' = [wo EXCEPT !.filled = @ \ {"technician"}]
  /\ Proceed(w, request[w].row)
  /\ UNCHANGED related

(* Commits on the records beside the work order.                           *)
SkipTasks(w) ==
  /\ At(w, "skip_tasks")
  /\ tasks' = IF tasks = "open" THEN "closed" ELSE tasks
  /\ Proceed(w, request[w].row)
  /\ UNCHANGED <<wo, profile, inspection, diagnosis, parts, invoice>>

CloseTasks(w) ==
  /\ At(w, "close_tasks") /\ tasks = "open"
  /\ tasks' = "closed"
  /\ Proceed(w, request[w].row)
  /\ UNCHANGED <<wo, profile, inspection, diagnosis, parts, invoice>>

(* can_start_work, then convert_recommendations_to_tasks.                  *)
ConvertRecommendations(w) ==
  /\ At(w, "convert")
  /\ is_approved(request[w].row) /\ "technician" \in request[w].row.filled
  /\ tasks # "none" \/ diagnosis # "none"
  /\ tasks' \in (IF tasks = "none" THEN {} ELSE {tasks}) \cup
                (IF diagnosis = "none" THEN {} ELSE {"open"})
  /\ Proceed(w, request[w].row)
  /\ UNCHANGED <<wo, profile, inspection, diagnosis, parts, invoice>>

InsertPart(w) ==
  /\ At(w, "add_part")
  /\ parts' = "open"
  /\ Proceed(w, request[w].row)
  /\ UNCHANGED <<wo, profile, inspection, diagnosis, tasks, invoice>>

SaveInspection(w) ==
  /\ At(w, "approve_inspection")
  /\ inspection' = "approved"
  /\ Proceed(w, request[w].row)
  /\ UNCHANGED <<wo, profile, diagnosis, tasks, parts, invoice>>

SavePayment(w) ==
  /\ At(w, "pay") /\ invoice = "issued"
  /\ invoice' = "paid"
  /\ Proceed(w, request[w].row)
  /\ UNCHANGED <<wo, profile, inspection, diagnosis, tasks, parts>>

(* invoice.work_order is read after the payment: only a finished job goes on. *)
Reload(w) ==
  /\ At(w, "reload")
  /\ IF wo.status \in {"completed", "discontinued_pending_bill"}
     THEN Proceed(w, wo)
     ELSE request' = [request EXCEPT ![w] = Idle]
  /\ UNCHANGED <<wo, related>>

GetOrCreateDiagnosis(w) ==
  /\ At(w, "create_diagnosis")
  /\ diagnosis' = IF diagnosis = "none" THEN "not_started" ELSE diagnosis
  /\ Proceed(w, request[w].row)
  /\ UNCHANGED <<wo, profile, inspection, tasks, parts, invoice>>

-----------------------------------------------------------------------------
(* The diagnosis record moves the work order along with itself, in one      *)
(* transaction.  pause, resume and reopen use the copy they loaded; submit  *)
(* and complete refresh it first.                                          *)

DiagnosisCommit(w, status, row) ==
  /\ diagnosis' = status
  /\ wo' = row
  /\ Proceed(w, row)
  /\ UNCHANGED <<profile, inspection, tasks, parts, invoice>>

PauseDiagnosis(w) ==
  LET copy == request[w].row IN
  /\ At(w, "d_pause") /\ request[w].diag = "in_progress"
  /\ copy.status = "diagnosis" => Guard(copy, "paused")
  /\ DiagnosisCommit(w, "paused",
       IF copy.status = "diagnosis" THEN After(copy, "paused") ELSE wo)

ResumeDiagnosis(w) ==
  LET copy == request[w].row IN
  /\ At(w, "d_resume") /\ request[w].diag = "paused"
  /\ copy.status = "paused" => Guard(copy, "diagnosis")
  /\ DiagnosisCommit(w, "in_progress",
       IF copy.status = "paused" THEN After(copy, "diagnosis") ELSE wo)

Noted(requires) == [wo EXCEPT !.requires = requires, !.filled = @ \cup {"notes"}]

SubmitDiagnosis(w) ==
  /\ At(w, "d_submit") /\ request[w].diag \in {"in_progress", "paused"}
  /\ wo.status = "diagnosis" => Guard(Noted(TRUE), "awaiting_approval")
  /\ DiagnosisCommit(w, "awaiting_approval",
       IF wo.status = "diagnosis" THEN After(Noted(TRUE), "awaiting_approval")
       ELSE Noted(TRUE))

(* complete(requires_approval=False) approves on the customer's behalf; a   *)
(* transition the work order refuses is only logged.                       *)
Completed(requires) ==
  LET noted == Noted(requires)
      asked == After(noted, "awaiting_approval")
      agreed == [noted EXCEPT !.approved = TRUE]
  IN IF wo.status # "diagnosis" THEN noted
     ELSE IF requires
          THEN IF Guard(noted, "awaiting_approval") THEN asked ELSE noted
          ELSE IF Guard(agreed, "awaiting_approval")
               THEN After(After(agreed, "awaiting_approval"), "approved") ELSE agreed

CompleteDiagnosisRecord(w, requires) ==
  /\ At(w, IF requires THEN "d_complete" ELSE "d_complete_free")
  /\ request[w].diag \in {"in_progress", "paused", "awaiting_approval"}
  /\ requires => request[w].row.approved
  /\ DiagnosisCommit(w, "completed", Completed(requires))

(* approve_customer_work completes a diagnosis that waited for the approval. *)
SyncDiagnosis(w) ==
  /\ At(w, "sync")
  /\ IF diagnosis = "awaiting_approval"
     THEN DiagnosisCommit(w, "completed", Completed(TRUE))
     ELSE Proceed(w, request[w].row) /\ UNCHANGED <<wo, related>>

(* reopen_for_revision.                                                    *)
ReopenDiagnosis(w) ==
  LET copy == [request[w].row EXCEPT !.approved = FALSE] IN
  /\ At(w, "reopen") /\ request[w].diag \in {"completed", "awaiting_approval"}
  /\ ~request[w].row.approved
  /\ \/ copy.status = "diagnosis"
     \/ copy.status = "awaiting_approval" /\ Guard(copy, "diagnosis")
  /\ DiagnosisCommit(w, "in_progress",
       IF copy.status = "awaiting_approval" THEN After(copy, "diagnosis")
       ELSE [wo EXCEPT !.approved = FALSE])

-----------------------------------------------------------------------------
(* Endpoints: what each checks on the row it loads, what it changes on its  *)
(* copy, and the commits it plans.                                         *)

Plan(w, op, copy, plan) ==
  /\ op \in Ops /\ request[w].plan = <<>>
  /\ request' = [request EXCEPT ![w] = [row |-> copy, diag |-> diagnosis, plan |-> plan]]
  /\ UNCHANGED <<wo, related>>

With(fields) == [wo EXCEPT !.filled = @ \cup fields]

start_intake(w) ==
  \E given \in BOOLEAN :
    LET moves == IF wo.status = "intake" THEN <<>> ELSE <<"intake">>
        assigns == IF given \/ "coordinator" \in wo.filled
                   THEN <<"coordinator", "assigned">> ELSE <<>>
    IN moves \o assigns # <<>> /\ Plan(w, "start_intake", wo, moves \o assigns)

start_diagnosis(w) == Plan(w, "start_diagnosis", wo, <<"diagnosis", "create_diagnosis">>)

request_approval(w) ==
  Plan(w, "request_approval", [wo EXCEPT !.requires = TRUE], <<"awaiting_approval">>)

(* Approval not required: the same request approves and starts the repair.  *)
complete_diagnosis(w) ==
  /\ wo.status = "diagnosis"
  /\ \/ Plan(w, "complete_diagnosis", [With({"notes"}) EXCEPT !.requires = TRUE],
             <<"save", "awaiting_approval">>)
     \/ Plan(w, "complete_diagnosis",
             [With({"notes"}) EXCEPT !.requires = FALSE],
             <<"save", "agree", "awaiting_approval", "approved", "sync", "convert",
               "in_progress">>)

(* Staff, the public link and the estimate record the customer's approval;  *)
(* the customer portal changes the work order only.                        *)
approve(w) ==
  \/ Plan(w, "approve", [wo EXCEPT !.approved = TRUE], <<"approved", "sync">>)
  \/ /\ wo.status = "awaiting_approval"
     /\ Plan(w, "portal_approve", [wo EXCEPT !.approved = TRUE], <<"approved">>)

decline(w) ==
  /\ wo.status = "awaiting_approval"
  /\ \/ Plan(w, "decline", [wo EXCEPT !.approved = FALSE],
             IF diagnosis \in {"completed", "awaiting_approval"}
             THEN <<"unapprove", "reopen">> ELSE <<"unapprove", "diagnosis">>)
     \/ Plan(w, "portal_decline", [wo EXCEPT !.approved = FALSE],
             <<"unapprove", "diagnosis">>)

start_work(w) ==
  Plan(w, "start_work", wo,
       IF "technician" \in wo.filled THEN <<"convert", "in_progress">>
       ELSE <<"technician", "convert", "in_progress">>)

pause(w) == Plan(w, "pause", wo, <<"paused">>)

is_diagnosis_paused ==
  wo.status = "paused" /\ (wo.pausedFrom = "diagnosis" \/ diagnosis = "paused")
resume(w) ==
  Plan(w, "resume", wo,
       IF is_diagnosis_paused /\ diagnosis # "none" THEN <<"d_resume">>
       ELSE IF wo.pausedFrom = "diagnosis" THEN <<"diagnosis">> ELSE <<"in_progress">>)

flag_additional_work(w) == Plan(w, "flag_additional_work", wo, <<"additional_work_found">>)

request_quality_check(w) ==
  /\ ~(wo.qcDone /\ wo.status \in {"completed", "invoiced", "closed"})
  /\ Plan(w, "request_quality_check", wo,
          IF wo.status = "quality_check" THEN <<"inspector">>
          ELSE <<"inspector", "quality_check">>)

Checked(row, passed) == [row EXCEPT !.qcDone = TRUE, !.qcPassed = passed]
quality_check(w) ==
  /\ wo.status = "quality_check"
  /\ \E passed \in BOOLEAN, read \in {{}, {"odometer"}} :
       Plan(w, "quality_check", Checked(With(read), passed),
            IF passed THEN <<"completed">> ELSE <<"in_progress">>)

complete(w) ==
  \E read \in {{}, {"odometer"}} :
    Plan(w, "complete",
         [With(read) EXCEPT !.qcDone = @ \/ ~wo.qcRequired,
                            !.qcPassed = @ \/ ~wo.qcRequired],
         <<"completed">>)

mark_invoiced(w) == Plan(w, "mark_invoiced", wo, <<"odometer", "invoiced">>)

close(w) == Plan(w, "close", wo, <<"closed">>)

discontinue_job(w) ==
  Plan(w, "discontinue_job", With({"reason"}), <<"skip_tasks", "discontinued_pending_bill">>)

(* bulk_update_status and a PATCH of the status: same guards.               *)
set_status(w) == \E t \in Targets \ {wo.status} : Plan(w, "set_status", wo, <<t>>)

(* PATCH of other columns: the copy with the new value is saved whole, by   *)
(* the transition if the status is set with it.  Whether the quality check  *)
(* is required is such a column: it can be waived or asked for at any time. *)
Patched(f) ==
  CASE f = "requires" -> [wo EXCEPT !.requires = ~@]
    [] f = "approved" -> [wo EXCEPT !.approved = ~@]
    [] f = "qcDone" -> [wo EXCEPT !.qcDone = ~@]
    [] f = "qcPassed" -> [wo EXCEPT !.qcPassed = ~@]
    [] OTHER -> [wo EXCEPT !.qcRequired = (f = "qcDemanded")]
edit(w) ==
  /\ wo.status # "closed"
  /\ \/ \E f \in {"coordinator", "technician", "notes", "odometer"} \ wo.filled :
          Plan(w, "edit", With({f}), <<"save">>)
     \/ \E f \in PatchedFlags :
          \/ Plan(w, "edit", Patched(f), <<"save">>)
          \/ \E t \in Targets \ {wo.status} : Plan(w, "edit", Patched(f), <<t>>)

release_assignment(w) ==
  /\ "technician" \in wo.filled
  /\ wo.status \notin {"in_progress", "additional_work_found", "quality_check", "completed",
                       "invoiced", "closed", "discontinued_pending_bill"}
  /\ Plan(w, "release_assignment", wo, <<"release">>)

(* The last open task: a job waiting for it moves on to the quality check.  *)
complete_task(w) ==
  /\ tasks = "open"
  /\ Plan(w, "complete_task", wo,
          IF wo.status = "in_progress" /\ ~wo.qcDone /\ wo.qcRequired /\ "inspector" \in wo.filled
          THEN <<"close_tasks", "quality_check">> ELSE <<"close_tasks">>)

(* A part requested after approval sends the job back for approval.         *)
add_part(w) ==
  /\ wo.status \notin {"quality_check", "completed", "invoiced", "closed"}
  /\ Plan(w, "add_part", wo,
          IF wo.status \in {"approved", "in_progress", "paused"}
          THEN <<"add_part", "additional_work_found">> ELSE <<"add_part">>)

approve_inspection(w) ==
  /\ inspection = "completed"
  /\ Plan(w, "approve_inspection", wo,
          IF wo.status \in {"draft", "inspection"}
          THEN <<"approve_inspection", "intake">> ELSE <<"approve_inspection">>)

(* try_auto_mark_work_order_invoiced, odometer_out taken from odometer_in.  *)
pay_invoice(w) ==
  /\ invoice = "issued"
  /\ \E known \in BOOLEAN :
       Plan(w, "pay_invoice", wo,
            IF known THEN <<"pay", "reload", "odometer", "invoiced">>
            ELSE <<"pay", "reload", "invoiced">>)

(* The diagnosis endpoints.                                                *)
diagnosis_action(w) ==
  \/ Plan(w, "diagnosis_pause", wo, <<"d_pause">>)
  \/ Plan(w, "diagnosis_resume", wo, <<"d_resume">>)
  \/ Plan(w, "diagnosis_submit", wo, <<"d_submit">>)
  \/ Plan(w, "diagnosis_complete", wo, <<"d_complete">>)
  \/ Plan(w, "diagnosis_complete", wo, <<"d_complete_free">>)
  \/ /\ ~(diagnosis = "awaiting_approval" /\ ~wo.approved)
     /\ Plan(w, "diagnosis_reopen", wo, <<"reopen">>)

(* Views that set the status themselves.  A form without items stays a draft. *)
dvi_form(w) ==
  /\ "dvi_form" \in BackDoors /\ request[w].plan = <<>>
  /\ inspection' \in {inspection, "completed"}
  /\ request' = [request EXCEPT ![w] = [row |-> [wo EXCEPT !.status = "intake"],
                                        diag |-> diagnosis, plan |-> <<"save">>]]
  /\ UNCHANGED <<wo, profile, diagnosis, tasks, parts, invoice>>

(* The offline sync of the mobile pages (process_offline_item) does the same. *)
mobile_quick_update(w) ==
  /\ "quick_update" \in BackDoors /\ request[w].plan = <<>>
  /\ \E s \in DirectStatuses :
       request' = [request EXCEPT ![w] = [row |-> [wo EXCEPT !.status = s],
                                          diag |-> diagnosis, plan |-> <<"save">>]]
  /\ UNCHANGED <<wo, related>>

(* The edit form also sets or empties technician and notes.                 *)
workorder_edit_view(w) ==
  /\ "edit_form" \in BackDoors /\ request[w].plan = <<>>
  /\ \E s \in DirectStatuses \cup {wo.status}, given \in SUBSET {"technician", "notes"} :
       request' = [request EXCEPT ![w] =
         [row |-> [wo EXCEPT !.status = s,
                             !.filled = (@ \ {"technician", "notes"}) \cup given],
          diag |-> diagnosis, plan |-> <<"save">>]]
  /\ UNCHANGED <<wo, related>>

(* A refused commit, a validation error, or the end of the process.         *)
Abort(w) ==
  /\ request[w].plan # <<>>
  /\ request' = [request EXCEPT ![w] = Idle]
  /\ UNCHANGED <<wo, related>>

-----------------------------------------------------------------------------
(* Single commits on the records beside the work order.                    *)

complete_inspection ==
  /\ "inspect" \in Ops /\ inspection # "completed"
  /\ inspection' = "completed"
  /\ UNCHANGED <<wo, profile, diagnosis, tasks, parts, invoice, request>>
reject_inspection ==
  /\ "reject_inspection" \in Ops /\ inspection # "open"
  /\ inspection' = "open"
  /\ UNCHANGED <<wo, profile, diagnosis, tasks, parts, invoice, request>>

(* start also takes up a task that was already completed or skipped.        *)
start_task ==
  /\ "task" \in Ops /\ tasks = "closed"
  /\ tasks' = "open"
  /\ UNCHANGED <<wo, profile, inspection, diagnosis, parts, invoice, request>>
create_task ==
  /\ "task" \in Ops /\ tasks # "open"
  /\ tasks' = "open"
  /\ UNCHANGED <<wo, profile, inspection, diagnosis, parts, invoice, request>>
skip_task ==
  /\ "task" \in Ops /\ tasks = "open"
  /\ tasks' = "closed"
  /\ UNCHANGED <<wo, profile, inspection, diagnosis, parts, invoice, request>>

(* The last unresolved part is installed or returned with a reason.         *)
resolve_part ==
  /\ "part" \in Ops /\ parts = "open"
  /\ parts' = "resolved"
  /\ UNCHANGED <<wo, profile, inspection, diagnosis, tasks, invoice, request>>

create_diagnosis ==
  /\ "diagnosis_start" \in Ops /\ diagnosis = "none"
  /\ diagnosis' = "not_started"
  /\ UNCHANGED <<wo, profile, inspection, tasks, parts, invoice, request>>
start_diagnosis_record ==
  /\ "diagnosis_start" \in Ops /\ diagnosis = "not_started"
  /\ diagnosis' = "in_progress"
  /\ UNCHANGED <<wo, profile, inspection, tasks, parts, invoice, request>>

create_invoice ==
  /\ "billing" \in Ops /\ invoice = "none"
  /\ wo.status \in {"completed", "discontinued_pending_bill"}
  /\ invoice' = "draft"
  /\ UNCHANGED <<wo, profile, inspection, diagnosis, tasks, parts, request>>
issue_invoice ==
  /\ "billing" \in Ops /\ invoice = "draft"
  /\ invoice' = "issued"
  /\ UNCHANGED <<wo, profile, inspection, diagnosis, tasks, parts, request>>
void_invoice ==
  /\ "billing" \in Ops /\ invoice \in {"draft", "issued"}
  /\ invoice' = "none"
  /\ UNCHANGED <<wo, profile, inspection, diagnosis, tasks, parts, request>>

-----------------------------------------------------------------------------
Commit(w) ==
  \/ Transition(w) \/ SaveRow(w) \/ Fill(w) \/ SetApproval(w) \/ Release(w)
  \/ SkipTasks(w) \/ CloseTasks(w) \/ ConvertRecommendations(w) \/ InsertPart(w)
  \/ SaveInspection(w) \/ SavePayment(w) \/ Reload(w) \/ GetOrCreateDiagnosis(w)
  \/ PauseDiagnosis(w) \/ ResumeDiagnosis(w) \/ SubmitDiagnosis(w)
  \/ \E requires \in BOOLEAN : CompleteDiagnosisRecord(w, requires)
  \/ SyncDiagnosis(w) \/ ReopenDiagnosis(w)

Endpoint(w) ==
  \/ start_intake(w) \/ start_diagnosis(w) \/ request_approval(w) \/ complete_diagnosis(w)
  \/ approve(w) \/ decline(w) \/ start_work(w) \/ pause(w) \/ resume(w)
  \/ flag_additional_work(w) \/ request_quality_check(w) \/ quality_check(w) \/ complete(w)
  \/ mark_invoiced(w) \/ close(w) \/ discontinue_job(w) \/ set_status(w) \/ edit(w)
  \/ release_assignment(w) \/ complete_task(w) \/ add_part(w) \/ approve_inspection(w)
  \/ pay_invoice(w) \/ diagnosis_action(w) \/ dvi_form(w) \/ mobile_quick_update(w)
  \/ workorder_edit_view(w)

Single ==
  \/ complete_inspection \/ reject_inspection \/ start_task \/ create_task \/ skip_task
  \/ resolve_part \/ create_diagnosis \/ start_diagnosis_record
  \/ create_invoice \/ issue_invoice \/ void_invoice

Next == Single \/ \E w \in Workers : Endpoint(w) \/ Commit(w) \/ Abort(w)

Spec == Init /\ [][Next]_vars

-----------------------------------------------------------------------------
(* Properties.                                                             *)

(* Every variable keeps its type; a stale copy is a row, too.               *)
TypeOK ==
  /\ wo \in Row /\ profile \in Profiles
  /\ inspection \in {"open", "completed", "approved"}
  /\ diagnosis \in Diagnosis
  /\ tasks \in {"none", "open", "closed"} /\ parts \in {"none", "open", "resolved"}
  /\ invoice \in {"none", "draft", "issued", "paid"}
  /\ request \in [Workers -> Request]

(* transition_to remembers what a paused job goes back to, and forgets it   *)
(* when the job goes on, also when overlapping requests save old copies.    *)
PausedRemembers == wo.status = "paused" <=> wo.pausedFrom # "none"

(* A job whose row requires a quality check is completed, invoiced or       *)
(* closed only after one, unless the customer broke the job off: when       *)
(* overlapping requests save old copies of the row, when the requirement is *)
(* waived and the job completed at once, and when a view that bypasses the  *)
(* guards has sent it anywhere but there before.                           *)
QualityBeforeBilling ==
  MustBeChecked(wo) /\ wo.status \in {"completed", "invoiced", "closed"}
    => wo.qcDone \/ "reason" \in wo.filled

(* Nobody repairs without the approval can_start_work asks for.             *)
RepairsApproved == wo.status \in {"in_progress", "quality_check"} => is_approved(wo)

(* The phases of a job: transition_to implements JobPhases.                *)
phase ==
  CASE wo.status \in {"draft", "inspection", "intake", "assigned"} -> "intake"
    [] wo.status \in {"in_progress", "quality_check"} -> "repair"
    [] wo.status = "paused" -> IF wo.pausedFrom = "in_progress" THEN "repair"
                               ELSE "assessment"
    [] wo.status \in {"completed", "discontinued_pending_bill"} -> "finished"
    [] wo.status = "additional_work_found" -> "new_work"
    [] wo.status = "invoiced" -> "billed"
    [] wo.status = "closed" -> "closed"
    [] OTHER -> "assessment"
Job == INSTANCE JobPhases WITH phase <- phase, consent <- is_approved(wo)
JobPromise == Job!Spec

(* "Closed work orders are immutable" (WorkOrderStateTransitionMixin.reopen). *)
ClosedIsFinal == [][wo.status = "closed" => wo'.status = "closed"]_vars

(* "Quality check must be requested and passed before completion": a        *)
(* completed job that requires a quality check passed it.                   *)
CompletedMeansPassed ==
  MustBeChecked(wo) /\ wo.status = "completed" => wo.qcPassed

(* The resume endpoint can "resume a paused work order or diagnosis         *)
(* session": a job paused in diagnosis has a paused diagnosis record.       *)
PausedSessionPaused ==
  wo.status = "paused" /\ wo.pausedFrom = "diagnosis" /\ diagnosis # "none"
    => diagnosis = "paused"

(* "Complete diagnosis before starting or resuming repair work."            *)
DiagnosisBeforeRepair ==
  wo.status = "in_progress" => diagnosis \in {"none", "completed"}

(* "Additional work must be sent for customer approval before repairs       *)
(* resume": with everything filled in, a job with additional work found     *)
(* can be sent for approval.                                               *)
AdditionalWorkApprovable ==
  wo.status = "additional_work_found" => Guard(With(Fields), "awaiting_approval")

(* "A finalized invoice is required before the work order can be closed":   *)
(* a closed job still has one.                                             *)
ClosedHasInvoice == wo.status = "closed" => Issued
=============================================================================
