CONSTANTS
  Workers = {w1}
  Profiles = {"full_repair", "routine_fast_track", "inspection_only", "diagnostic_only"}
  Ops = {"start_intake", "start_diagnosis", "request_approval", "complete_diagnosis",
         "approve", "portal_approve", "decline", "portal_decline", "start_work", "pause",
         "resume", "flag_additional_work", "request_quality_check", "quality_check",
         "complete", "mark_invoiced", "close", "discontinue_job", "set_status",
         "complete_task", "add_part", "approve_inspection",
         "pay_invoice", "diagnosis_pause", "diagnosis_resume", "diagnosis_submit",
         "diagnosis_complete", "diagnosis_reopen", "inspect",
         "task", "part", "diagnosis_start", "billing"}
  Prefilled = {"coordinator", "technician", "inspector", "notes", "odometer"}
  Targets = {"draft", "inspection", "approved", "in_progress"}
  PatchedFlags = {}
  BackDoors = {}
  DirectStatuses = {}
SPECIFICATION Spec
INVARIANT TypeOK
PROPERTY JobPromise
CHECK_DEADLOCK FALSE
