CONSTANTS
  Workers = {w1}
  Profiles = {"full_repair"}
  Ops = {"set_status", "portal_approve", "request_quality_check", "quality_check",
         "complete", "mark_invoiced", "close", "inspect", "reject_inspection", "task", "billing", "edit",
         "release_assignment"}
  Prefilled = {"coordinator", "technician", "inspector", "notes", "odometer"}
  Targets = {"inspection", "intake", "assigned", "diagnosis", "awaiting_approval",
         "in_progress"}
  PatchedFlags = {"requires", "approved", "qcPassed", "qcWaived"}
  BackDoors = {"dvi_form", "quick_update", "edit_form"}
  DirectStatuses = {"draft", "assigned", "in_progress",
         "paused", "quality_check"}
SPECIFICATION Spec
INVARIANT QualityBeforeBilling
CHECK_DEADLOCK FALSE
