CONSTANTS
  Workers = {w1, w2}
  Profiles = {"full_repair"}
  Ops = {"set_status", "portal_approve", "pause", "resume", "request_quality_check",
         "quality_check", "complete", "mark_invoiced", "close", "discontinue_job", "inspect",
         "task", "billing"}
  Prefilled = {"coordinator", "technician", "inspector", "notes", "odometer"}
  Targets = {"inspection", "intake", "assigned", "diagnosis", "awaiting_approval",
             "in_progress"}
  PatchedFlags = {}
  BackDoors = {}
  DirectStatuses = {}
SPECIFICATION Spec
SYMMETRY Symmetry
INVARIANT PausedRemembers
INVARIANT QualityBeforeBilling
CHECK_DEADLOCK FALSE
