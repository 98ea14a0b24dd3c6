------------------------------ MODULE JobPhases ------------------------------
(***************************************************************************)
(* What the workshop promises about a job, whatever its profile: it is     *)
(* taken in, assessed, repaired, finished, billed and closed, repairs run  *)
(* only with the customer's consent, work found after it was given needs a *)
(* new consent and a new assessment, and a job that is finished never      *)
(* comes back.  The work order of apps/workorders is to implement this.    *)
(***************************************************************************)
VARIABLES
  phase,    \* where the job stands
  consent   \* the customer agrees to the repair, or need not be asked

vars == <<phase, consent>>

Phase == {"intake", "assessment", "new_work", "repair", "finished", "billed", "closed"}

Init == phase \in {"intake", "assessment"} /\ consent \in BOOLEAN

(* Consent is given, withdrawn or found unnecessary while nobody repairs.   *)
Decide == phase # "repair" /\ phase' = phase /\ consent' \in BOOLEAN

(* Asking for approval may withdraw a consent, but gives none.             *)
Assess ==
  /\ phase \in {"intake", "new_work", "repair"} /\ phase' = "assessment"
  /\ consent' \in {consent, FALSE}

Repair == phase = "assessment" /\ consent /\ phase' = "repair" /\ consent' = consent

FindMore ==
  phase \in {"assessment", "repair"} /\ phase' = "new_work" /\ consent' = FALSE

(* Completed, or discontinued by the customer.                             *)
Finish ==
  /\ phase \in {"intake", "assessment", "new_work", "repair"} /\ phase' = "finished"
  /\ consent' = consent

Bill == phase = "finished" /\ phase' = "billed" /\ consent' = consent

Close == phase = "billed" /\ phase' = "closed" /\ consent' = consent

Next == Decide \/ Assess \/ Repair \/ FindMore \/ Finish \/ Bill \/ Close

Spec == Init /\ [][Next]_vars
=============================================================================
