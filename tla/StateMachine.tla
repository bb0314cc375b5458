---------------------------- MODULE StateMachine ----------------------------
(***************************************************************************)
(* The pipeline status machine of an order (app/core/state_machine.py):    *)
(* the statuses, the table of valid transitions and its lookups.           *)
(***************************************************************************)

PipelineStatus ==
  {"RECEIVED", "PDF_QUEUED", "PDF_DOWNLOADING", "PDF_READY", "PDF_FAILED",
   "ROUTING", "AI_QUEUED", "AI_RUNNING", "AI_COMPLETED", "MANUAL_REQUIRED",
   "FAILED_RETRYABLE", "FAILED_FINAL"}

TerminalStatuses == {"AI_COMPLETED", "MANUAL_REQUIRED", "FAILED_FINAL"}

(* The VALID_TRANSITIONS dictionary, one entry a row: statuses that are    *)
(* missing here map to the empty set.                                      *)
ValidTransitions ==
  [s \in PipelineStatus |->
    CASE s = "RECEIVED"         -> {"PDF_QUEUED"}
      [] s = "PDF_QUEUED"       -> {"PDF_DOWNLOADING", "FAILED_FINAL"}
      [] s = "PDF_DOWNLOADING"  -> {"PDF_READY", "PDF_FAILED", "FAILED_FINAL",
                                    "MANUAL_REQUIRED"}
      [] s = "PDF_READY"        -> {"ROUTING", "FAILED_FINAL"}
      [] s = "ROUTING"          -> {"AI_QUEUED", "MANUAL_REQUIRED", "FAILED_FINAL"}
      [] s = "AI_QUEUED"        -> {"AI_RUNNING", "FAILED_FINAL"}
      [] s = "AI_RUNNING"       -> {"AI_COMPLETED", "MANUAL_REQUIRED", "FAILED_FINAL"}
      [] s = "PDF_FAILED"       -> {"FAILED_RETRYABLE", "FAILED_FINAL", "RECEIVED"}
      [] s = "FAILED_RETRYABLE" -> {"PDF_QUEUED", "RECEIVED"}
      [] OTHER                  -> {}]

CanTransition(current, target) == target \in ValidTransitions[current]

=============================================================================
