---------------------------- MODULE SessionStore ----------------------------
(***************************************************************************)
(* The sessions collection (internal/store/sessions.go). Each operation is *)
(* one MongoDB update, atomic on the rows it matches, and matches by the   *)
(* filter the code writes: MarkRunning and MarkExited match by _id alone,  *)
(* whatever the row's status is.                                           *)
(***************************************************************************)
EXTENDS Deployment

VARIABLES
  status,   \* status[s]; "none" while the row does not exist
  reason    \* exit_reason[s]; a row that runs again keeps it

storeVars == <<status, reason>>

Statuses == {"none", "starting", "running", "wrapper_offline", "exited"}
LiveStatuses == {"starting", "running", "wrapper_offline"}
Reasons == {"none", "spawn_failed", "wrapper_restart", "normal", "wrapper_close"}

StoreTypeOK ==
  /\ status \in [Sessions -> Statuses]
  /\ reason \in [Sessions -> Reasons]

StoreInit ==
  /\ status = [s \in Sessions |-> "none"]
  /\ reason = [s \in Sessions |-> "none"]

RowExists(s) == status[s] # "none"

CreateRow(s) ==
  /\ ~RowExists(s)
  /\ status' = [status EXCEPT ![s] = "starting"]
  /\ UNCHANGED reason

MarkRunning(s) ==
  /\ status' = [status EXCEPT ![s] = IF RowExists(s) THEN "running" ELSE @]
  /\ UNCHANGED reason

MarkExited(s, why) ==
  /\ status' = [status EXCEPT ![s] = IF RowExists(s) THEN "exited" ELSE @]
  /\ reason' = [reason EXCEPT ![s] = IF RowExists(s) THEN why ELSE @]

MarkWrapperOffline(w) ==
  /\ status' = [s \in Sessions |->
                  IF Owner[s] = w /\ status[s] \in {"starting", "running"}
                  THEN "wrapper_offline" ELSE status[s]]
  /\ UNCHANGED reason

MarkRunningFromOffline(s) ==
  /\ status' = [status EXCEPT ![s] = IF @ = "wrapper_offline" THEN "running" ELSE @]
  /\ UNCHANGED reason

\* Mutant of ListLiveByWrapper: a row that is only starting is overlooked.
ListStartedByWrapper(w) ==
  {s \in Sessions : Owner[s] = w /\ status[s] \in LiveStatuses \ {"starting"}}

ListLiveByWrapper(w) == {s \in Sessions : Owner[s] = w /\ status[s] \in LiveStatuses}
=============================================================================
