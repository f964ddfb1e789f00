---------------------------- MODULE JobLifecycle ----------------------------
(***************************************************************************)
(* What OrchestrationEngine promises of each job, without threads, queues  *)
(* or results in flight: a job is in at most one drive slice, only its     *)
(* slice moves its status, except to CANCELLED, a terminal status is the   *)
(* last, and completion is published of terminal jobs only.                *)
(***************************************************************************)
CONSTANTS Jobs, Procs, None

VARIABLES
  status,    \* job.status
  owner,     \* the thread that drives the job, or None
  published  \* JOB_COMPLETED has been published for the job

vars == <<status, owner, published>>

Terminal == {"SUCCEEDED", "FAILED", "CANCELLED"}

Init ==
  /\ status = [j \in Jobs |-> "PENDING"]
  /\ owner = [j \in Jobs |-> None]
  /\ published = [j \in Jobs |-> FALSE]

\* begin_drive succeeds.
StartSlice(j, p) ==
  /\ owner[j] = None
  /\ status[j] \notin Terminal
  /\ owner' = [owner EXCEPT ![j] = p]
  /\ UNCHANGED <<status, published>>

\* end_drive.
EndSlice(j) ==
  /\ owner[j] # None
  /\ owner' = [owner EXCEPT ![j] = None]
  /\ UNCHANGED <<status, published>>

\* apply_result of the slice's outcome.
Outcome(j) ==
  /\ owner[j] # None
  /\ status[j] \notin Terminal
  /\ \E s \in {"RUNNING", "WAITING_FOR_INPUT", "SUCCEEDED", "FAILED"} :
       status' = [status EXCEPT ![j] = s]
  /\ UNCHANGED <<owner, published>>

\* cancel_job, with or without a slice under way.
Cancel(j) ==
  /\ status[j] \notin Terminal
  /\ status' = [status EXCEPT ![j] = "CANCELLED"]
  /\ UNCHANGED <<owner, published>>

\* _publish_job_status of a terminal job.
Complete(j) ==
  /\ status[j] \in Terminal
  /\ published' = [published EXCEPT ![j] = TRUE]
  /\ UNCHANGED <<status, owner>>

Next ==
  \E j \in Jobs :
    \/ \E p \in Procs : StartSlice(j, p)
    \/ EndSlice(j) \/ Outcome(j) \/ Cancel(j) \/ Complete(j)

Spec == Init /\ [][Next]_vars
=============================================================================
