----------------------------- MODULE JobStatuses -----------------------------
(***************************************************************************)
(* The job status vocabulary and its transition contract                   *)
(* (core/jobs/statuses.py), and what a conditional status write of the job *)
(* table does with them (core/storage/repositories/job_repository.py).     *)
(***************************************************************************)

JOB_STATUSES ==
    {"queued", "preparing", "running", "postprocessing", "cancel_requested",
     "succeeded", "failed", "cancelled"}

TERMINAL_JOB_STATUSES == {"succeeded", "failed", "cancelled"}

ACTIVE_JOB_STATUSES == JOB_STATUSES \ TERMINAL_JOB_STATUSES

\* What startup recovery finds when the worker that owned a job died.
INTERRUPTED_JOB_STATUSES == {"preparing", "running", "postprocessing"}

\* What JobRunner._is_cancelled answers TRUE for.
CANCELLATION_STATUSES == {"cancel_requested", "cancelled"}

ALLOWED_TRANSITIONS ==
    { <<"queued", "preparing">>, <<"queued", "cancelled">>, <<"queued", "failed">>,
      <<"preparing", "running">>, <<"preparing", "cancel_requested">>,
      <<"preparing", "failed">>,
      <<"running", "postprocessing">>, <<"running", "cancel_requested">>,
      <<"running", "failed">>,
      <<"postprocessing", "succeeded">>, <<"postprocessing", "cancel_requested">>,
      <<"postprocessing", "failed">>,
      <<"cancel_requested", "cancelled">>, <<"cancel_requested", "failed">> }

is_valid_transition(current, target) ==
    \/ target = current
    \/ <<current, target>> \in ALLOWED_TRANSITIONS

\* Mutant of Admits: the status the caller expects is not in the WHERE clause.
AdmitsUnexpected(current, expected, target) ==
    current \in JOB_STATUSES /\ is_valid_transition(current, target)

\* The WHERE clause of a guarded UPDATE: the stored status is one the caller
\* expects and one from which the contract lets a job move to the target.
Admits(current, expected, target) ==
    /\ current \in expected \cap JOB_STATUSES
    /\ is_valid_transition(current, target)

\* Mutant of QuarantinedStatus: finished rows fail too.
QuarantinedAlways(raw) == "failed"

\* What quarantining an undecodable row makes of its raw status: a status that
\* is not in the vocabulary ("garbled") is repaired to failed, a cancellation
\* under way is completed, a finished job is left alone.
QuarantinedStatus(raw) ==
    IF raw = "cancel_requested" THEN "cancelled"
    ELSE IF raw \in INTERRUPTED_JOB_STATUSES \cup {"queued", "garbled"} THEN "failed"
    ELSE raw

\* A cancel call's target for a job it reads at this status; a job that is
\* already cancelling or finished has none.
CancelTarget(status) ==
    IF status = "queued" THEN "cancelled" ELSE "cancel_requested"
=============================================================================
