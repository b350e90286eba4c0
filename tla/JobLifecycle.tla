---------------------------- MODULE JobLifecycle ----------------------------
(***************************************************************************)
(* What the job system promises about one job, whatever threads, retries,  *)
(* storage failures and restarts it takes: its status follows the contract *)
(* of core/jobs/statuses.py, its generator is executed at most once, and   *)
(* its completion is recorded once it is finished.  JobPipeline implements *)
(* this specification.                                                     *)
(***************************************************************************)
EXTENDS Naturals, JobStatuses

CONSTANT Jobs

VARIABLES
    status,      \* absent until the job is submitted
    executions,  \* generator executions started
    completed    \* the completion_state of the job

lifecycle == <<status, executions, completed>>

Init ==
    /\ status = [j \in Jobs |-> "absent"]
    /\ executions = [j \in Jobs |-> 0]
    /\ completed = [j \in Jobs |-> "pending"]

Submit(j) ==
    /\ status[j] = "absent"
    /\ status' = [status EXCEPT ![j] = "queued"]
    /\ UNCHANGED <<executions, completed>>

\* Any move of the contract.  The generator is executed only when the job
\* becomes running, and never a second time.
Move(j, target) ==
    /\ <<status[j], target>> \in ALLOWED_TRANSITIONS
    /\ status' = [status EXCEPT ![j] = target]
    /\ \/ UNCHANGED executions
       \/ /\ target = "running"
          /\ executions[j] = 0
          /\ executions' = [executions EXCEPT ![j] = 1]
    /\ UNCHANGED completed

Complete(j) ==
    /\ status[j] \in TERMINAL_JOB_STATUSES
    /\ completed' = [completed EXCEPT ![j] = "done"]
    /\ UNCHANGED <<status, executions>>

\* The status of an unfinished job is overwritten with something that is not a
\* status; all the system makes of it is a failure.
Damage(j) ==
    /\ status[j] \in ACTIVE_JOB_STATUSES
    /\ status' = [status EXCEPT ![j] = "garbled"]
    /\ UNCHANGED <<executions, completed>>

Quarantine(j) ==
    /\ status[j] = "garbled"
    /\ status' = [status EXCEPT ![j] = "failed"]
    /\ UNCHANGED <<executions, completed>>

Next ==
    \E j \in Jobs :
        \/ Submit(j)
        \/ \E target \in JOB_STATUSES : Move(j, target)
        \/ Complete(j)
        \/ Damage(j)
        \/ Quarantine(j)

Spec == Init /\ [][Next]_lifecycle
=============================================================================
