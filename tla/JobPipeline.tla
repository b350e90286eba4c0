----------------------------- MODULE JobPipeline -----------------------------
(***************************************************************************)
(* The life of a job, from the API call that creates it to its converged   *)
(* completion: the job table, the in-memory queue, the runner threads that *)
(* claim and execute jobs, the API clients that create and cancel them,    *)
(* the completion retry loop, and process crashes followed by startup      *)
(* recovery.  Every access to the job table may fail (MaxFaults of them    *)
(* do), the process may die at any moment (MaxCrashes times), and a row    *)
(* may become undecodable and be repaired by hand.  A finished job's       *)
(* completion may also be held up without any failure of its attempts.     *)
(*                                                                         *)
(* A guarded UPDATE followed by a separate re-read is how the code writes  *)
(* most statuses, so a failed write may have been committed: the caller    *)
(* sees an exception while the row has moved.                              *)
(***************************************************************************)
EXTENDS Naturals, Sequences, JobStatuses

CONSTANTS
    Jobs,            \* job ids
    Workers,         \* runner threads
    Clients,         \* API threads that cancel jobs
    Retry, Boot,     \* the completion retry thread, the startup thread
    Lanes,           \* lanes of the queue
    LaneOf,          \* the lane a job is assigned to
    WorkerLane,      \* the lane a runner thread drains
    NoJob,           \* "holds no job"
    MaxFaults,       \* storage operations that fail
    MaxCrashes,      \* deaths of the process
    MaxCorruptions   \* rows that become undecodable

Threads == Workers \cup Clients \cup {Retry, Boot}

ASSUME ThreadsAssumption ==
    /\ Workers \cap Clients = {}
    /\ Retry \notin Workers \cup Clients
    /\ Boot \notin Workers \cup Clients \cup {Retry}
    /\ NoJob \notin Jobs

ASSUME LanesAssumption ==
    /\ LaneOf \in [Jobs -> Lanes]
    /\ WorkerLane \in [Workers -> Lanes]

ASSUME BoundsAssumption ==
    /\ MaxFaults \in Nat
    /\ MaxCrashes \in Nat
    /\ MaxCorruptions \in Nat

VARIABLES
    \* --- durable: the jobs table and what convergence writes elsewhere
    row,         \* the raw status column
    poison,      \* rows whose payload does not decode
    completion,  \* completion_state
    assets,      \* succeeded jobs whose assets are recorded
    settled,     \* finished jobs whose story and batch have caught up
    held,        \* finished jobs whose story or batch cannot catch up now
    \* --- in memory: lost when the process dies
    queue,       \* JobQueue: one FIFO per lane
    token,       \* CancellationRegistry: no event, a clear one, a set one
    pc, job,     \* where each thread is, and the job it works on
    seen,        \* the status a cancel call or a retry tick read last
    candidates,  \* CompletionConverger._poison_retry_candidates
    todo,        \* what the startup step or the retry tick still has to visit
    kept,        \* the retry tick's still_pending
    creating,    \* the create call of each job
    \* --- history
    runs,        \* generator executions started per job
    faults, crashes, corruptions

durable == <<row, poison, completion, assets, settled>>
control == <<pc, job, seen>>
tick    == <<candidates, todo, kept>>
history == <<runs, crashes, corruptions>>
core    == <<durable, queue, token, control, tick, creating, history, faults>>
vars    == <<core, held>>

RowStatuses == JOB_STATUSES \cup {"absent", "garbled"}

\* Pcs of a runner thread that owns the job it claimed.
OwnerPcs == {"claimed", "check", "start", "running", "genfail", "generated",
             "post", "succeed", "sync", "fail", "finalize", "resolve",
             "resolvefail"}

\* Pcs of a runner thread that took the job off the queue and has not claimed it.
PreClaimPcs == {"read", "claim", "quarantine"}

ConvergePcs == {"converge", "mark"}
WorkerPcs == {"idle", "end"} \cup PreClaimPcs \cup OwnerPcs \cup ConvergePcs
ClientPcs == {"idle", "cancel", "cas", "reread", "signal", "signal_changed"}
                \cup ConvergePcs
RetryPcs  == {"idle", "visit", "requarantine", "repaired"} \cup ConvergePcs
BootPcs   == {"down", "poison", "interrupted", "pending", "requeue", "up"}
                \cup ConvergePcs

TableType ==
    /\ row \in [Jobs -> RowStatuses]
    /\ poison \subseteq Jobs
    /\ completion \in [Jobs -> {"pending", "done"}]
    /\ assets \subseteq Jobs
    /\ settled \subseteq Jobs

MemoryType ==
    /\ queue \in [Lanes -> Seq(Jobs)]
    /\ token \in [Jobs -> {"none", "clear", "set"}]
    /\ candidates \subseteq Jobs
    /\ todo \subseteq Jobs
    /\ kept \subseteq Jobs
    /\ creating \in [Jobs -> {"none", "inserted", "enqueue", "accepted", "error"}]

ThreadType ==
    /\ pc \in [Threads -> WorkerPcs \cup ClientPcs \cup RetryPcs \cup BootPcs]
    /\ \A w \in Workers : pc[w] \in WorkerPcs
    /\ \A c \in Clients : pc[c] \in ClientPcs
    /\ pc[Retry] \in RetryPcs
    /\ pc[Boot] \in BootPcs
    /\ job \in [Threads -> Jobs \cup {NoJob}]
    /\ seen \in [Threads -> RowStatuses]

CounterType ==
    /\ runs \in [Jobs -> Nat]
    /\ faults \in Nat
    /\ crashes \in Nat
    /\ corruptions \in Nat

\* Every part of the state has its type: in particular a thread is only ever
\* at a point of its own code.
ProgramType == TableType /\ MemoryType /\ ThreadType /\ CounterType
TypeOK == ProgramType /\ held \subseteq Jobs

Init ==
    /\ row = [j \in Jobs |-> "absent"]
    /\ poison = {}
    /\ completion = [j \in Jobs |-> "pending"]
    /\ assets = {}
    /\ settled = {}
    /\ held = {}
    /\ queue = [l \in Lanes |-> <<>>]
    /\ token = [j \in Jobs |-> "none"]
    /\ pc = [t \in Threads |-> IF t = Boot THEN "down" ELSE "idle"]
    /\ job = [t \in Threads |-> NoJob]
    /\ seen = [t \in Threads |-> "absent"]
    /\ candidates = {}
    /\ todo = {}
    /\ kept = {}
    /\ creating = [j \in Jobs |-> "none"]
    /\ runs = [j \in Jobs |-> 0]
    /\ faults = 0
    /\ crashes = 0
    /\ corruptions = 0

-----------------------------------------------------------------------------
(* Storage *)

\* A storage operation raises without the row being at fault.
Fails == faults < MaxFaults /\ faults' = faults + 1
Works == faults' = faults

\* job_repository.get returns a record (or None for an absent row).
Decodable(j) == j \notin poison /\ row[j] # "garbled"

Finished(j) == row[j] \in TERMINAL_JOB_STATUSES

Write(j, status) == row' = [row EXCEPT ![j] = status]

-----------------------------------------------------------------------------
(* Threads and the queue *)

Up == pc[Boot] = "up"

Goto(t, p) == pc' = [pc EXCEPT ![t] = p] /\ UNCHANGED <<job, seen>>

\* The thread is done with its job.
Park(t, p) ==
    /\ pc' = [pc EXCEPT ![t] = p]
    /\ job' = [job EXCEPT ![t] = NoJob]
    /\ UNCHANGED seen

Take(t, p, j) ==
    /\ pc' = [pc EXCEPT ![t] = p]
    /\ job' = [job EXCEPT ![t] = j]
    /\ UNCHANGED seen

InLane(j, l) == \E i \in 1..Len(queue[l]) : queue[l][i] = j
InQueue(j)   == \E l \in Lanes : InLane(j, l)

\* JobQueue.enqueue: a job that is already queued stays where it is.
Enqueue(j, l) ==
    queue' = IF InQueue(j) THEN queue ELSE [queue EXCEPT ![l] = Append(@, j)]

-----------------------------------------------------------------------------
(* The API: create a job, cancel a job *)

\* JobService.create_job up to the enqueue: insert the row and re-read it.
CreateJob(j) ==
    /\ Up
    /\ creating[j] = "none"
    /\ \/ /\ Works
          /\ Write(j, "queued")
          /\ creating' = [creating EXCEPT ![j] = "inserted"]
       \/ /\ Fails
          /\ Write(j, "queued") \/ UNCHANGED row
          /\ creating' = [creating EXCEPT ![j] = "error"]
    /\ UNCHANGED <<poison, completion, assets, settled, queue, token, control, tick, history>>

\* enqueue_job reads the job: a cancelled one is not queued.
EnqueueRead(j) ==
    /\ creating[j] = "inserted"
    /\ \/ /\ Fails \/ (Works /\ ~Decodable(j))
          /\ creating' = [creating EXCEPT ![j] = "error"]
       \/ /\ Works /\ Decodable(j)
          /\ creating' = [creating EXCEPT ![j] =
                 IF row[j] = "cancelled" THEN "accepted" ELSE "enqueue"]
    /\ UNCHANGED <<durable, queue, token, control, tick, history>>

EnqueuePush(j) ==
    /\ creating[j] = "enqueue"
    /\ Enqueue(j, LaneOf[j])
    /\ creating' = [creating EXCEPT ![j] = "accepted"]
    /\ UNCHANGED <<durable, token, control, tick, history, faults>>

\* JobService.cancel_job is called.
CancelJob(c, j) ==
    /\ Up
    /\ pc[c] = "idle"
    /\ row[j] # "absent"
    /\ Take(c, "cancel", j)
    /\ UNCHANGED <<durable, queue, token, tick, creating, history, faults>>

\* One turn of its loop: read the job and choose the target from its status.
CancelRead(c) ==
    /\ pc[c] = "cancel"
    /\ LET j == job[c] IN
       \/ /\ Fails \/ (Works /\ ~Decodable(j))
          /\ Park(c, "idle")
       \/ /\ Works /\ Decodable(j)
          /\ seen' = [seen EXCEPT ![c] = row[j]]
          /\ pc' = [pc EXCEPT ![c] =
                 IF row[j] \in INTERRUPTED_JOB_STATUSES \cup {"queued"}
                 THEN "cas" ELSE "signal"]
          /\ UNCHANGED job
    /\ UNCHANGED <<durable, queue, token, tick, creating, history>>

\* The guarded write expects exactly the status that was read; a lost race
\* goes round the loop again.
CancelCas(c) ==
    /\ pc[c] = "cas"
    /\ LET j == job[c]
           target == CancelTarget(seen[c])
           hit == Admits(row[j], {seen[c]}, target)
       IN \/ /\ Fails
             /\ UNCHANGED row
             /\ Park(c, "idle")
          \/ /\ Works /\ hit
             /\ Write(j, target)
             /\ Goto(c, "reread")
          \/ /\ Works /\ ~hit
             /\ UNCHANGED row
             /\ Goto(c, "cancel")
    /\ UNCHANGED <<poison, completion, assets, settled, queue, token, tick, creating, history>>

\* The re-read that follows a committed write; if it raises, the call ends
\* without signalling the owner.
CancelReread(c) ==
    /\ pc[c] = "reread"
    /\ LET j == job[c] IN
       \/ /\ Fails \/ (Works /\ ~Decodable(j))
          /\ Park(c, "idle")
       \/ /\ Works /\ Decodable(j)
          /\ seen' = [seen EXCEPT ![c] = row[j]]
          /\ pc' = [pc EXCEPT ![c] = "signal_changed"]
          /\ UNCHANGED job
    /\ UNCHANGED <<durable, queue, token, tick, creating, history>>

\* CancellationRegistry.request_cancel, then the status event; a terminal
\* event runs completion convergence in this thread.
CancelSignal(c) ==
    /\ pc[c] \in {"signal", "signal_changed"}
    /\ LET j == job[c] IN
       /\ token' = IF token[j] = "none" THEN token ELSE [token EXCEPT ![j] = "set"]
       /\ IF pc[c] = "signal_changed" /\ seen[c] \in TERMINAL_JOB_STATUSES
          THEN Goto(c, "converge")
          ELSE Park(c, "idle")
    /\ UNCHANGED <<durable, queue, tick, creating, history, faults>>

-----------------------------------------------------------------------------
(* The runner: JobRunner.run_once and process_job *)

Dequeue(w) ==
    /\ Up
    /\ pc[w] = "idle"
    /\ queue[WorkerLane[w]] # <<>>
    /\ queue' = [queue EXCEPT ![WorkerLane[w]] = Tail(@)]
    /\ Take(w, "read", Head(queue[WorkerLane[w]]))
    /\ UNCHANGED <<durable, token, tick, creating, history, faults>>

\* Mutant of Requeue: the job is dropped.
RequeueLost(w) == UNCHANGED queue /\ Park(w, "idle")

\* run_once on a transient failure before the claim: back on the same lane.
Requeue(w) == Enqueue(job[w], WorkerLane[w]) /\ Park(w, "idle")

\* process_job reads the job and runs only a queued one.
ReadQueued(w) ==
    /\ pc[w] = "read"
    /\ LET j == job[w] IN
       \/ Fails /\ Requeue(w)
       \/ /\ Works
          /\ IF ~Decodable(j) THEN Goto(w, "quarantine")
             ELSE IF row[j] = "queued" THEN Goto(w, "claim")
             ELSE Park(w, "idle")
          /\ UNCHANGED queue
    /\ UNCHANGED <<durable, token, tick, creating, history>>

\* Mutant of ClaimJob: the row is written whatever its status.
ClaimJobUnguarded(w) ==
    /\ pc[w] = "claim"
    /\ Works
    /\ Write(job[w], "preparing")
    /\ Goto(w, "claimed")
    /\ UNCHANGED <<poison, completion, assets, settled, queue, token, tick, creating, history>>

\* _claim_job: the guarded write queued -> preparing, with no re-read.  A lost
\* claim only re-reads the row to return it.
ClaimJob(w) ==
    /\ pc[w] = "claim"
    /\ LET j == job[w] IN
       \/ /\ Fails
          /\ UNCHANGED row
          /\ Requeue(w)
       \/ /\ Works
          /\ UNCHANGED queue
          /\ IF Admits(row[j], {"queued"}, "preparing")
             THEN Write(j, "preparing") /\ Goto(w, "claimed")
             ELSE /\ UNCHANGED row
                  /\ IF Decodable(j) THEN Park(w, "idle") ELSE Goto(w, "quarantine")
    /\ UNCHANGED <<poison, completion, assets, settled, token, tick, creating, history>>

\* _quarantine_poison_job: only a queued row or one whose status is not a
\* status at all is failed; one that cannot be written goes back on the queue.
\* The event it publishes converges nothing: the row still does not decode.
QuarantinePoison(w) ==
    /\ pc[w] = "quarantine"
    /\ LET j == job[w] IN
       \/ /\ Fails
          /\ UNCHANGED row
          /\ Requeue(w)
       \/ /\ Works
          /\ UNCHANGED queue
          /\ IF row[j] \in {"queued", "garbled"}
             THEN Write(j, "failed")
             ELSE UNCHANGED row
          /\ Park(w, "idle")
    /\ UNCHANGED <<poison, completion, assets, settled, token, tick, creating, history>>

\* Mutant of BeginClaimed: a failed re-read ends the job instead of resolving it.
BeginClaimedGivesUp(w) ==
    /\ pc[w] = "claimed"
    /\ LET j == job[w] IN
       \/ Fails /\ Goto(w, "end") /\ UNCHANGED token
       \/ Works /\ token' = [token EXCEPT ![j] = "clear"] /\ Goto(w, "check")
    /\ UNCHANGED <<durable, queue, tick, creating, history>>

\* The claimed row is re-read and the cancellation event registered.
BeginClaimed(w) ==
    /\ pc[w] = "claimed"
    /\ LET j == job[w] IN
       \/ /\ Fails \/ (Works /\ ~Decodable(j))
          /\ Goto(w, "resolve")
          /\ UNCHANGED token
       \/ /\ Works /\ Decodable(j)
          /\ token' = IF token[j] = "none" THEN [token EXCEPT ![j] = "clear"] ELSE token
          /\ Goto(w, "check")
    /\ UNCHANGED <<durable, queue, tick, creating, history>>

\* The three _is_cancelled reads: before the generator, after it raised, and
\* after it returned.
CheckCancelled(w) ==
    /\ pc[w] \in {"check", "genfail", "generated"}
    /\ LET j == job[w] IN
       \/ /\ Fails \/ (Works /\ ~Decodable(j))
          /\ Goto(w, "resolve")
       \/ /\ Works /\ Decodable(j)
          /\ Goto(w, IF row[j] \in CANCELLATION_STATUSES THEN "finalize"
                     ELSE IF pc[w] = "check" THEN "start"
                     ELSE IF pc[w] = "genfail" THEN "fail"
                     ELSE "post")
    /\ UNCHANGED <<durable, queue, token, tick, creating, history>>

\* JobRepository.update_if_status as a step of a runner thread: the guarded
\* write and the re-read of what it wrote.  The re-read may raise after the
\* write was committed.
UpdateIfStatus(w, expected, target, onHit, onMiss, onRaise) ==
    LET j == job[w]
        hit == Admits(row[j], expected, target)
    IN \/ /\ Works /\ hit
          /\ Write(j, target)
          /\ Goto(w, IF j \in poison THEN onRaise ELSE onHit)
       \/ /\ Works /\ ~hit
          /\ UNCHANGED row
          /\ Goto(w, onMiss)
       \/ /\ Fails
          /\ UNCHANGED row \/ (hit /\ Write(j, target))
          /\ Goto(w, onRaise)

\* After a write that changed nothing the service re-reads the job.
OrRaise(w, p, onRaise) == IF Decodable(job[w]) THEN p ELSE onRaise

\* The generator is looked up and started once the row is running.
StartGenerator(w) ==
    /\ pc[w] = "start"
    /\ \/ /\ Works
          /\ Goto(w, "genfail")
          /\ UNCHANGED row
       \/ UpdateIfStatus(w, {"preparing"}, "running", "running", "finalize", "genfail")
    /\ runs' = IF pc'[w] = "running" THEN [runs EXCEPT ![job[w]] = @ + 1] ELSE runs
    /\ UNCHANGED <<poison, completion, assets, settled, queue, token, tick, creating,
                   crashes, corruptions>>

\* The generator returns, raises, or observes the cancellation.
Generate(w) ==
    /\ pc[w] = "running"
    /\ \/ Goto(w, "generated")
       \/ Goto(w, "genfail")
       \/ /\ \/ token[job[w]] = "set"
             \/ Decodable(job[w]) /\ row[job[w]] \in CANCELLATION_STATUSES
          /\ Goto(w, "finalize")
    /\ UNCHANGED <<durable, queue, token, tick, creating, history, faults>>

MoveToPostprocessing(w) ==
    /\ pc[w] = "post"
    /\ UpdateIfStatus(w, {"running"}, "postprocessing", "succeed", "finalize", "resolve")
    /\ UNCHANGED <<poison, completion, assets, settled, queue, token, tick, creating, history>>

\* Mutant of MarkSucceeded: a cancellation that won the race is forgotten.
MarkSucceededForgets(w) ==
    /\ pc[w] = "succeed"
    /\ UpdateIfStatus(w, {"postprocessing"}, "succeeded", "sync",
                      OrRaise(w, "end", "resolve"), "resolve")
    /\ UNCHANGED <<poison, completion, assets, settled, queue, token, tick, creating, history>>

\* mark_succeeded commits only from postprocessing; a cancellation that won
\* the race is finalized.
MarkSucceeded(w) ==
    /\ pc[w] = "succeed"
    /\ UpdateIfStatus(w, {"postprocessing"}, "succeeded", "sync",
                      OrRaise(w, IF row[job[w]] = "cancel_requested"
                                 THEN "finalize" ELSE "end", "resolve"),
                      "resolve")
    /\ UNCHANGED <<poison, completion, assets, settled, queue, token, tick, creating, history>>

\* asset_repository.sync_job inside mark_succeeded, before the event.
SyncAssets(w) ==
    /\ pc[w] = "sync"
    /\ \/ Works /\ assets' = assets \cup {job[w]} /\ Goto(w, "converge")
       \/ Fails /\ UNCHANGED assets /\ Goto(w, "resolve")
    /\ UNCHANGED <<row, poison, completion, settled, queue, token, tick, creating, history>>

MarkFailed(w) ==
    /\ pc[w] = "fail"
    /\ UpdateIfStatus(w, ACTIVE_JOB_STATUSES, "failed", "converge",
                      OrRaise(w, "end", "resolve"), "resolve")
    /\ UNCHANGED <<poison, completion, assets, settled, queue, token, tick, creating, history>>

FinalizeCancellation(w) ==
    /\ pc[w] = "finalize"
    /\ UpdateIfStatus(w, {"cancel_requested"}, "cancelled", "converge",
                      OrRaise(w, "end", "resolve"), "resolve")
    /\ UNCHANGED <<poison, completion, assets, settled, queue, token, tick, creating, history>>

\* _resolve_claim_failure: first as a cancellation ...
ResolveClaimFailure(w) ==
    /\ pc[w] = "resolve"
    /\ UpdateIfStatus(w, {"cancel_requested"}, "cancelled", "converge",
                      IF Decodable(job[w]) /\ Finished(job[w]) THEN "end" ELSE "resolvefail",
                      "resolvefail")
    /\ UNCHANGED <<poison, completion, assets, settled, queue, token, tick, creating, history>>

\* ... then as a failure; if that raises too, the job is left as it is.
ResolveMarkFailed(w) ==
    /\ pc[w] = "resolvefail"
    /\ UpdateIfStatus(w, ACTIVE_JOB_STATUSES, "failed", "converge", "end", "end")
    /\ UNCHANGED <<poison, completion, assets, settled, queue, token, tick, creating, history>>

\* The finally block: the cancellation event is dropped.
EndJob(w) ==
    /\ pc[w] = "end"
    /\ token' = [token EXCEPT ![job[w]] = "none"]
    /\ Park(w, "idle")
    /\ UNCHANGED <<durable, queue, tick, creating, history, faults>>

-----------------------------------------------------------------------------
(* Completion convergence, in the thread that published the terminal event, *)
(* in the retry loop or in startup recovery                                 *)

\* Where a thread goes when converge_job returns.
AfterConverge(t) ==
    IF t \in Workers THEN Goto(t, "end")
    ELSE Park(t, IF t = Boot THEN "pending" ELSE "idle")

\* Mutant of ConvergeEffects: the assets are left to mark_succeeded.
ConvergeEffectsNoAssets(t) ==
    /\ pc[t] = "converge"
    /\ Works
    /\ IF /\ Decodable(job[t]) /\ Finished(job[t]) /\ completion[job[t]] = "pending"
          /\ job[t] \notin held
       THEN settled' = settled \cup {job[t]} /\ Goto(t, "mark")
       ELSE UNCHANGED settled /\ AfterConverge(t)
    /\ UNCHANGED <<row, poison, completion, assets, queue, token, tick, creating, history>>

\* converge_job: nothing to do for a job that is not finished or already done;
\* otherwise apply the side effects, each of which may raise.  The assets are
\* synced first; a story or a batch that cannot catch up answers "retryable" or
\* "unresolved", the job stays pending and every later attempt does the same.
ConvergeEffects(t) ==
    /\ pc[t] = "converge"
    /\ LET j == job[t]
           due == Decodable(j) /\ Finished(j) /\ completion[j] = "pending"
           synced == IF row[j] = "succeeded" THEN assets \cup {j} ELSE assets
       IN \/ /\ Works /\ ~due
             /\ UNCHANGED <<assets, settled>>
             /\ AfterConverge(t)
          \/ /\ Works /\ due /\ j \in held
             /\ assets' = synced
             /\ UNCHANGED settled
             /\ AfterConverge(t)
          \/ /\ Works /\ due /\ j \notin held
             /\ assets' = synced
             /\ settled' = settled \cup {j}
             /\ Goto(t, "mark")
          \/ /\ Fails
             /\ assets' = assets \/ (due /\ assets' = synced)
             /\ UNCHANGED settled
             /\ AfterConverge(t)
    /\ UNCHANGED <<row, poison, completion, queue, token, tick, creating, history>>

\* mark_completion_done.  In startup recovery a failure here ends the process
\* (see Crash).
MarkCompletionDone(t) ==
    /\ pc[t] = "mark"
    /\ LET j == job[t] IN
       \/ /\ Works
          /\ completion' = IF Finished(j) THEN [completion EXCEPT ![j] = "done"]
                           ELSE completion
       \/ Fails /\ t # Boot /\ UNCHANGED completion
    /\ AfterConverge(t)
    /\ UNCHANGED <<row, poison, assets, settled, queue, token, tick, creating, history>>

\* run_retry_loop: every finished job that is still pending is converged again.
RetryPending(j) ==
    /\ Up
    /\ pc[Retry] = "idle"
    /\ Decodable(j) /\ Finished(j) /\ completion[j] = "pending"
    /\ Take(Retry, "converge", j)
    /\ UNCHANGED <<durable, queue, token, tick, creating, history, faults>>

\* _retry_poison_quarantine_candidates works on a snapshot; the candidates are
\* replaced by the ones it kept only if the whole tick ran to its end.
TickStart ==
    /\ Up
    /\ pc[Retry] = "idle"
    /\ candidates # {}
    /\ Goto(Retry, "visit")
    /\ todo' = candidates
    /\ kept' = {}
    /\ UNCHANGED <<durable, queue, token, creating, history, faults, candidates>>

TickVisit(j) ==
    /\ pc[Retry] = "visit"
    /\ j \in todo
    /\ \/ /\ Fails
          /\ todo' = todo \ {j}
          /\ kept' = kept \cup {j}
          /\ UNCHANGED control
       \/ /\ Works
          /\ pc' = [pc EXCEPT ![Retry] = IF Decodable(j) THEN "repaired" ELSE "requarantine"]
          /\ job' = [job EXCEPT ![Retry] = j]
          /\ seen' = [seen EXCEPT ![Retry] = row[j]]
          /\ UNCHANGED <<todo, kept>>
    /\ UNCHANGED <<durable, queue, token, candidates, creating, history>>

\* The candidate just visited leaves the tick, to be visited again or not.
Dispose(j, again) ==
    /\ todo' = todo \ {j}
    /\ kept' = IF again THEN kept \cup {j} ELSE kept
    /\ Park(Retry, "visit")
    /\ UNCHANGED candidates

\* An exception that escapes the tick: what it had decided is forgotten.
AbandonTick ==
    /\ todo' = {}
    /\ kept' = {}
    /\ Park(Retry, "idle")
    /\ UNCHANGED candidates

\* The row still does not decode: quarantine it by its raw status.
TickRequarantine ==
    /\ pc[Retry] = "requarantine"
    /\ LET j == job[Retry] IN
       \/ /\ Fails
          /\ UNCHANGED row
          /\ Dispose(j, TRUE)
       \/ /\ Works
          /\ Write(j, QuarantinedStatus(row[j]))
          /\ Dispose(j, FALSE)
    /\ UNCHANGED <<poison, completion, assets, settled, queue, token, creating, history>>

\* The row decodes again: a queued job is queued, an interrupted one failed, a
\* cancelling one cancelled, all by the status read before; a lost race keeps
\* the candidate.
TickResolveRepaired ==
    /\ pc[Retry] = "repaired"
    /\ LET j == job[Retry]
           status == seen[Retry]
           target == QuarantinedStatus(status)
       IN \/ /\ status = "queued"
             /\ UNCHANGED row
             /\ \/ /\ Fails \/ (Works /\ ~Decodable(j))
                   /\ UNCHANGED queue
                   /\ AbandonTick
                \/ /\ Works /\ Decodable(j)
                   /\ IF row[j] = "cancelled" THEN UNCHANGED queue
                      ELSE Enqueue(j, LaneOf[j])
                   /\ Dispose(j, FALSE)
          \/ /\ status \in INTERRUPTED_JOB_STATUSES \cup {"cancel_requested"}
             /\ UNCHANGED queue
             /\ \/ Fails /\ UNCHANGED row /\ AbandonTick
                \/ /\ Works
                   /\ IF Admits(row[j], {status}, target)
                      THEN Write(j, target) /\ Dispose(j, FALSE)
                      ELSE UNCHANGED row /\ Dispose(j, TRUE)
          \/ /\ status \in TERMINAL_JOB_STATUSES
             /\ Works
             /\ UNCHANGED <<row, queue>>
             /\ Dispose(j, FALSE)
    /\ UNCHANGED <<poison, completion, assets, settled, token, creating, history>>

TickEnd ==
    /\ pc[Retry] = "visit"
    /\ todo = {}
    /\ candidates' = kept
    /\ kept' = {}
    /\ Park(Retry, "idle")
    /\ UNCHANGED <<durable, queue, token, todo, creating, history, faults>>

-----------------------------------------------------------------------------
(* Startup recovery, crashes, and rows that stop decoding *)

Stored(j) == row[j] # "absent"

\* A step of startup recovery that lists rows: the next step and what it visits.
BootStep(from, to, visits) ==
    /\ pc[Boot] = from
    /\ todo = {}
    /\ Goto(Boot, to)
    /\ todo' = visits
    /\ UNCHANGED <<row, poison, completion, settled, queue, token, candidates, kept,
                   creating, history>>

BootVisit(step, j) ==
    /\ pc[Boot] = step
    /\ j \in todo
    /\ todo' = todo \ {j}

\* Step 1: rows that do not decode.
BootScan ==
    /\ BootStep("down", "poison", {j \in Jobs : Stored(j) /\ ~Decodable(j)})
    /\ UNCHANGED <<assets, faults>>

\* quarantine_poison_row_safely; a failed write makes the row a candidate of
\* the retry loop.
BootQuarantine(j) ==
    /\ BootVisit("poison", j)
    /\ \/ /\ Works
          /\ Write(j, QuarantinedStatus(row[j]))
          /\ UNCHANGED candidates
       \/ /\ Fails
          /\ candidates' = candidates \cup {j}
          /\ UNCHANGED row
    /\ UNCHANGED <<poison, completion, assets, settled, queue, token, control, kept,
                   creating, history>>

\* Step 3: jobs whose worker is gone.
BootList ==
    /\ BootStep("poison", "interrupted",
                {j \in Jobs : Decodable(j) /\ row[j] \in ACTIVE_JOB_STATUSES \ {"queued"}})
    /\ UNCHANGED <<assets, faults>>

\* Step 3: an interrupted job fails, a cancellation under way is completed.
BootFinalize(j) ==
    /\ BootVisit("interrupted", j)
    /\ LET target == QuarantinedStatus(row[j]) IN
       IF row[j] \in ACTIVE_JOB_STATUSES \ {"queued"}
       THEN Write(j, target) ELSE UNCHANGED row
    /\ UNCHANGED <<poison, completion, assets, settled, queue, token, control, candidates,
                   kept, creating, history, faults>>

\* Step 4: completion of every finished job that is still pending.
BootPending ==
    /\ BootStep("interrupted", "pending",
                {j \in Jobs : Decodable(j) /\ Finished(j) /\ completion[j] = "pending"})
    /\ UNCHANGED <<assets, faults>>

BootConverge(j) ==
    /\ BootVisit("pending", j)
    /\ Take(Boot, "converge", j)
    /\ UNCHANGED <<durable, queue, token, candidates, kept, creating, history, faults>>

\* Step 4b repairs the assets of every succeeded job, a failure on one of them
\* skipping it; step 6 lists the queued jobs.
BootAssets ==
    /\ BootStep("pending", "requeue", {j \in Jobs : Decodable(j) /\ row[j] = "queued"})
    /\ LET succeeded == {j \in Jobs : Decodable(j) /\ row[j] = "succeeded"} IN
       \/ Works /\ assets' = assets \cup succeeded
       \/ Fails /\ \E k \in succeeded : assets' = assets \cup (succeeded \ {k})

\* Mutant of BootEnqueue: queued jobs are not put back.
BootEnqueueNothing(j) ==
    /\ BootVisit("requeue", j)
    /\ UNCHANGED <<durable, queue, token, control, candidates, kept, creating, history, faults>>

\* Every job that a fresh read still finds queued goes back on the queue; a
\* failed read skips it.
BootEnqueue(j) ==
    /\ BootVisit("requeue", j)
    /\ \/ Fails /\ UNCHANGED queue
       \/ /\ Works
          /\ IF Decodable(j) /\ row[j] = "queued" THEN Enqueue(j, LaneOf[j])
             ELSE UNCHANGED queue
    /\ UNCHANGED <<durable, token, control, candidates, kept, creating, history>>

\* Recovery is over: the runner and the retry loop start, the API serves.
BootUp ==
    /\ BootStep("requeue", "up", {})
    /\ UNCHANGED <<assets, faults>>

\* The process dies, in service or during recovery: what is in memory is gone.
Crash ==
    /\ pc[Boot] # "down"
    /\ crashes < MaxCrashes
    /\ crashes' = crashes + 1
    /\ queue' = [l \in Lanes |-> <<>>]
    /\ token' = [j \in Jobs |-> "none"]
    /\ pc' = [t \in Threads |-> IF t = Boot THEN "down" ELSE "idle"]
    /\ job' = [t \in Threads |-> NoJob]
    /\ seen' = [t \in Threads |-> "absent"]
    /\ candidates' = {}
    /\ todo' = {}
    /\ kept' = {}
    /\ creating' = [j \in Jobs |->
           IF creating[j] \in {"inserted", "enqueue"} THEN "error" ELSE creating[j]]
    /\ UNCHANGED <<durable, runs, corruptions, faults>>

\* A row's payload stops decoding; the status of an unfinished one may become
\* something that is not a status.
CorruptRow(j) ==
    /\ corruptions < MaxCorruptions
    /\ Stored(j)
    /\ j \notin poison
    /\ corruptions' = corruptions + 1
    /\ poison' = poison \cup {j}
    /\ UNCHANGED row \/ (~Finished(j) /\ Write(j, "garbled"))
    /\ UNCHANGED <<completion, assets, settled, queue, token, control, tick, creating,
                   runs, crashes, faults>>

\* What holds up the completion of a finished job without any failure of the
\* attempt itself: it was made for a scene and succeeded without an output (for
\* ever, unless another job fills the scene or the scene goes), its story's or
\* batch's file does not decode, or a sibling of the scene does not.  Only
\* convergence looks at it, so only pending jobs are held up.
HoldUp(j) ==
    /\ Finished(j) /\ completion[j] = "pending"
    /\ j \notin held
    /\ held' = held \cup {j}
    /\ UNCHANGED core

\* The scene was filled or deleted, or the file or the sibling repaired.
LetGo(j) ==
    /\ j \in held
    /\ held' = held \ {j}
    /\ UNCHANGED core

\* Somebody repairs the payload.
RepairRow(j) ==
    /\ j \in poison
    /\ row[j] # "garbled"
    /\ poison' = poison \ {j}
    /\ UNCHANGED <<row, completion, assets, settled, queue, token, control, tick, creating,
                   history, faults>>

-----------------------------------------------------------------------------

WorkerStep(w) ==
    \/ Dequeue(w) \/ ReadQueued(w) \/ ClaimJob(w) \/ QuarantinePoison(w)
    \/ BeginClaimed(w) \/ CheckCancelled(w) \/ StartGenerator(w) \/ Generate(w)
    \/ MoveToPostprocessing(w) \/ MarkSucceeded(w) \/ SyncAssets(w)
    \/ MarkFailed(w) \/ FinalizeCancellation(w)
    \/ ResolveClaimFailure(w) \/ ResolveMarkFailed(w) \/ EndJob(w)
    \/ ConvergeEffects(w) \/ MarkCompletionDone(w)

CreateStep(j) == EnqueueRead(j) \/ EnqueuePush(j)

CancelStep(c) ==
    \/ CancelRead(c) \/ CancelCas(c) \/ CancelReread(c) \/ CancelSignal(c)
    \/ ConvergeEffects(c) \/ MarkCompletionDone(c)

RetryStep ==
    \/ ConvergeEffects(Retry) \/ MarkCompletionDone(Retry)
    \/ TickStart \/ TickRequarantine \/ TickResolveRepaired \/ TickEnd
    \/ \E j \in Jobs : TickVisit(j)

BootRecovery ==
    \/ BootScan \/ BootList \/ BootPending \/ BootAssets \/ BootUp
    \/ ConvergeEffects(Boot) \/ MarkCompletionDone(Boot)
    \/ \E j \in Jobs : BootQuarantine(j) \/ BootFinalize(j) \/ BootConverge(j) \/ BootEnqueue(j)

ProgramStep ==
    \/ \E w \in Workers : WorkerStep(w)
    \/ \E c \in Clients : CancelStep(c) \/ \E j \in Jobs : CancelJob(c, j)
    \/ \E j \in Jobs : CreateJob(j) \/ CreateStep(j) \/ RetryPending(j)
    \/ RetryStep
    \/ BootRecovery
    \/ Crash
    \/ \E j \in Jobs : CorruptRow(j) \/ RepairRow(j)

Next ==
    \/ ProgramStep /\ UNCHANGED held
    \/ \E j \in Jobs : HoldUp(j) \/ LetGo(j)

Spec == Init /\ [][Next]_vars

\* Threads that are started keep running: the runner and the retry loop poll
\* until they are stopped, a generator returns, an API call is carried on, and
\* a process that is down is started again.  Each tick of the retry loop visits
\* every pending job.
Fairness ==
    /\ \A w \in Workers : WF_core(WorkerStep(w))
    /\ \A c \in Clients : WF_core(CancelStep(c))
    /\ \A j \in Jobs : WF_core(CreateStep(j)) /\ SF_core(RetryPending(j))
    /\ WF_core(RetryStep)
    /\ WF_core(BootRecovery)

FairSpec == Spec /\ Fairness
-----------------------------------------------------------------------------
(* Properties *)

ClaimedPcs == OwnerPcs \cup ConvergePcs \cup {"end"}

Owns(w, j) == pc[w] \in OwnerPcs /\ job[w] = j

\* Two runner threads never process the same job after a claim: the guarded
\* write in _claim_job is the only way in, whatever requeues, retries and
\* recoveries put the job on the queue more than once.
ExclusiveOwner ==
    \A v, w \in Workers :
        pc[v] \in ClaimedPcs /\ pc[w] \in ClaimedPcs /\ job[v] = job[w] => v = w

\* The generator of a job is started at most once, over all restarts of the
\* process: startup recovery fails an interrupted job, it never runs it again.
RunsOnce == \A j \in Jobs : runs[j] <= 1

\* While the process is up, a readable job that is past the queue and not
\* finished belongs to a runner thread, which will finish it: one storage
\* failure is always absorbed by _resolve_claim_failure; it takes a second one
\* to leave the job behind until the next start.
OwnedUnlessTwoFaults ==
    \A j \in Jobs :
        /\ Up
        /\ faults < 2
        /\ corruptions = 0
        /\ row[j] \in ACTIVE_JOB_STATUSES \ {"queued"}
        => \E w \in Workers : Owns(w, j)

EffectsApplied(j) ==
    Finished(j) /\ j \in settled /\ (row[j] = "succeeded" => j \in assets)

\* completion_state is done only for a finished job whose assets, story and
\* batch have caught up, whichever of the converging threads wrote it.
DoneIsSettled ==
    \A j \in Jobs : completion[j] = "done" => EffectsApplied(j)

\* Requeues and recoveries never put a job in the queue twice, nor in a lane
\* other than its own: the ValueError of JobQueue.enqueue is never raised.
QueueConsistent ==
    \A l \in Lanes : \A i \in 1..Len(queue[l]) :
        /\ LaneOf[queue[l][i]] = l
        /\ \A k \in 1..Len(queue[l]) : queue[l][k] = queue[l][i] => k = i

\* A readable queued job that nothing will ever hand to a runner thread.
Stranded(j) ==
    /\ Up
    /\ row[j] = "queued"
    /\ j \notin poison
    /\ ~InQueue(j)
    /\ creating[j] \notin {"inserted", "enqueue"}
    /\ j \notin candidates
    /\ \A w \in Workers : ~(pc[w] \in PreClaimPcs /\ job[w] = j)

\* No step of a runner, a cancel call or the retry loop strands a queued job.
\* It happens only when the create call reports an error to its caller, when a
\* failed read makes startup recovery skip the job, or when somebody repairs a
\* row by hand (during startup, possibly before its list of queued jobs is read);
\* nor does any step queue a job twice or in a lane of others.
NoStepStrands ==
    [][/\ QueueConsistent'
       /\ \A j \in Jobs : Stranded(j)' =>
             \/ Stranded(j)
             \/ creating[j] # "error" /\ creating'[j] = "error"
             \/ ~Up /\ faults + corruptions > 0
             \/ j \in poison]_vars

\* The pipeline implements JobLifecycle: every status change is a transition
\* of the contract (or damage and its repair), a finished job stays as it is, a
\* recorded cancellation is never overtaken by a success, the generator runs
\* at most once and only finished jobs are completed.
Lifecycle == INSTANCE JobLifecycle
    WITH status <- row, executions <- runs, completed <- completion
ImplementsLifecycle == Lifecycle!Spec

\* The inductive invariant behind ExclusiveOwner, RunsOnce, DoneIsSettled and
\* the refinement.  A thread that is at work holds a job; a row exists only
\* once its create call was made; a claimed row is past the queue, which is
\* why no second claim can succeed; a generator that was started has left its
\* row past preparing; and a thread about to record a completion has applied
\* its effects to a row that no longer changes.
HomePcs == {"idle", "visit"} \cup (BootPcs \ ConvergePcs)

HoldsJob == \A t \in Threads : pc[t] \notin HomePcs => job[t] \in Jobs

SubmittedOnce == \A j \in Jobs : creating[j] = "none" => row[j] = "absent"

ClaimedIsPastQueue ==
    \A w \in Workers :
        pc[w] \in ClaimedPcs => row[job[w]] \notin {"absent", "queued"}

StartedIsPastPreparing ==
    \A j \in Jobs : runs[j] # 0 => row[j] \notin {"absent", "queued", "preparing"}

MarkingIsApplied ==
    \A t \in Threads : pc[t] = "mark" => EffectsApplied(job[t])

IndInv ==
    /\ TypeOK
    /\ HoldsJob
    /\ SubmittedOnce
    /\ ClaimedIsPastQueue
    /\ ExclusiveOwner
    /\ StartedIsPastPreparing
    /\ RunsOnce
    /\ MarkingIsApplied
    /\ DoneIsSettled

-----------------------------------------------------------------------------
(* The invariants behind OwnedUnlessTwoFaults and NoStepStrands *)

\* Nothing but startup recovery runs before the process is up, and no create
\* call survives the process it was made in.
DownIsQuiet ==
    ~Up => /\ \A t \in Threads \ {Boot} : pc[t] = "idle"
           /\ \A j \in Jobs : creating[j] \notin {"inserted", "enqueue"}

\* Rows that decode stay out of every poison path.
IntactIsClean ==
    corruptions = 0 =>
        /\ poison = {} /\ candidates = {}
        /\ \A j \in Jobs : row[j] # "garbled"
        /\ pc[Retry] \in {"idle"} \cup ConvergePcs
        /\ pc[Boot] = "poison" => todo = {}

\* A job at one of these can only be finished.
ENDING_STATUSES == {"cancel_requested"} \cup TERMINAL_JOB_STATUSES

\* A cancel call that has written, or found nothing to write, and an event that
\* was set, concern a job that can only be finished.
CancelsAreRecorded ==
    /\ \A c \in Clients : pc[c] # "idle" => row[job[c]] # "absent"
    /\ corruptions = 0 =>
           /\ \A c \in Clients : pc[c] \in {"reread", "signal", "signal_changed"} =>
                  row[job[c]] \in ENDING_STATUSES
           /\ \A j \in Jobs : token[j] = "set" => row[j] \in ENDING_STATUSES

\* Where the row of a runner thread's job is, while it may only have been
\* cancelled behind the thread's back; only a failure leads to the resolution.
Follows(w) ==
    /\ pc[w] \in {"claimed", "check", "start"} =>
           row[job[w]] \in {"preparing"} \cup ENDING_STATUSES
    /\ pc[w] \in {"running", "generated", "post"} =>
           row[job[w]] \in {"running"} \cup ENDING_STATUSES
    /\ pc[w] = "succeed" => row[job[w]] \in {"postprocessing"} \cup ENDING_STATUSES
    /\ pc[w] = "finalize" => row[job[w]] \in ENDING_STATUSES
    /\ pc[w] \in {"sync"} \cup ConvergePcs => Finished(job[w])
    /\ pc[w] \in {"resolve", "resolvefail"} => faults > 0

RowsAreFollowed == corruptions = 0 => \A w \in Workers : Follows(w)

Begun(j) == row[j] \in ACTIVE_JOB_STATUSES \ {"queued"}

\* Startup recovery leaves no begun job once it has visited the interrupted ones.
RecoveryFinishes ==
    corruptions = 0 /\ pc[Boot] \in BootPcs \ {"down", "poison", "up"} =>
        \A j \in Jobs : Begun(j) => pc[Boot] = "interrupted" /\ j \in todo

OwnershipInv ==
    /\ IndInv
    /\ DownIsQuiet
    /\ IntactIsClean
    /\ CancelsAreRecorded
    /\ RowsAreFollowed
    /\ RecoveryFinishes
    /\ OwnedUnlessTwoFaults

\* A runner thread only takes jobs of the lane it drains.
TakenInLane ==
    \A w \in Workers : pc[w] \in PreClaimPcs => LaneOf[job[w]] = WorkerLane[w]

\* A candidate of the retry loop was there when the process started.
CandidatesAreOld ==
    /\ \A j \in candidates : creating[j] \in {"accepted", "error"}
    /\ pc[Boot] = "poison" => \A j \in todo : creating[j] # "none"

\* The job is not queued, or on its way to a runner thread.
Handled(j) ==
    \/ row[j] # "queued"
    \/ InQueue(j)
    \/ \E w \in Workers : pc[w] \in PreClaimPcs /\ job[w] = j

TickPcs == {"visit", "requarantine", "repaired"}

\* A tick of the retry loop visits candidates only, and drops none that still
\* needs it.
TickIsThorough ==
    /\ pc[Retry] \in TickPcs =>
           /\ todo \cup kept \subseteq candidates
           /\ pc[Retry] # "visit" => job[Retry] \in candidates
           /\ \A j \in candidates : j \in todo \cup kept \/ Handled(j)
    /\ pc[Retry] = "repaired" /\ seen[Retry] \notin {"absent", "queued"} =>
           row[job[Retry]] \notin {"absent", "queued"}

\* When no read failed, startup recovery queues every queued job.
RecoveryQueues ==
    pc[Boot] = "requeue" /\ faults + corruptions = 0 =>
        \A j \in Jobs : row[j] = "queued" => j \in todo \/ InQueue(j)

\* The whole inductive invariant of the pipeline: the queue holds a job at most
\* once, in its lane, and loses none that a tick or recovery is about to queue;
\* begun rows are owned and where their owners believe them to be; claims are
\* exclusive and completions settled.
QueueInv ==
    /\ OwnershipInv
    /\ QueueConsistent
    /\ TakenInLane
    /\ CandidatesAreOld
    /\ TickIsThorough
    /\ RecoveryQueues

\* The comment of _retry_poison_quarantine_candidates on a repaired row it
\* finds preparing, running or postprocessing: "this process is not the worker
\* that owned it; that worker is confirmed gone".
RepairedHasNoWorker ==
    pc[Retry] = "repaired" /\ seen[Retry] \in INTERRUPTED_JOB_STATUSES =>
        \A w \in Workers : ~Owns(w, job[Retry])

\* A job whose create call succeeded is finished, in spite of a storage failure
\* or a crash (one of them at a time), and its completion converges unless it
\* is held up again and again: the retry loop never gives a pending job up.
AcceptedIsCompleted ==
    \A j \in Jobs :
        /\ creating[j] = "accepted" ~> Finished(j)
        /\ <>[](j \notin held) =>
              (creating[j] = "accepted" ~> completion[j] = "done")

\* A recorded cancellation request is finished.
CancellationFinishes ==
    \A j \in Jobs : row[j] = "cancel_requested" ~> Finished(j)
=============================================================================
