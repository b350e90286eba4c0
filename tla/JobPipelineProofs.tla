-------------------------- MODULE JobPipelineProofs --------------------------
(***************************************************************************)
(* Proofs about JobPipeline, for any number of jobs, runner threads, API   *)
(* clients, lanes, storage faults, crashes and corrupted rows.             *)
(*                                                                         *)
(* The argument has two halves.  First, every action is shown to preserve  *)
(* the types and to change the state only in the ways the predicates below *)
(* list (one lemma per action, <Action>Step).  Then IndInv and the         *)
(* refinement of JobLifecycle follow from those predicates alone.          *)
(***************************************************************************)
EXTENDS JobPipeline, TLAPS

\* The step is one of JobLifecycle, or changes none of its variables.
LifeStep == [Lifecycle!Next]_(Lifecycle!lifecycle)

\* A runner thread is past a claim only if it was before, with the same job,
\* or if it has just moved that job from queued to preparing, alone.
ClaimMoves ==
    \A w \in Workers : pc'[w] \in ClaimedPcs =>
        \/ pc[w] \in ClaimedPcs /\ job'[w] = job[w]
        \/ /\ pc[w] = "claim"
           /\ job'[w] = job[w] /\ job[w] \in Jobs
           /\ row[job[w]] = "queued" /\ row'[job[w]] = "preparing"
           /\ \A v \in Workers \ {w} : pc'[v] = pc[v] /\ job'[v] = job[v]

\* A thread gets to the point of recording a completion by applying its effects.
MarkMoves ==
    \A t \in Threads : pc'[t] = "mark" =>
        \/ pc[t] = "mark" /\ job'[t] = job[t]
        \/ EffectsApplied(job[t])'

EffectsGrow == assets \subseteq assets' /\ settled \subseteq settled'

\* A completion is recorded only by a thread that is at that point.
CompletionMoves ==
    \A j \in Jobs : completion'[j] = "done" =>
        \/ completion[j] = "done"
        \/ \E t \in Threads : pc[t] = "mark" /\ job[t] = j

\* Only the create call makes a row of an absent one.
CreateMoves ==
    \A j \in Jobs : creating'[j] = "none" =>
        creating[j] = "none" /\ (row[j] = "absent" => row'[j] = "absent")

Preserves ==
    /\ ProgramType' /\ HoldsJob'
    /\ LifeStep /\ ClaimMoves /\ MarkMoves
    /\ EffectsGrow /\ CompletionMoves /\ CreateMoves

-----------------------------------------------------------------------------
(* Lemmas on the building blocks *)

\* JobQueue.enqueue keeps queues of jobs queues of jobs.
LEMMA EnqueueType ==
    ASSUME queue \in [Lanes -> Seq(Jobs)], NEW j \in Jobs, NEW l \in Lanes, Enqueue(j, l)
    PROVE  queue' \in [Lanes -> Seq(Jobs)]
  BY DEF Enqueue

\* A step that writes none of the variables of JobLifecycle stutters there.
LEMMA StutterMoves ==
    ASSUME UNCHANGED <<row, runs, completion>>
    PROVE  LifeStep
  BY DEF LifeStep, Lifecycle!lifecycle

\* A guarded UPDATE of the jobs table is a move of the contract or no change.
LEMMA AdmittedMoves ==
    ASSUME TableType, NEW j \in Jobs, NEW expected, NEW s \in JOB_STATUSES,
           Admits(row[j], expected, s), Write(j, s), UNCHANGED <<runs, completion>>
    PROVE  LifeStep
<1>1. CASE s = row[j]
  <2>1. row' = row
    BY <1>1 DEF TableType, Write
  <2> QED BY <2>1, StutterMoves
<1>2. CASE <<row[j], s>> \in ALLOWED_TRANSITIONS
  <2>1. <<row[j], s>> \in Lifecycle!ALLOWED_TRANSITIONS
    BY <1>2 DEF ALLOWED_TRANSITIONS, Lifecycle!ALLOWED_TRANSITIONS
  <2>2. Lifecycle!Move(j, s)
    BY <2>1, <1>2 DEF Write, Lifecycle!Move
  <2>3. s \in Lifecycle!JOB_STATUSES
    BY DEF JOB_STATUSES, Lifecycle!JOB_STATUSES
  <2> QED BY <2>2, <2>3 DEF LifeStep, Lifecycle!Next
<1> QED BY <1>1, <1>2 DEF Admits, is_valid_transition

\* So is update_if_status as a step of a runner thread, whether it hits, misses
\* or raises with or without having committed.
LEMMA UpdateMoves ==
    ASSUME TableType, NEW w \in Workers, job[w] \in Jobs,
           NEW expected, NEW s \in JOB_STATUSES, NEW onHit, NEW onMiss, NEW onRaise,
           UpdateIfStatus(w, expected, s, onHit, onMiss, onRaise),
           UNCHANGED <<runs, completion>>
    PROVE  LifeStep
<1>1. CASE UNCHANGED row
  BY <1>1, StutterMoves
<1>2. CASE Admits(row[job[w]], expected, s) /\ Write(job[w], s)
  BY <1>2, AdmittedMoves
<1> QED BY <1>1, <1>2 DEF UpdateIfStatus

\* Quarantining a row by its raw status is a move of the contract, the repair
\* of a garbled status, or no change.
LEMMA QuarantineMoves ==
    ASSUME TableType, NEW j \in Jobs, Write(j, QuarantinedStatus(row[j])),
           UNCHANGED <<runs, completion>>
    PROVE  LifeStep
<1>1. CASE QuarantinedStatus(row[j]) = row[j]
  BY <1>1, StutterMoves DEF TableType, Write
<1>2. CASE row[j] = "garbled"
  <2>1. Lifecycle!Quarantine(j)
    BY <1>2 DEF Lifecycle!Quarantine, Write, QuarantinedStatus
  <2> QED BY <2>1 DEF LifeStep, Lifecycle!Next
<1>3. CASE row[j] \in {"queued", "preparing", "running", "postprocessing"}
  <2>1. Admits(row[j], {row[j]}, "failed")
    BY <1>3 DEF Admits, is_valid_transition, ALLOWED_TRANSITIONS, JOB_STATUSES
  <2>2. QuarantinedStatus(row[j]) = "failed" /\ "failed" \in JOB_STATUSES
    BY <1>3 DEF QuarantinedStatus, INTERRUPTED_JOB_STATUSES, JOB_STATUSES
  <2> QED BY <2>1, <2>2, AdmittedMoves
<1>4. CASE row[j] = "cancel_requested"
  <2>1. Admits(row[j], {row[j]}, "cancelled")
    BY <1>4 DEF Admits, is_valid_transition, ALLOWED_TRANSITIONS, JOB_STATUSES
  <2>2. QuarantinedStatus(row[j]) = "cancelled" /\ "cancelled" \in JOB_STATUSES
    BY <1>4 DEF QuarantinedStatus, JOB_STATUSES
  <2> QED BY <2>1, <2>2, AdmittedMoves
<1> QED
  BY <1>1, <1>2, <1>3, <1>4
     DEF TableType, RowStatuses, JOB_STATUSES, QuarantinedStatus, INTERRUPTED_JOB_STATUSES

-----------------------------------------------------------------------------
(* One lemma per action *)

USE DEF IndInv, TypeOK, ProgramType, Threads, durable, control, tick, history, Works, Fails,
        Write, Goto, Park, Take

\* create_job inserts a row, with or without reporting an error.
LEMMA CreateJobStep ==
    ASSUME IndInv, NEW j \in Jobs, CreateJob(j)
    PROVE  Preserves
<1>1. TableType'
  BY DEF TableType, RowStatuses, JOB_STATUSES, CreateJob
<1>2. MemoryType'
  BY DEF MemoryType, CreateJob
<1>3. ThreadType'
  BY ThreadsAssumption DEF ThreadType, CreateJob
<1>4. CounterType'
  BY DEF CounterType, CreateJob
<1>5. HoldsJob'
  BY ThreadsAssumption DEF HoldsJob, ThreadType, CreateJob
<1>6. LifeStep
  <2>1. row[j] = "absent"
    BY DEF IndInv, SubmittedOnce, CreateJob
  <2>2. CASE UNCHANGED row
    BY <2>2, StutterMoves DEF CreateJob
  <2>3. CASE Write(j, "queued")
    <3>1. Lifecycle!Submit(j)
      BY <2>1, <2>3 DEF CreateJob, Lifecycle!Submit
    <3> QED BY <3>1 DEF LifeStep, Lifecycle!Next
  <2> QED BY <2>2, <2>3 DEF CreateJob
<1>7. ClaimMoves
  BY ThreadsAssumption DEF ClaimMoves, ThreadType, CreateJob
<1>8. MarkMoves /\ EffectsGrow /\ CompletionMoves /\ CreateMoves
  BY ThreadsAssumption DEF MarkMoves, ThreadType, EffectsGrow, CompletionMoves,
     CreateJob, CreateMoves, TableType, Admits, JOB_STATUSES, MemoryType
<1> QED
  BY <1>1, <1>2, <1>3, <1>4, <1>5, <1>6, <1>7, <1>8
     DEF Preserves, ProgramType

\* enqueue_job reads the row it is about to queue.
LEMMA EnqueueReadStep ==
    ASSUME IndInv, NEW j \in Jobs, EnqueueRead(j)
    PROVE  Preserves
<1>1. TableType'
  BY DEF TableType, EnqueueRead
<1>2. MemoryType'
  BY DEF MemoryType, EnqueueRead
<1>3. ThreadType'
  BY ThreadsAssumption DEF ThreadType, EnqueueRead
<1>4. CounterType'
  BY DEF CounterType, EnqueueRead
<1>5. HoldsJob'
  BY ThreadsAssumption DEF HoldsJob, ThreadType, EnqueueRead
<1>6. LifeStep
  BY StutterMoves DEF EnqueueRead
<1>7. ClaimMoves
  BY ThreadsAssumption DEF ClaimMoves, ThreadType, EnqueueRead
<1>8. MarkMoves /\ EffectsGrow /\ CompletionMoves /\ CreateMoves
  BY ThreadsAssumption DEF MarkMoves, ThreadType, EffectsGrow, CompletionMoves,
     EnqueueRead, CreateMoves, MemoryType
<1> QED
  BY <1>1, <1>2, <1>3, <1>4, <1>5, <1>6, <1>7, <1>8
     DEF Preserves, ProgramType

\* enqueue_job queues the job.
LEMMA EnqueuePushStep ==
    ASSUME IndInv, NEW j \in Jobs, EnqueuePush(j)
    PROVE  Preserves
<1>1. TableType'
  BY DEF TableType, EnqueuePush
<1>2. MemoryType'
  BY LanesAssumption, EnqueueType DEF MemoryType, EnqueuePush
<1>3. ThreadType'
  BY ThreadsAssumption DEF ThreadType, EnqueuePush
<1>4. CounterType'
  BY DEF CounterType, EnqueuePush
<1>5. HoldsJob'
  BY ThreadsAssumption DEF HoldsJob, ThreadType, EnqueuePush
<1>6. LifeStep
  BY StutterMoves DEF EnqueuePush
<1>7. ClaimMoves
  BY ThreadsAssumption DEF ClaimMoves, ThreadType, EnqueuePush
<1>8. MarkMoves /\ EffectsGrow /\ CompletionMoves /\ CreateMoves
  BY ThreadsAssumption DEF MarkMoves, ThreadType, EffectsGrow, CompletionMoves,
     EnqueuePush, CreateMoves, MemoryType
<1> QED
  BY <1>1, <1>2, <1>3, <1>4, <1>5, <1>6, <1>7, <1>8
     DEF Preserves, ProgramType

\* A cancel call begins.
LEMMA CancelJobStep ==
    ASSUME IndInv, NEW c \in Clients, NEW j \in Jobs, CancelJob(c, j)
    PROVE  Preserves
<1>1. TableType'
  BY DEF TableType, CancelJob
<1>2. MemoryType'
  BY DEF MemoryType, CancelJob
<1>3. ThreadType'
  BY ThreadsAssumption DEF ThreadType, ClientPcs, ConvergePcs, CancelJob
<1>4. CounterType'
  BY DEF CounterType, CancelJob
<1>5. HoldsJob'
  BY ThreadsAssumption DEF HoldsJob, ThreadType, HomePcs, BootPcs, ConvergePcs,
     CancelJob
<1>6. LifeStep
  BY StutterMoves DEF CancelJob
<1>7. ClaimMoves
  BY ThreadsAssumption DEF ClaimMoves, ThreadType, CancelJob
<1>8. MarkMoves /\ EffectsGrow /\ CompletionMoves /\ CreateMoves
  BY ThreadsAssumption DEF MarkMoves, ThreadType, EffectsGrow, CompletionMoves,
     CancelJob, CreateMoves
<1> QED
  BY <1>1, <1>2, <1>3, <1>4, <1>5, <1>6, <1>7, <1>8
     DEF Preserves, ProgramType

\* cancel_job reads the status its guarded write will expect.
LEMMA CancelReadStep ==
    ASSUME IndInv, NEW c \in Clients, CancelRead(c)
    PROVE  Preserves
<1>0. job[c] \in Jobs
  BY ThreadsAssumption DEF HoldsJob, HomePcs, CancelRead, BootPcs, ConvergePcs
<1>1. TableType'
  BY <1>0 DEF TableType, CancelRead
<1>2. MemoryType'
  BY <1>0 DEF MemoryType, CancelRead
<1>3. ThreadType'
  BY <1>0, ThreadsAssumption DEF ThreadType, ClientPcs, ConvergePcs, CancelRead,
     TableType
<1>4. CounterType'
  BY <1>0 DEF CounterType, CancelRead
<1>5. HoldsJob'
  BY <1>0, ThreadsAssumption DEF HoldsJob, ThreadType, HomePcs, BootPcs, ConvergePcs,
     CancelRead
<1>6. LifeStep
  BY StutterMoves DEF CancelRead
<1>7. ClaimMoves
  BY <1>0, ThreadsAssumption DEF ClaimMoves, ThreadType, CancelRead
<1>8. MarkMoves /\ EffectsGrow /\ CompletionMoves /\ CreateMoves
  BY <1>0, ThreadsAssumption DEF MarkMoves, ThreadType, EffectsGrow, CompletionMoves,
     CancelRead, CreateMoves
<1> QED
  BY <1>1, <1>2, <1>3, <1>4, <1>5, <1>6, <1>7, <1>8
     DEF Preserves, ProgramType

\* The guarded write of cancel_job: hit, lost race or exception.
LEMMA CancelCasStep ==
    ASSUME IndInv, NEW c \in Clients, CancelCas(c)
    PROVE  Preserves
<1>0. job[c] \in Jobs
  BY ThreadsAssumption DEF HoldsJob, HomePcs, CancelCas, BootPcs, ConvergePcs
<1>1. TableType'
  BY <1>0 DEF TableType, RowStatuses, JOB_STATUSES, CancelCas, CancelTarget
<1>2. MemoryType'
  BY <1>0 DEF MemoryType, CancelCas, CancelTarget
<1>3. ThreadType'
  BY <1>0, ThreadsAssumption DEF ThreadType, ClientPcs, ConvergePcs, CancelCas,
     CancelTarget
<1>4. CounterType'
  BY <1>0 DEF CounterType, CancelCas, CancelTarget
<1>5. HoldsJob'
  BY <1>0, ThreadsAssumption DEF HoldsJob, ThreadType, HomePcs, BootPcs, ConvergePcs,
     CancelCas, CancelTarget
<1>6. LifeStep
  BY <1>0, AdmittedMoves, StutterMoves DEF JOB_STATUSES, INTERRUPTED_JOB_STATUSES,
     CancelCas, CancelTarget
<1>7. ClaimMoves
  BY <1>0, ThreadsAssumption DEF ClaimMoves, ThreadType, CancelCas, CancelTarget
<1>8. MarkMoves /\ EffectsGrow /\ CompletionMoves /\ CreateMoves
  BY <1>0, ThreadsAssumption DEF MarkMoves, ThreadType, EffectsGrow, CompletionMoves,
     CancelCas, CancelTarget, CreateMoves, TableType, Admits, JOB_STATUSES
<1> QED
  BY <1>1, <1>2, <1>3, <1>4, <1>5, <1>6, <1>7, <1>8
     DEF Preserves, ProgramType

\* The re-read after the write of cancel_job.
LEMMA CancelRereadStep ==
    ASSUME IndInv, NEW c \in Clients, CancelReread(c)
    PROVE  Preserves
<1>0. job[c] \in Jobs
  BY ThreadsAssumption DEF HoldsJob, HomePcs, CancelReread, BootPcs, ConvergePcs
<1>1. TableType'
  BY <1>0 DEF TableType, CancelReread
<1>2. MemoryType'
  BY <1>0 DEF MemoryType, CancelReread
<1>3. ThreadType'
  BY <1>0, ThreadsAssumption DEF ThreadType, ClientPcs, ConvergePcs, CancelReread,
     TableType
<1>4. CounterType'
  BY <1>0 DEF CounterType, CancelReread
<1>5. HoldsJob'
  BY <1>0, ThreadsAssumption DEF HoldsJob, ThreadType, HomePcs, BootPcs, ConvergePcs,
     CancelReread
<1>6. LifeStep
  BY StutterMoves DEF CancelReread
<1>7. ClaimMoves
  BY <1>0, ThreadsAssumption DEF ClaimMoves, ThreadType, CancelReread
<1>8. MarkMoves /\ EffectsGrow /\ CompletionMoves /\ CreateMoves
  BY <1>0, ThreadsAssumption DEF MarkMoves, ThreadType, EffectsGrow, CompletionMoves,
     CancelReread, CreateMoves
<1> QED
  BY <1>1, <1>2, <1>3, <1>4, <1>5, <1>6, <1>7, <1>8
     DEF Preserves, ProgramType

\* cancel_job signals the owner of the job and publishes.
LEMMA CancelSignalStep ==
    ASSUME IndInv, NEW c \in Clients, CancelSignal(c)
    PROVE  Preserves
<1>0. job[c] \in Jobs
  BY ThreadsAssumption DEF HoldsJob, HomePcs, CancelSignal, BootPcs, ConvergePcs
<1>1. TableType'
  BY <1>0 DEF TableType, CancelSignal
<1>2. MemoryType'
  BY <1>0 DEF MemoryType, CancelSignal
<1>3. ThreadType'
  BY <1>0, ThreadsAssumption DEF ThreadType, ClientPcs, ConvergePcs, CancelSignal
<1>4. CounterType'
  BY <1>0 DEF CounterType, CancelSignal
<1>5. HoldsJob'
  BY <1>0, ThreadsAssumption DEF HoldsJob, ThreadType, HomePcs, BootPcs, ConvergePcs,
     CancelSignal
<1>6. LifeStep
  BY StutterMoves DEF CancelSignal
<1>7. ClaimMoves
  BY <1>0, ThreadsAssumption DEF ClaimMoves, ThreadType, CancelSignal
<1>8. MarkMoves /\ EffectsGrow /\ CompletionMoves /\ CreateMoves
  BY <1>0, ThreadsAssumption DEF MarkMoves, ThreadType, EffectsGrow, CompletionMoves,
     CancelSignal, CreateMoves
<1> QED
  BY <1>1, <1>2, <1>3, <1>4, <1>5, <1>6, <1>7, <1>8
     DEF Preserves, ProgramType

\* A runner thread takes the head of its lane.
LEMMA DequeueStep ==
    ASSUME IndInv, NEW w \in Workers, Dequeue(w)
    PROVE  Preserves
<1>0. Head(queue[WorkerLane[w]]) \in Jobs
  BY LanesAssumption DEF MemoryType, Dequeue
<1>1. TableType'
  BY <1>0 DEF TableType, Dequeue
<1>2. MemoryType'
  BY <1>0, LanesAssumption, EnqueueType DEF MemoryType, Dequeue
<1>3. ThreadType'
  BY <1>0, ThreadsAssumption DEF ThreadType, WorkerPcs, OwnerPcs, PreClaimPcs,
     ConvergePcs, Dequeue
<1>4. CounterType'
  BY <1>0 DEF CounterType, Dequeue
<1>5. HoldsJob'
  BY <1>0, ThreadsAssumption DEF HoldsJob, ThreadType, HomePcs, BootPcs, ConvergePcs,
     Dequeue
<1>6. LifeStep
  BY StutterMoves DEF Dequeue
<1>7. ClaimMoves
  BY <1>0, ThreadsAssumption DEF ClaimMoves, ThreadType, ClaimedPcs, OwnerPcs,
     ConvergePcs, Dequeue
<1>8. MarkMoves /\ EffectsGrow /\ CompletionMoves /\ CreateMoves
  BY <1>0, ThreadsAssumption DEF MarkMoves, ThreadType, EffectsGrow, CompletionMoves,
     Dequeue, CreateMoves
<1> QED
  BY <1>1, <1>2, <1>3, <1>4, <1>5, <1>6, <1>7, <1>8
     DEF Preserves, ProgramType

\* process_job reads the job it was handed.
LEMMA ReadQueuedStep ==
    ASSUME IndInv, NEW w \in Workers, ReadQueued(w)
    PROVE  Preserves
<1>0. job[w] \in Jobs
  BY ThreadsAssumption DEF HoldsJob, HomePcs, ReadQueued, BootPcs, ConvergePcs
<1>1. TableType'
  BY <1>0 DEF TableType, ReadQueued, Requeue
<1>2. MemoryType'
  BY <1>0, LanesAssumption, EnqueueType DEF MemoryType, ReadQueued, Requeue
<1>3. ThreadType'
  BY <1>0, ThreadsAssumption DEF ThreadType, WorkerPcs, OwnerPcs, PreClaimPcs,
     ConvergePcs, ReadQueued, Requeue
<1>4. CounterType'
  BY <1>0 DEF CounterType, ReadQueued, Requeue
<1>5. HoldsJob'
  BY <1>0, ThreadsAssumption DEF HoldsJob, ThreadType, HomePcs, BootPcs, ConvergePcs,
     ReadQueued, Requeue
<1>6. LifeStep
  BY StutterMoves DEF ReadQueued, Requeue
<1>7. ClaimMoves
  BY <1>0, ThreadsAssumption DEF ClaimMoves, ThreadType, ClaimedPcs, OwnerPcs,
     ConvergePcs, ReadQueued, Requeue
<1>8. MarkMoves /\ EffectsGrow /\ CompletionMoves /\ CreateMoves
  BY <1>0, ThreadsAssumption DEF MarkMoves, ThreadType, EffectsGrow, CompletionMoves,
     ReadQueued, Requeue, CreateMoves
<1> QED
  BY <1>1, <1>2, <1>3, <1>4, <1>5, <1>6, <1>7, <1>8
     DEF Preserves, ProgramType

\* _claim_job: the one step by which a thread becomes the owner of a job.
LEMMA ClaimJobStep ==
    ASSUME IndInv, NEW w \in Workers, ClaimJob(w)
    PROVE  Preserves
<1>0. job[w] \in Jobs
  BY ThreadsAssumption DEF HoldsJob, HomePcs, ClaimJob, BootPcs, ConvergePcs
<1>1. TableType'
  BY <1>0 DEF TableType, RowStatuses, JOB_STATUSES, ClaimJob, Requeue
<1>2. MemoryType'
  BY <1>0, LanesAssumption, EnqueueType DEF MemoryType, ClaimJob, Requeue
<1>3. ThreadType'
  BY <1>0, ThreadsAssumption DEF ThreadType, WorkerPcs, OwnerPcs, PreClaimPcs,
     ConvergePcs, ClaimJob, Requeue
<1>4. CounterType'
  BY <1>0 DEF CounterType, ClaimJob, Requeue
<1>5. HoldsJob'
  BY <1>0, ThreadsAssumption DEF HoldsJob, ThreadType, HomePcs, BootPcs, ConvergePcs,
     ClaimJob, Requeue
<1>6. LifeStep
  BY <1>0, AdmittedMoves, StutterMoves DEF JOB_STATUSES, INTERRUPTED_JOB_STATUSES,
     ClaimJob, Requeue
<1>7. ClaimMoves
  BY <1>0, ThreadsAssumption DEF ClaimMoves, ThreadType, ClaimedPcs, OwnerPcs,
     ConvergePcs, ClaimJob, Requeue, Admits, TableType
<1>8. MarkMoves /\ EffectsGrow /\ CompletionMoves /\ CreateMoves
  BY <1>0, ThreadsAssumption DEF MarkMoves, ThreadType, EffectsGrow, CompletionMoves,
     ClaimJob, Requeue, CreateMoves, TableType, Admits, JOB_STATUSES
<1> QED
  BY <1>1, <1>2, <1>3, <1>4, <1>5, <1>6, <1>7, <1>8
     DEF Preserves, ProgramType

\* _quarantine_poison_job fails a queued or garbled row.
LEMMA QuarantinePoisonStep ==
    ASSUME IndInv, NEW w \in Workers, QuarantinePoison(w)
    PROVE  Preserves
<1>0. job[w] \in Jobs
  BY ThreadsAssumption DEF HoldsJob, HomePcs, QuarantinePoison, BootPcs, ConvergePcs
<1>1. TableType'
  BY <1>0 DEF TableType, RowStatuses, JOB_STATUSES, QuarantinePoison, Requeue
<1>2. MemoryType'
  BY <1>0, LanesAssumption, EnqueueType DEF MemoryType, QuarantinePoison, Requeue
<1>3. ThreadType'
  BY <1>0, ThreadsAssumption DEF ThreadType, WorkerPcs, OwnerPcs, PreClaimPcs,
     ConvergePcs, QuarantinePoison, Requeue
<1>4. CounterType'
  BY <1>0 DEF CounterType, QuarantinePoison, Requeue
<1>5. HoldsJob'
  BY <1>0, ThreadsAssumption DEF HoldsJob, ThreadType, HomePcs, BootPcs, ConvergePcs,
     QuarantinePoison, Requeue
<1>6. LifeStep
  BY <1>0, QuarantineMoves, StutterMoves DEF QuarantinedStatus,
     INTERRUPTED_JOB_STATUSES, QuarantinePoison, Requeue
<1>7. ClaimMoves
  BY <1>0, ThreadsAssumption DEF ClaimMoves, ThreadType, ClaimedPcs, OwnerPcs,
     ConvergePcs, QuarantinePoison, Requeue
<1>8. MarkMoves /\ EffectsGrow /\ CompletionMoves /\ CreateMoves
  BY <1>0, ThreadsAssumption DEF MarkMoves, ThreadType, EffectsGrow, CompletionMoves,
     QuarantinePoison, Requeue, CreateMoves, TableType, Admits, JOB_STATUSES
<1> QED
  BY <1>1, <1>2, <1>3, <1>4, <1>5, <1>6, <1>7, <1>8
     DEF Preserves, ProgramType

\* The claimed row is re-read and its cancellation event registered.
LEMMA BeginClaimedStep ==
    ASSUME IndInv, NEW w \in Workers, BeginClaimed(w)
    PROVE  Preserves
<1>0. job[w] \in Jobs
  BY ThreadsAssumption DEF HoldsJob, HomePcs, BeginClaimed, BootPcs, ConvergePcs
<1>1. TableType'
  BY <1>0 DEF TableType, BeginClaimed
<1>2. MemoryType'
  BY <1>0 DEF MemoryType, BeginClaimed
<1>3. ThreadType'
  BY <1>0, ThreadsAssumption DEF ThreadType, WorkerPcs, OwnerPcs, PreClaimPcs,
     ConvergePcs, BeginClaimed
<1>4. CounterType'
  BY <1>0 DEF CounterType, BeginClaimed
<1>5. HoldsJob'
  BY <1>0, ThreadsAssumption DEF HoldsJob, ThreadType, HomePcs, BootPcs, ConvergePcs,
     BeginClaimed
<1>6. LifeStep
  BY StutterMoves DEF BeginClaimed
<1>7. ClaimMoves
  BY <1>0, ThreadsAssumption DEF ClaimMoves, ThreadType, ClaimedPcs, OwnerPcs,
     ConvergePcs, BeginClaimed
<1>8. MarkMoves /\ EffectsGrow /\ CompletionMoves /\ CreateMoves
  BY <1>0, ThreadsAssumption DEF MarkMoves, ThreadType, EffectsGrow, CompletionMoves,
     BeginClaimed, CreateMoves
<1> QED
  BY <1>1, <1>2, <1>3, <1>4, <1>5, <1>6, <1>7, <1>8
     DEF Preserves, ProgramType

\* The _is_cancelled reads of process_job.
LEMMA CheckCancelledStep ==
    ASSUME IndInv, NEW w \in Workers, CheckCancelled(w)
    PROVE  Preserves
<1>0. job[w] \in Jobs
  BY ThreadsAssumption DEF HoldsJob, HomePcs, CheckCancelled, BootPcs, ConvergePcs
<1>1. TableType'
  BY <1>0 DEF TableType, CheckCancelled
<1>2. MemoryType'
  BY <1>0 DEF MemoryType, CheckCancelled
<1>3. ThreadType'
  BY <1>0, ThreadsAssumption DEF ThreadType, WorkerPcs, OwnerPcs, PreClaimPcs,
     ConvergePcs, CheckCancelled
<1>4. CounterType'
  BY <1>0 DEF CounterType, CheckCancelled
<1>5. HoldsJob'
  BY <1>0, ThreadsAssumption DEF HoldsJob, ThreadType, HomePcs, BootPcs, ConvergePcs,
     CheckCancelled
<1>6. LifeStep
  BY StutterMoves DEF CheckCancelled
<1>7. ClaimMoves
  BY <1>0, ThreadsAssumption DEF ClaimMoves, ThreadType, ClaimedPcs, OwnerPcs,
     ConvergePcs, CheckCancelled
<1>8. MarkMoves /\ EffectsGrow /\ CompletionMoves /\ CreateMoves
  BY <1>0, ThreadsAssumption DEF MarkMoves, ThreadType, EffectsGrow, CompletionMoves,
     CheckCancelled, CreateMoves
<1> QED
  BY <1>1, <1>2, <1>3, <1>4, <1>5, <1>6, <1>7, <1>8
     DEF Preserves, ProgramType

\* The row becomes running and the generator is started.
LEMMA StartGeneratorStep ==
    ASSUME IndInv, NEW w \in Workers, StartGenerator(w)
    PROVE  Preserves
<1>0. job[w] \in Jobs
  BY ThreadsAssumption DEF HoldsJob, HomePcs, StartGenerator, BootPcs, ConvergePcs
<1>1. TableType'
  BY <1>0 DEF TableType, RowStatuses, JOB_STATUSES, StartGenerator, UpdateIfStatus
<1>2. MemoryType'
  BY <1>0 DEF MemoryType, StartGenerator, UpdateIfStatus
<1>3. ThreadType'
  BY <1>0, ThreadsAssumption DEF ThreadType, WorkerPcs, OwnerPcs, PreClaimPcs,
     ConvergePcs, StartGenerator, UpdateIfStatus
<1>4. CounterType'
  BY <1>0 DEF CounterType, StartGenerator, UpdateIfStatus
<1>5. HoldsJob'
  BY <1>0, ThreadsAssumption DEF HoldsJob, ThreadType, HomePcs, BootPcs, ConvergePcs,
     StartGenerator, UpdateIfStatus
<1>6. LifeStep
  <2>1. CASE UNCHANGED runs
    <3>1. CASE UNCHANGED row
      BY <2>1, <3>1, StutterMoves DEF StartGenerator
    <3>2. CASE UpdateIfStatus(w, {"preparing"}, "running", "running", "finalize", "genfail")
      BY <1>0, <2>1, <3>2, UpdateMoves DEF StartGenerator, IndInv, TypeOK, JOB_STATUSES
    <3> QED BY <3>1, <3>2 DEF StartGenerator
  <2>2. CASE ~UNCHANGED runs
    <3>1. /\ row[job[w]] = "preparing"
          /\ row' = [row EXCEPT ![job[w]] = "running"]
          /\ runs' = [runs EXCEPT ![job[w]] = @ + 1]
      BY <2>2, ThreadsAssumption DEF StartGenerator, UpdateIfStatus, Admits, IndInv,
         TypeOK, ThreadType, Threads
    <3>2. runs[job[w]] = 0
      BY <1>0, <3>1 DEF IndInv, StartedIsPastPreparing
    <3>3. runs' = [runs EXCEPT ![job[w]] = 1]
      BY <1>0, <3>1, <3>2 DEF IndInv, TypeOK, CounterType
    <3>4. Lifecycle!Move(job[w], "running")
      BY <3>1, <3>2, <3>3 DEF StartGenerator, Lifecycle!Move,
         Lifecycle!ALLOWED_TRANSITIONS
    <3> QED BY <1>0, <3>4 DEF LifeStep, Lifecycle!Next, Lifecycle!JOB_STATUSES
  <2> QED BY <2>1, <2>2
<1>7. ClaimMoves
  BY <1>0, ThreadsAssumption DEF ClaimMoves, ThreadType, ClaimedPcs, OwnerPcs,
     ConvergePcs, StartGenerator, UpdateIfStatus
<1>8. MarkMoves /\ EffectsGrow /\ CompletionMoves /\ CreateMoves
  BY <1>0, ThreadsAssumption DEF MarkMoves, ThreadType, EffectsGrow, CompletionMoves,
     StartGenerator, UpdateIfStatus, CreateMoves, TableType, Admits, JOB_STATUSES
<1> QED
  BY <1>1, <1>2, <1>3, <1>4, <1>5, <1>6, <1>7, <1>8
     DEF Preserves, ProgramType

\* The generator returns, raises or observes the cancellation.
LEMMA GenerateStep ==
    ASSUME IndInv, NEW w \in Workers, Generate(w)
    PROVE  Preserves
<1>0. job[w] \in Jobs
  BY ThreadsAssumption DEF HoldsJob, HomePcs, Generate, BootPcs, ConvergePcs
<1>1. TableType'
  BY <1>0 DEF TableType, Generate
<1>2. MemoryType'
  BY <1>0 DEF MemoryType, Generate
<1>3. ThreadType'
  BY <1>0, ThreadsAssumption DEF ThreadType, WorkerPcs, OwnerPcs, PreClaimPcs,
     ConvergePcs, Generate
<1>4. CounterType'
  BY <1>0 DEF CounterType, Generate
<1>5. HoldsJob'
  BY <1>0, ThreadsAssumption DEF HoldsJob, ThreadType, HomePcs, BootPcs, ConvergePcs,
     Generate
<1>6. LifeStep
  BY StutterMoves DEF Generate
<1>7. ClaimMoves
  BY <1>0, ThreadsAssumption DEF ClaimMoves, ThreadType, ClaimedPcs, OwnerPcs,
     ConvergePcs, Generate
<1>8. MarkMoves /\ EffectsGrow /\ CompletionMoves /\ CreateMoves
  BY <1>0, ThreadsAssumption DEF MarkMoves, ThreadType, EffectsGrow, CompletionMoves,
     Generate, CreateMoves
<1> QED
  BY <1>1, <1>2, <1>3, <1>4, <1>5, <1>6, <1>7, <1>8
     DEF Preserves, ProgramType

\* The row becomes postprocessing.
LEMMA MoveToPostprocessingStep ==
    ASSUME IndInv, NEW w \in Workers, MoveToPostprocessing(w)
    PROVE  Preserves
<1>0. job[w] \in Jobs
  BY ThreadsAssumption DEF HoldsJob, HomePcs, MoveToPostprocessing, BootPcs, ConvergePcs
<1>1. TableType'
  BY <1>0 DEF TableType, RowStatuses, JOB_STATUSES, MoveToPostprocessing, UpdateIfStatus
<1>2. MemoryType'
  BY <1>0 DEF MemoryType, MoveToPostprocessing, UpdateIfStatus
<1>3. ThreadType'
  BY <1>0, ThreadsAssumption DEF ThreadType, WorkerPcs, OwnerPcs, PreClaimPcs,
     ConvergePcs, MoveToPostprocessing, UpdateIfStatus
<1>4. CounterType'
  BY <1>0 DEF CounterType, MoveToPostprocessing, UpdateIfStatus
<1>5. HoldsJob'
  BY <1>0, ThreadsAssumption DEF HoldsJob, ThreadType, HomePcs, BootPcs, ConvergePcs,
     MoveToPostprocessing, UpdateIfStatus
<1>6. LifeStep
  BY <1>0, UpdateMoves DEF MoveToPostprocessing, JOB_STATUSES, Lifecycle!JOB_STATUSES
<1>7. ClaimMoves
  BY <1>0, ThreadsAssumption DEF ClaimMoves, ThreadType, ClaimedPcs, OwnerPcs,
     ConvergePcs, MoveToPostprocessing, UpdateIfStatus
<1>8. MarkMoves /\ EffectsGrow /\ CompletionMoves /\ CreateMoves
  BY <1>0, ThreadsAssumption DEF MarkMoves, ThreadType, EffectsGrow, CompletionMoves,
     MoveToPostprocessing, UpdateIfStatus, CreateMoves, TableType, Admits, JOB_STATUSES
<1> QED
  BY <1>1, <1>2, <1>3, <1>4, <1>5, <1>6, <1>7, <1>8
     DEF Preserves, ProgramType

\* mark_succeeded commits, or loses to a cancellation.
LEMMA MarkSucceededStep ==
    ASSUME IndInv, NEW w \in Workers, MarkSucceeded(w)
    PROVE  Preserves
<1>0. job[w] \in Jobs
  BY ThreadsAssumption DEF HoldsJob, HomePcs, MarkSucceeded, BootPcs, ConvergePcs
<1>1. TableType'
  BY <1>0 DEF TableType, RowStatuses, JOB_STATUSES, MarkSucceeded, UpdateIfStatus,
     OrRaise
<1>2. MemoryType'
  BY <1>0 DEF MemoryType, MarkSucceeded, UpdateIfStatus, OrRaise
<1>3. ThreadType'
  BY <1>0, ThreadsAssumption DEF ThreadType, WorkerPcs, OwnerPcs, PreClaimPcs,
     ConvergePcs, MarkSucceeded, UpdateIfStatus, OrRaise
<1>4. CounterType'
  BY <1>0 DEF CounterType, MarkSucceeded, UpdateIfStatus, OrRaise
<1>5. HoldsJob'
  BY <1>0, ThreadsAssumption DEF HoldsJob, ThreadType, HomePcs, BootPcs, ConvergePcs,
     MarkSucceeded, UpdateIfStatus, OrRaise
<1>6. LifeStep
  BY <1>0, UpdateMoves DEF MarkSucceeded, JOB_STATUSES, Lifecycle!JOB_STATUSES
<1>7. ClaimMoves
  BY <1>0, ThreadsAssumption DEF ClaimMoves, ThreadType, ClaimedPcs, OwnerPcs,
     ConvergePcs, MarkSucceeded, UpdateIfStatus, OrRaise
<1>8. MarkMoves /\ EffectsGrow /\ CompletionMoves /\ CreateMoves
  BY <1>0, ThreadsAssumption DEF MarkMoves, ThreadType, EffectsGrow, CompletionMoves,
     MarkSucceeded, UpdateIfStatus, OrRaise, CreateMoves, TableType, Admits, JOB_STATUSES
<1> QED
  BY <1>1, <1>2, <1>3, <1>4, <1>5, <1>6, <1>7, <1>8
     DEF Preserves, ProgramType

\* The assets of a succeeded job are recorded.
LEMMA SyncAssetsStep ==
    ASSUME IndInv, NEW w \in Workers, SyncAssets(w)
    PROVE  Preserves
<1>0. job[w] \in Jobs
  BY ThreadsAssumption DEF HoldsJob, HomePcs, SyncAssets, BootPcs, ConvergePcs
<1>1. TableType'
  BY <1>0 DEF TableType, SyncAssets
<1>2. MemoryType'
  BY <1>0 DEF MemoryType, SyncAssets
<1>3. ThreadType'
  BY <1>0, ThreadsAssumption DEF ThreadType, WorkerPcs, OwnerPcs, PreClaimPcs,
     ConvergePcs, SyncAssets
<1>4. CounterType'
  BY <1>0 DEF CounterType, SyncAssets
<1>5. HoldsJob'
  BY <1>0, ThreadsAssumption DEF HoldsJob, ThreadType, HomePcs, BootPcs, ConvergePcs,
     SyncAssets
<1>6. LifeStep
  BY StutterMoves DEF SyncAssets
<1>7. ClaimMoves
  BY <1>0, ThreadsAssumption DEF ClaimMoves, ThreadType, ClaimedPcs, OwnerPcs,
     ConvergePcs, SyncAssets
<1>8. MarkMoves /\ EffectsGrow /\ CompletionMoves /\ CreateMoves
  BY <1>0, ThreadsAssumption DEF MarkMoves, ThreadType, EffectsGrow, CompletionMoves,
     SyncAssets, CreateMoves
<1> QED
  BY <1>1, <1>2, <1>3, <1>4, <1>5, <1>6, <1>7, <1>8
     DEF Preserves, ProgramType

\* mark_failed after the generator raised.
LEMMA MarkFailedStep ==
    ASSUME IndInv, NEW w \in Workers, MarkFailed(w)
    PROVE  Preserves
<1>0. job[w] \in Jobs
  BY ThreadsAssumption DEF HoldsJob, HomePcs, MarkFailed, BootPcs, ConvergePcs
<1>1. TableType'
  BY <1>0 DEF TableType, RowStatuses, JOB_STATUSES, MarkFailed, UpdateIfStatus, OrRaise
<1>2. MemoryType'
  BY <1>0 DEF MemoryType, MarkFailed, UpdateIfStatus, OrRaise
<1>3. ThreadType'
  BY <1>0, ThreadsAssumption DEF ThreadType, WorkerPcs, OwnerPcs, PreClaimPcs,
     ConvergePcs, MarkFailed, UpdateIfStatus, OrRaise
<1>4. CounterType'
  BY <1>0 DEF CounterType, MarkFailed, UpdateIfStatus, OrRaise
<1>5. HoldsJob'
  BY <1>0, ThreadsAssumption DEF HoldsJob, ThreadType, HomePcs, BootPcs, ConvergePcs,
     MarkFailed, UpdateIfStatus, OrRaise
<1>6. LifeStep
  BY <1>0, UpdateMoves DEF MarkFailed, JOB_STATUSES, Lifecycle!JOB_STATUSES
<1>7. ClaimMoves
  BY <1>0, ThreadsAssumption DEF ClaimMoves, ThreadType, ClaimedPcs, OwnerPcs,
     ConvergePcs, MarkFailed, UpdateIfStatus, OrRaise
<1>8. MarkMoves /\ EffectsGrow /\ CompletionMoves /\ CreateMoves
  BY <1>0, ThreadsAssumption DEF MarkMoves, ThreadType, EffectsGrow, CompletionMoves,
     MarkFailed, UpdateIfStatus, OrRaise, CreateMoves, TableType, Admits, JOB_STATUSES
<1> QED
  BY <1>1, <1>2, <1>3, <1>4, <1>5, <1>6, <1>7, <1>8
     DEF Preserves, ProgramType

\* finalize_cancellation by the owner of the job.
LEMMA FinalizeCancellationStep ==
    ASSUME IndInv, NEW w \in Workers, FinalizeCancellation(w)
    PROVE  Preserves
<1>0. job[w] \in Jobs
  BY ThreadsAssumption DEF HoldsJob, HomePcs, FinalizeCancellation, BootPcs, ConvergePcs
<1>1. TableType'
  BY <1>0 DEF TableType, RowStatuses, JOB_STATUSES, FinalizeCancellation,
     UpdateIfStatus, OrRaise
<1>2. MemoryType'
  BY <1>0 DEF MemoryType, FinalizeCancellation, UpdateIfStatus, OrRaise
<1>3. ThreadType'
  BY <1>0, ThreadsAssumption DEF ThreadType, WorkerPcs, OwnerPcs, PreClaimPcs,
     ConvergePcs, FinalizeCancellation, UpdateIfStatus, OrRaise
<1>4. CounterType'
  BY <1>0 DEF CounterType, FinalizeCancellation, UpdateIfStatus, OrRaise
<1>5. HoldsJob'
  BY <1>0, ThreadsAssumption DEF HoldsJob, ThreadType, HomePcs, BootPcs, ConvergePcs,
     FinalizeCancellation, UpdateIfStatus, OrRaise
<1>6. LifeStep
  BY <1>0, UpdateMoves DEF FinalizeCancellation, JOB_STATUSES, Lifecycle!JOB_STATUSES
<1>7. ClaimMoves
  BY <1>0, ThreadsAssumption DEF ClaimMoves, ThreadType, ClaimedPcs, OwnerPcs,
     ConvergePcs, FinalizeCancellation, UpdateIfStatus, OrRaise
<1>8. MarkMoves /\ EffectsGrow /\ CompletionMoves /\ CreateMoves
  BY <1>0, ThreadsAssumption DEF MarkMoves, ThreadType, EffectsGrow, CompletionMoves,
     FinalizeCancellation, UpdateIfStatus, OrRaise, CreateMoves, TableType, Admits,
     JOB_STATUSES
<1> QED
  BY <1>1, <1>2, <1>3, <1>4, <1>5, <1>6, <1>7, <1>8
     DEF Preserves, ProgramType

\* _resolve_claim_failure tries the cancellation first.
LEMMA ResolveClaimFailureStep ==
    ASSUME IndInv, NEW w \in Workers, ResolveClaimFailure(w)
    PROVE  Preserves
<1>0. job[w] \in Jobs
  BY ThreadsAssumption DEF HoldsJob, HomePcs, ResolveClaimFailure, BootPcs, ConvergePcs
<1>1. TableType'
  BY <1>0 DEF TableType, RowStatuses, JOB_STATUSES, ResolveClaimFailure, UpdateIfStatus
<1>2. MemoryType'
  BY <1>0 DEF MemoryType, ResolveClaimFailure, UpdateIfStatus
<1>3. ThreadType'
  BY <1>0, ThreadsAssumption DEF ThreadType, WorkerPcs, OwnerPcs, PreClaimPcs,
     ConvergePcs, ResolveClaimFailure, UpdateIfStatus
<1>4. CounterType'
  BY <1>0 DEF CounterType, ResolveClaimFailure, UpdateIfStatus
<1>5. HoldsJob'
  BY <1>0, ThreadsAssumption DEF HoldsJob, ThreadType, HomePcs, BootPcs, ConvergePcs,
     ResolveClaimFailure, UpdateIfStatus
<1>6. LifeStep
  BY <1>0, UpdateMoves DEF ResolveClaimFailure, JOB_STATUSES, Lifecycle!JOB_STATUSES
<1>7. ClaimMoves
  BY <1>0, ThreadsAssumption DEF ClaimMoves, ThreadType, ClaimedPcs, OwnerPcs,
     ConvergePcs, ResolveClaimFailure, UpdateIfStatus
<1>8. MarkMoves /\ EffectsGrow /\ CompletionMoves /\ CreateMoves
  BY <1>0, ThreadsAssumption DEF MarkMoves, ThreadType, EffectsGrow, CompletionMoves,
     ResolveClaimFailure, UpdateIfStatus, CreateMoves, TableType, Admits, JOB_STATUSES
<1> QED
  BY <1>1, <1>2, <1>3, <1>4, <1>5, <1>6, <1>7, <1>8
     DEF Preserves, ProgramType

\* _resolve_claim_failure then tries the failure.
LEMMA ResolveMarkFailedStep ==
    ASSUME IndInv, NEW w \in Workers, ResolveMarkFailed(w)
    PROVE  Preserves
<1>0. job[w] \in Jobs
  BY ThreadsAssumption DEF HoldsJob, HomePcs, ResolveMarkFailed, BootPcs, ConvergePcs
<1>1. TableType'
  BY <1>0 DEF TableType, RowStatuses, JOB_STATUSES, ResolveMarkFailed, UpdateIfStatus
<1>2. MemoryType'
  BY <1>0 DEF MemoryType, ResolveMarkFailed, UpdateIfStatus
<1>3. ThreadType'
  BY <1>0, ThreadsAssumption DEF ThreadType, WorkerPcs, OwnerPcs, PreClaimPcs,
     ConvergePcs, ResolveMarkFailed, UpdateIfStatus
<1>4. CounterType'
  BY <1>0 DEF CounterType, ResolveMarkFailed, UpdateIfStatus
<1>5. HoldsJob'
  BY <1>0, ThreadsAssumption DEF HoldsJob, ThreadType, HomePcs, BootPcs, ConvergePcs,
     ResolveMarkFailed, UpdateIfStatus
<1>6. LifeStep
  BY <1>0, UpdateMoves DEF ResolveMarkFailed, JOB_STATUSES, Lifecycle!JOB_STATUSES
<1>7. ClaimMoves
  BY <1>0, ThreadsAssumption DEF ClaimMoves, ThreadType, ClaimedPcs, OwnerPcs,
     ConvergePcs, ResolveMarkFailed, UpdateIfStatus
<1>8. MarkMoves /\ EffectsGrow /\ CompletionMoves /\ CreateMoves
  BY <1>0, ThreadsAssumption DEF MarkMoves, ThreadType, EffectsGrow, CompletionMoves,
     ResolveMarkFailed, UpdateIfStatus, CreateMoves, TableType, Admits, JOB_STATUSES
<1> QED
  BY <1>1, <1>2, <1>3, <1>4, <1>5, <1>6, <1>7, <1>8
     DEF Preserves, ProgramType

\* The finally block of process_job.
LEMMA EndJobStep ==
    ASSUME IndInv, NEW w \in Workers, EndJob(w)
    PROVE  Preserves
<1>0. job[w] \in Jobs
  BY ThreadsAssumption DEF HoldsJob, HomePcs, EndJob, BootPcs, ConvergePcs
<1>1. TableType'
  BY <1>0 DEF TableType, EndJob
<1>2. MemoryType'
  BY <1>0 DEF MemoryType, EndJob
<1>3. ThreadType'
  BY <1>0, ThreadsAssumption DEF ThreadType, WorkerPcs, OwnerPcs, PreClaimPcs,
     ConvergePcs, EndJob
<1>4. CounterType'
  BY <1>0 DEF CounterType, EndJob
<1>5. HoldsJob'
  BY <1>0, ThreadsAssumption DEF HoldsJob, ThreadType, HomePcs, BootPcs, ConvergePcs,
     EndJob
<1>6. LifeStep
  BY StutterMoves DEF EndJob
<1>7. ClaimMoves
  BY <1>0, ThreadsAssumption DEF ClaimMoves, ThreadType, ClaimedPcs, OwnerPcs,
     ConvergePcs, EndJob
<1>8. MarkMoves /\ EffectsGrow /\ CompletionMoves /\ CreateMoves
  BY <1>0, ThreadsAssumption DEF MarkMoves, ThreadType, EffectsGrow, CompletionMoves,
     EndJob, CreateMoves
<1> QED
  BY <1>1, <1>2, <1>3, <1>4, <1>5, <1>6, <1>7, <1>8
     DEF Preserves, ProgramType

\* converge_job applies the side effects of a finished job.
LEMMA ConvergeEffectsStep ==
    ASSUME IndInv, NEW t \in Threads, ConvergeEffects(t)
    PROVE  Preserves
<1>0. job[t] \in Jobs
  BY ThreadsAssumption DEF HoldsJob, HomePcs, ConvergeEffects, BootPcs, ConvergePcs
<1>1. TableType'
  BY <1>0 DEF TableType, ConvergeEffects, AfterConverge
<1>2. MemoryType'
  BY <1>0 DEF MemoryType, ConvergeEffects, AfterConverge
<1>3. ThreadType'
  BY <1>0, ThreadsAssumption DEF ThreadType, WorkerPcs, ClientPcs, RetryPcs, BootPcs,
     OwnerPcs, ConvergePcs, ConvergeEffects, AfterConverge
<1>4. CounterType'
  BY <1>0 DEF CounterType, ConvergeEffects, AfterConverge
<1>5. HoldsJob'
  BY <1>0, ThreadsAssumption DEF HoldsJob, ThreadType, HomePcs, BootPcs, ConvergePcs,
     ConvergeEffects, AfterConverge
<1>6. LifeStep
  BY StutterMoves DEF ConvergeEffects, AfterConverge
<1>7. ClaimMoves
  BY <1>0, ThreadsAssumption DEF ClaimMoves, ThreadType, ClaimedPcs, OwnerPcs,
     ConvergePcs, ConvergeEffects, AfterConverge
<1>8. MarkMoves
  <2> SUFFICES ASSUME NEW u \in Threads, pc'[u] = "mark"
               PROVE  \/ pc[u] = "mark" /\ job'[u] = job[u]
                      \/ EffectsApplied(job[u])'
    BY DEF MarkMoves
  <2>1. CASE u # t
    BY <2>1 DEF ThreadType, ConvergeEffects, AfterConverge
  <2>2. CASE u = t
    <3>1. /\ job' = job /\ row' = row
          /\ Finished(job[t])
          /\ assets' = (IF row[job[t]] = "succeeded" THEN assets \cup {job[t]} ELSE assets)
          /\ settled' = settled \cup {job[t]}
      BY <2>2 DEF ThreadType, ConvergeEffects, AfterConverge
    <3> QED BY <1>0, <2>2, <3>1 DEF EffectsApplied, Finished
  <2> QED BY <2>1, <2>2
<1>9. EffectsGrow /\ CompletionMoves /\ CreateMoves
  BY <1>0 DEF EffectsGrow, CompletionMoves, ConvergeEffects, AfterConverge, CreateMoves
<1> QED
  BY <1>1, <1>2, <1>3, <1>4, <1>5, <1>6, <1>7, <1>8, <1>9
     DEF Preserves, ProgramType

\* mark_completion_done, the only step that records a completion.
LEMMA MarkCompletionDoneStep ==
    ASSUME IndInv, NEW t \in Threads, MarkCompletionDone(t)
    PROVE  Preserves
<1>0. job[t] \in Jobs
  BY ThreadsAssumption DEF HoldsJob, HomePcs, MarkCompletionDone, BootPcs, ConvergePcs
<1>1. TableType'
  BY <1>0 DEF TableType, MarkCompletionDone, AfterConverge
<1>2. MemoryType'
  BY <1>0 DEF MemoryType, MarkCompletionDone, AfterConverge
<1>3. ThreadType'
  BY <1>0, ThreadsAssumption DEF ThreadType, WorkerPcs, ClientPcs, RetryPcs, BootPcs,
     OwnerPcs, ConvergePcs, MarkCompletionDone, AfterConverge
<1>4. CounterType'
  BY <1>0 DEF CounterType, MarkCompletionDone, AfterConverge
<1>5. HoldsJob'
  <2>1. \/ \E p \in HomePcs : Park(t, p)
        \/ Goto(t, "end")
    BY DEF MarkCompletionDone, AfterConverge, HomePcs, BootPcs, ConvergePcs
  <2> QED BY <1>0, <2>1 DEF HoldsJob, ThreadType
<1>6. LifeStep
  <2>1. CASE UNCHANGED completion
    BY <2>1, StutterMoves DEF MarkCompletionDone
  <2>2. CASE Finished(job[t]) /\ completion' = [completion EXCEPT ![job[t]] = "done"]
    <3>1. Lifecycle!Complete(job[t])
      BY <2>2 DEF MarkCompletionDone, Lifecycle!Complete, Finished,
         TERMINAL_JOB_STATUSES, Lifecycle!TERMINAL_JOB_STATUSES
    <3> QED BY <1>0, <3>1 DEF LifeStep, Lifecycle!Next
  <2> QED BY <2>1, <2>2 DEF MarkCompletionDone
<1>7. ClaimMoves
  BY <1>0, ThreadsAssumption DEF ClaimMoves, ThreadType, ClaimedPcs, OwnerPcs,
     ConvergePcs, MarkCompletionDone, AfterConverge
<1>8. MarkMoves /\ EffectsGrow /\ CompletionMoves /\ CreateMoves
  BY <1>0, ThreadsAssumption DEF MarkMoves, ThreadType, EffectsGrow, CompletionMoves,
     TableType, MarkCompletionDone, AfterConverge, CreateMoves
<1> QED
  BY <1>1, <1>2, <1>3, <1>4, <1>5, <1>6, <1>7, <1>8
     DEF Preserves, ProgramType

\* The retry loop picks a finished job that is still pending.
LEMMA RetryPendingStep ==
    ASSUME IndInv, NEW j \in Jobs, RetryPending(j)
    PROVE  Preserves
<1>1. TableType'
  BY DEF TableType, RetryPending
<1>2. MemoryType'
  BY DEF MemoryType, RetryPending
<1>3. ThreadType'
  BY ThreadsAssumption DEF ThreadType, RetryPcs, ConvergePcs, RetryPending
<1>4. CounterType'
  BY DEF CounterType, RetryPending
<1>5. HoldsJob'
  BY ThreadsAssumption DEF HoldsJob, ThreadType, HomePcs, BootPcs, ConvergePcs,
     RetryPending
<1>6. LifeStep
  BY StutterMoves DEF RetryPending
<1>7. ClaimMoves
  BY ThreadsAssumption DEF ClaimMoves, ThreadType, RetryPending
<1>8. MarkMoves /\ EffectsGrow /\ CompletionMoves /\ CreateMoves
  BY ThreadsAssumption DEF MarkMoves, ThreadType, EffectsGrow, CompletionMoves,
     RetryPending, CreateMoves
<1> QED
  BY <1>1, <1>2, <1>3, <1>4, <1>5, <1>6, <1>7, <1>8
     DEF Preserves, ProgramType

\* The retry loop starts visiting the poison candidates.
LEMMA TickStartStep ==
    ASSUME IndInv, TickStart
    PROVE  Preserves
<1>1. TableType'
  BY DEF TableType, TickStart
<1>2. MemoryType'
  BY DEF MemoryType, TickStart
<1>3. ThreadType'
  BY ThreadsAssumption DEF ThreadType, RetryPcs, ConvergePcs, TickStart
<1>4. CounterType'
  BY DEF CounterType, TickStart
<1>5. HoldsJob'
  BY ThreadsAssumption DEF HoldsJob, ThreadType, HomePcs, BootPcs, ConvergePcs,
     TickStart
<1>6. LifeStep
  BY StutterMoves DEF TickStart
<1>7. ClaimMoves
  BY ThreadsAssumption DEF ClaimMoves, ThreadType, TickStart
<1>8. MarkMoves /\ EffectsGrow /\ CompletionMoves /\ CreateMoves
  BY ThreadsAssumption DEF MarkMoves, ThreadType, EffectsGrow, CompletionMoves,
     TickStart, CreateMoves
<1> QED
  BY <1>1, <1>2, <1>3, <1>4, <1>5, <1>6, <1>7, <1>8
     DEF Preserves, ProgramType

\* A candidate is read again.
LEMMA TickVisitStep ==
    ASSUME IndInv, NEW j \in Jobs, TickVisit(j)
    PROVE  Preserves
<1>1. TableType'
  BY DEF TableType, TickVisit
<1>2. MemoryType'
  BY DEF MemoryType, TickVisit
<1>3. ThreadType'
  BY ThreadsAssumption DEF ThreadType, RetryPcs, ConvergePcs, TickVisit, TableType
<1>4. CounterType'
  BY DEF CounterType, TickVisit
<1>5. HoldsJob'
  BY ThreadsAssumption DEF HoldsJob, ThreadType, HomePcs, BootPcs, ConvergePcs,
     TickVisit, MemoryType
<1>6. LifeStep
  BY StutterMoves DEF TickVisit
<1>7. ClaimMoves
  BY ThreadsAssumption DEF ClaimMoves, ThreadType, TickVisit
<1>8. MarkMoves /\ EffectsGrow /\ CompletionMoves /\ CreateMoves
  BY ThreadsAssumption DEF MarkMoves, ThreadType, EffectsGrow, CompletionMoves,
     TickVisit, CreateMoves
<1> QED
  BY <1>1, <1>2, <1>3, <1>4, <1>5, <1>6, <1>7, <1>8
     DEF Preserves, ProgramType

\* A candidate that still does not decode is quarantined.
LEMMA TickRequarantineStep ==
    ASSUME IndInv, TickRequarantine
    PROVE  Preserves
<1>0. job[Retry] \in Jobs
  BY ThreadsAssumption DEF HoldsJob, HomePcs, TickRequarantine, BootPcs, ConvergePcs
<1>1. TableType'
  BY <1>0 DEF TableType, RowStatuses, JOB_STATUSES, TickRequarantine, Dispose,
     QuarantinedStatus
<1>2. MemoryType'
  BY <1>0 DEF MemoryType, TickRequarantine, Dispose
<1>3. ThreadType'
  BY <1>0, ThreadsAssumption DEF ThreadType, RetryPcs, ConvergePcs, TickRequarantine,
     Dispose
<1>4. CounterType'
  BY <1>0 DEF CounterType, TickRequarantine, Dispose
<1>5. HoldsJob'
  BY <1>0, ThreadsAssumption DEF HoldsJob, ThreadType, HomePcs, BootPcs, ConvergePcs,
     TickRequarantine, Dispose
<1>6. LifeStep
  BY <1>0, QuarantineMoves, StutterMoves DEF TickRequarantine, Dispose
<1>7. ClaimMoves
  BY <1>0, ThreadsAssumption DEF ClaimMoves, ThreadType, TickRequarantine, Dispose
<1>8. MarkMoves /\ EffectsGrow /\ CompletionMoves /\ CreateMoves
  BY <1>0, ThreadsAssumption DEF MarkMoves, ThreadType, EffectsGrow, CompletionMoves,
     TickRequarantine, Dispose, CreateMoves, TableType, Admits, JOB_STATUSES,
     QuarantinedStatus, INTERRUPTED_JOB_STATUSES
<1> QED
  BY <1>1, <1>2, <1>3, <1>4, <1>5, <1>6, <1>7, <1>8
     DEF Preserves, ProgramType

\* A candidate that decodes again is queued, failed or cancelled.
LEMMA TickResolveRepairedStep ==
    ASSUME IndInv, TickResolveRepaired
    PROVE  Preserves
<1>0. job[Retry] \in Jobs
  BY ThreadsAssumption DEF HoldsJob, HomePcs, TickResolveRepaired, BootPcs, ConvergePcs
<1>1. TableType'
  BY <1>0 DEF TableType, RowStatuses, JOB_STATUSES, TickResolveRepaired, Dispose,
     AbandonTick, QuarantinedStatus
<1>2. MemoryType'
  BY <1>0, LanesAssumption, EnqueueType DEF MemoryType, TickResolveRepaired, Dispose,
     AbandonTick
<1>3. ThreadType'
  BY <1>0, ThreadsAssumption DEF ThreadType, RetryPcs, ConvergePcs, TickResolveRepaired,
     Dispose, AbandonTick
<1>4. CounterType'
  BY <1>0 DEF CounterType, TickResolveRepaired, Dispose, AbandonTick
<1>5. HoldsJob'
  BY <1>0, ThreadsAssumption DEF HoldsJob, ThreadType, HomePcs, BootPcs, ConvergePcs,
     TickResolveRepaired, Dispose, AbandonTick
<1>6. LifeStep
  BY <1>0, AdmittedMoves, StutterMoves DEF JOB_STATUSES, INTERRUPTED_JOB_STATUSES,
     TickResolveRepaired, Dispose, AbandonTick, QuarantinedStatus
<1>7. ClaimMoves
  BY <1>0, ThreadsAssumption DEF ClaimMoves, ThreadType, TickResolveRepaired, Dispose,
     AbandonTick
<1>8. MarkMoves /\ EffectsGrow /\ CompletionMoves /\ CreateMoves
  BY <1>0, ThreadsAssumption DEF MarkMoves, ThreadType, EffectsGrow, CompletionMoves,
     TickResolveRepaired, Dispose, AbandonTick, CreateMoves, TableType, Admits,
     JOB_STATUSES, QuarantinedStatus, INTERRUPTED_JOB_STATUSES
<1> QED
  BY <1>1, <1>2, <1>3, <1>4, <1>5, <1>6, <1>7, <1>8
     DEF Preserves, ProgramType

\* The candidates that were kept replace the old ones.
LEMMA TickEndStep ==
    ASSUME IndInv, TickEnd
    PROVE  Preserves
<1>1. TableType'
  BY DEF TableType, TickEnd
<1>2. MemoryType'
  BY DEF MemoryType, TickEnd
<1>3. ThreadType'
  BY ThreadsAssumption DEF ThreadType, RetryPcs, ConvergePcs, TickEnd
<1>4. CounterType'
  BY DEF CounterType, TickEnd
<1>5. HoldsJob'
  BY ThreadsAssumption DEF HoldsJob, ThreadType, HomePcs, BootPcs, ConvergePcs, TickEnd
<1>6. LifeStep
  BY StutterMoves DEF TickEnd
<1>7. ClaimMoves
  BY ThreadsAssumption DEF ClaimMoves, ThreadType, TickEnd
<1>8. MarkMoves /\ EffectsGrow /\ CompletionMoves /\ CreateMoves
  BY ThreadsAssumption DEF MarkMoves, ThreadType, EffectsGrow, CompletionMoves, TickEnd,
     CreateMoves
<1> QED
  BY <1>1, <1>2, <1>3, <1>4, <1>5, <1>6, <1>7, <1>8
     DEF Preserves, ProgramType

\* Startup recovery lists the rows that do not decode.
LEMMA BootScanStep ==
    ASSUME IndInv, BootScan
    PROVE  Preserves
<1>1. TableType'
  BY DEF TableType, BootScan, BootStep
<1>2. MemoryType'
  BY DEF MemoryType, BootScan, BootStep
<1>3. ThreadType'
  BY ThreadsAssumption DEF ThreadType, BootPcs, ConvergePcs, BootScan, BootStep
<1>4. CounterType'
  BY DEF CounterType, BootScan, BootStep
<1>5. HoldsJob'
  BY ThreadsAssumption DEF HoldsJob, ThreadType, HomePcs, BootPcs, ConvergePcs,
     BootScan, BootStep
<1>6. LifeStep
  BY StutterMoves DEF BootScan, BootStep
<1>7. ClaimMoves
  BY ThreadsAssumption DEF ClaimMoves, ThreadType, BootScan, BootStep
<1>8. MarkMoves /\ EffectsGrow /\ CompletionMoves /\ CreateMoves
  BY ThreadsAssumption DEF MarkMoves, ThreadType, EffectsGrow, CompletionMoves,
     BootScan, BootStep, CreateMoves
<1> QED
  BY <1>1, <1>2, <1>3, <1>4, <1>5, <1>6, <1>7, <1>8
     DEF Preserves, ProgramType

\* Startup recovery quarantines one of them, or registers a candidate.
LEMMA BootQuarantineStep ==
    ASSUME IndInv, NEW j \in Jobs, BootQuarantine(j)
    PROVE  Preserves
<1>1. TableType'
  BY DEF TableType, RowStatuses, JOB_STATUSES, BootQuarantine, BootVisit,
     QuarantinedStatus
<1>2. MemoryType'
  BY DEF MemoryType, BootQuarantine, BootVisit
<1>3. ThreadType'
  BY ThreadsAssumption DEF ThreadType, BootPcs, ConvergePcs, BootQuarantine, BootVisit
<1>4. CounterType'
  BY DEF CounterType, BootQuarantine, BootVisit
<1>5. HoldsJob'
  BY ThreadsAssumption DEF HoldsJob, ThreadType, HomePcs, BootPcs, ConvergePcs,
     BootQuarantine, BootVisit
<1>6. LifeStep
  BY QuarantineMoves, StutterMoves DEF BootQuarantine, BootVisit
<1>7. ClaimMoves
  BY ThreadsAssumption DEF ClaimMoves, ThreadType, BootQuarantine, BootVisit
<1>8. MarkMoves /\ EffectsGrow /\ CompletionMoves /\ CreateMoves
  BY ThreadsAssumption DEF MarkMoves, ThreadType, EffectsGrow, CompletionMoves,
     BootQuarantine, BootVisit, CreateMoves, TableType, Admits, JOB_STATUSES,
     QuarantinedStatus, INTERRUPTED_JOB_STATUSES
<1> QED
  BY <1>1, <1>2, <1>3, <1>4, <1>5, <1>6, <1>7, <1>8
     DEF Preserves, ProgramType

\* Startup recovery lists the interrupted jobs.
LEMMA BootListStep ==
    ASSUME IndInv, BootList
    PROVE  Preserves
<1>1. TableType'
  BY DEF TableType, BootList, BootStep
<1>2. MemoryType'
  BY DEF MemoryType, BootList, BootStep
<1>3. ThreadType'
  BY ThreadsAssumption DEF ThreadType, BootPcs, ConvergePcs, BootList, BootStep
<1>4. CounterType'
  BY DEF CounterType, BootList, BootStep
<1>5. HoldsJob'
  BY ThreadsAssumption DEF HoldsJob, ThreadType, HomePcs, BootPcs, ConvergePcs,
     BootList, BootStep
<1>6. LifeStep
  BY StutterMoves DEF BootList, BootStep
<1>7. ClaimMoves
  BY ThreadsAssumption DEF ClaimMoves, ThreadType, BootList, BootStep
<1>8. MarkMoves /\ EffectsGrow /\ CompletionMoves /\ CreateMoves
  BY ThreadsAssumption DEF MarkMoves, ThreadType, EffectsGrow, CompletionMoves,
     BootList, BootStep, CreateMoves
<1> QED
  BY <1>1, <1>2, <1>3, <1>4, <1>5, <1>6, <1>7, <1>8
     DEF Preserves, ProgramType

\* Startup recovery fails or cancels an interrupted job.
LEMMA BootFinalizeStep ==
    ASSUME IndInv, NEW j \in Jobs, BootFinalize(j)
    PROVE  Preserves
<1>1. TableType'
  BY DEF TableType, RowStatuses, JOB_STATUSES, BootFinalize, BootVisit,
     QuarantinedStatus
<1>2. MemoryType'
  BY DEF MemoryType, BootFinalize, BootVisit
<1>3. ThreadType'
  BY ThreadsAssumption DEF ThreadType, BootPcs, ConvergePcs, BootFinalize, BootVisit
<1>4. CounterType'
  BY DEF CounterType, BootFinalize, BootVisit
<1>5. HoldsJob'
  BY ThreadsAssumption DEF HoldsJob, ThreadType, HomePcs, BootPcs, ConvergePcs,
     BootFinalize, BootVisit
<1>6. LifeStep
  BY QuarantineMoves, StutterMoves DEF BootFinalize, BootVisit
<1>7. ClaimMoves
  BY ThreadsAssumption DEF ClaimMoves, ThreadType, BootFinalize, BootVisit
<1>8. MarkMoves /\ EffectsGrow /\ CompletionMoves /\ CreateMoves
  BY ThreadsAssumption DEF MarkMoves, ThreadType, EffectsGrow, CompletionMoves,
     BootFinalize, BootVisit, CreateMoves, TableType, Admits, JOB_STATUSES,
     QuarantinedStatus, INTERRUPTED_JOB_STATUSES
<1> QED
  BY <1>1, <1>2, <1>3, <1>4, <1>5, <1>6, <1>7, <1>8
     DEF Preserves, ProgramType

\* Startup recovery lists the finished jobs that are still pending.
LEMMA BootPendingStep ==
    ASSUME IndInv, BootPending
    PROVE  Preserves
<1>1. TableType'
  BY DEF TableType, BootPending, BootStep
<1>2. MemoryType'
  BY DEF MemoryType, BootPending, BootStep
<1>3. ThreadType'
  BY ThreadsAssumption DEF ThreadType, BootPcs, ConvergePcs, BootPending, BootStep
<1>4. CounterType'
  BY DEF CounterType, BootPending, BootStep
<1>5. HoldsJob'
  BY ThreadsAssumption DEF HoldsJob, ThreadType, HomePcs, BootPcs, ConvergePcs,
     BootPending, BootStep
<1>6. LifeStep
  BY StutterMoves DEF BootPending, BootStep
<1>7. ClaimMoves
  BY ThreadsAssumption DEF ClaimMoves, ThreadType, BootPending, BootStep
<1>8. MarkMoves /\ EffectsGrow /\ CompletionMoves /\ CreateMoves
  BY ThreadsAssumption DEF MarkMoves, ThreadType, EffectsGrow, CompletionMoves,
     BootPending, BootStep, CreateMoves
<1> QED
  BY <1>1, <1>2, <1>3, <1>4, <1>5, <1>6, <1>7, <1>8
     DEF Preserves, ProgramType

\* Startup recovery converges one of them.
LEMMA BootConvergeStep ==
    ASSUME IndInv, NEW j \in Jobs, BootConverge(j)
    PROVE  Preserves
<1>1. TableType'
  BY DEF TableType, BootConverge, BootVisit
<1>2. MemoryType'
  BY DEF MemoryType, BootConverge, BootVisit
<1>3. ThreadType'
  BY ThreadsAssumption DEF ThreadType, BootPcs, ConvergePcs, BootConverge, BootVisit
<1>4. CounterType'
  BY DEF CounterType, BootConverge, BootVisit
<1>5. HoldsJob'
  BY ThreadsAssumption DEF HoldsJob, ThreadType, HomePcs, BootPcs, ConvergePcs,
     BootConverge, BootVisit, MemoryType
<1>6. LifeStep
  BY StutterMoves DEF BootConverge, BootVisit
<1>7. ClaimMoves
  BY ThreadsAssumption DEF ClaimMoves, ThreadType, BootConverge, BootVisit
<1>8. MarkMoves /\ EffectsGrow /\ CompletionMoves /\ CreateMoves
  BY ThreadsAssumption DEF MarkMoves, ThreadType, EffectsGrow, CompletionMoves,
     BootConverge, BootVisit, CreateMoves
<1> QED
  BY <1>1, <1>2, <1>3, <1>4, <1>5, <1>6, <1>7, <1>8
     DEF Preserves, ProgramType

\* Startup recovery repairs assets and lists the queued jobs.
LEMMA BootAssetsStep ==
    ASSUME IndInv, BootAssets
    PROVE  Preserves
<1>1. TableType'
  BY DEF TableType, BootAssets, BootStep
<1>2. MemoryType'
  BY DEF MemoryType, BootAssets, BootStep
<1>3. ThreadType'
  BY ThreadsAssumption DEF ThreadType, BootPcs, ConvergePcs, BootAssets, BootStep
<1>4. CounterType'
  BY DEF CounterType, BootAssets, BootStep
<1>5. HoldsJob'
  BY ThreadsAssumption DEF HoldsJob, ThreadType, HomePcs, BootPcs, ConvergePcs,
     BootAssets, BootStep
<1>6. LifeStep
  BY StutterMoves DEF BootAssets, BootStep
<1>7. ClaimMoves
  BY ThreadsAssumption DEF ClaimMoves, ThreadType, BootAssets, BootStep
<1>8. MarkMoves /\ EffectsGrow /\ CompletionMoves /\ CreateMoves
  BY ThreadsAssumption DEF MarkMoves, ThreadType, EffectsGrow, CompletionMoves,
     BootAssets, BootStep, CreateMoves
<1> QED
  BY <1>1, <1>2, <1>3, <1>4, <1>5, <1>6, <1>7, <1>8
     DEF Preserves, ProgramType

\* Startup recovery queues one of them again.
LEMMA BootEnqueueStep ==
    ASSUME IndInv, NEW j \in Jobs, BootEnqueue(j)
    PROVE  Preserves
<1>1. TableType'
  BY DEF TableType, BootEnqueue, BootVisit
<1>2. MemoryType'
  BY LanesAssumption, EnqueueType DEF MemoryType, BootEnqueue, BootVisit
<1>3. ThreadType'
  BY ThreadsAssumption DEF ThreadType, BootPcs, ConvergePcs, BootEnqueue, BootVisit
<1>4. CounterType'
  BY DEF CounterType, BootEnqueue, BootVisit
<1>5. HoldsJob'
  BY ThreadsAssumption DEF HoldsJob, ThreadType, HomePcs, BootPcs, ConvergePcs,
     BootEnqueue, BootVisit
<1>6. LifeStep
  BY StutterMoves DEF BootEnqueue, BootVisit
<1>7. ClaimMoves
  BY ThreadsAssumption DEF ClaimMoves, ThreadType, BootEnqueue, BootVisit
<1>8. MarkMoves /\ EffectsGrow /\ CompletionMoves /\ CreateMoves
  BY ThreadsAssumption DEF MarkMoves, ThreadType, EffectsGrow, CompletionMoves,
     BootEnqueue, BootVisit, CreateMoves
<1> QED
  BY <1>1, <1>2, <1>3, <1>4, <1>5, <1>6, <1>7, <1>8
     DEF Preserves, ProgramType

\* Recovery is over, the process serves.
LEMMA BootUpStep ==
    ASSUME IndInv, BootUp
    PROVE  Preserves
<1>1. TableType'
  BY DEF TableType, BootUp, BootStep
<1>2. MemoryType'
  BY DEF MemoryType, BootUp, BootStep
<1>3. ThreadType'
  BY ThreadsAssumption DEF ThreadType, BootPcs, ConvergePcs, BootUp, BootStep
<1>4. CounterType'
  BY DEF CounterType, BootUp, BootStep
<1>5. HoldsJob'
  BY ThreadsAssumption DEF HoldsJob, ThreadType, HomePcs, BootPcs, ConvergePcs, BootUp,
     BootStep
<1>6. LifeStep
  BY StutterMoves DEF BootUp, BootStep
<1>7. ClaimMoves
  BY ThreadsAssumption DEF ClaimMoves, ThreadType, BootUp, BootStep
<1>8. MarkMoves /\ EffectsGrow /\ CompletionMoves /\ CreateMoves
  BY ThreadsAssumption DEF MarkMoves, ThreadType, EffectsGrow, CompletionMoves, BootUp,
     BootStep, CreateMoves
<1> QED
  BY <1>1, <1>2, <1>3, <1>4, <1>5, <1>6, <1>7, <1>8
     DEF Preserves, ProgramType

\* The process dies; the table stays.
LEMMA CrashStep ==
    ASSUME IndInv, Crash
    PROVE  Preserves
<1>1. TableType'
  BY DEF TableType, Crash
<1>2. MemoryType'
  BY DEF MemoryType, Crash
<1>3. ThreadType'
  <2>1. pc' \in [Threads -> WorkerPcs \cup ClientPcs \cup RetryPcs \cup BootPcs]
    BY DEF Crash, WorkerPcs, BootPcs
  <2>2. /\ \A u \in Workers : pc'[u] \in WorkerPcs
        /\ \A u \in Clients : pc'[u] \in ClientPcs
    BY ThreadsAssumption DEF Crash, Threads, WorkerPcs, ClientPcs
  <2>3. pc'[Retry] \in RetryPcs /\ pc'[Boot] \in BootPcs
    BY ThreadsAssumption DEF Crash, Threads, RetryPcs, BootPcs
  <2>4. job' \in [Threads -> Jobs \cup {NoJob}] /\ seen' \in [Threads -> RowStatuses]
    BY DEF Crash, RowStatuses
  <2> QED BY <2>1, <2>2, <2>3, <2>4 DEF ThreadType
<1>4. CounterType'
  BY DEF CounterType, Crash
<1>5. HoldsJob'
  BY ThreadsAssumption DEF HoldsJob, ThreadType, HomePcs, BootPcs, ConvergePcs, Crash
<1>6. LifeStep
  BY StutterMoves DEF Crash
<1>7. ClaimMoves
  BY ThreadsAssumption DEF ClaimMoves, ThreadType, ClaimedPcs, OwnerPcs, ConvergePcs,
     Crash
<1>8. MarkMoves /\ EffectsGrow /\ CompletionMoves /\ CreateMoves
  BY ThreadsAssumption DEF MarkMoves, ThreadType, EffectsGrow, CompletionMoves, Crash,
     CreateMoves, MemoryType
<1> QED
  BY <1>1, <1>2, <1>3, <1>4, <1>5, <1>6, <1>7, <1>8
     DEF Preserves, ProgramType

\* A row stops decoding.
LEMMA CorruptRowStep ==
    ASSUME IndInv, NEW j \in Jobs, CorruptRow(j)
    PROVE  Preserves
<1>1. TableType'
  BY DEF TableType, RowStatuses, JOB_STATUSES, CorruptRow
<1>2. MemoryType'
  BY DEF MemoryType, CorruptRow
<1>3. ThreadType'
  BY ThreadsAssumption DEF ThreadType, CorruptRow
<1>4. CounterType'
  BY DEF CounterType, CorruptRow
<1>5. HoldsJob'
  BY ThreadsAssumption DEF HoldsJob, ThreadType, CorruptRow
<1>6. LifeStep
  <2>1. CASE UNCHANGED row
    BY <2>1, StutterMoves DEF CorruptRow
  <2>2. CASE ~Finished(j) /\ Stored(j) /\ row[j] # "garbled" /\ Write(j, "garbled")
    <3>1. Lifecycle!Damage(j)
      BY <2>2 DEF CorruptRow, Lifecycle!Damage, IndInv, TypeOK, TableType, RowStatuses,
         Finished, Stored, TERMINAL_JOB_STATUSES, JOB_STATUSES,
         Lifecycle!ACTIVE_JOB_STATUSES, Lifecycle!JOB_STATUSES,
         Lifecycle!TERMINAL_JOB_STATUSES
    <3> QED BY <3>1 DEF LifeStep, Lifecycle!Next
  <2>3. CASE row[j] = "garbled" /\ Write(j, "garbled")
    BY <2>3, StutterMoves DEF CorruptRow, IndInv, TypeOK, TableType
  <2> QED BY <2>1, <2>2, <2>3 DEF CorruptRow
<1>7. ClaimMoves
  BY ThreadsAssumption DEF ClaimMoves, ThreadType, CorruptRow
<1>8. MarkMoves /\ EffectsGrow /\ CompletionMoves /\ CreateMoves
  BY ThreadsAssumption DEF MarkMoves, ThreadType, EffectsGrow, CompletionMoves,
     CorruptRow, CreateMoves, TableType, Admits, JOB_STATUSES, Stored
<1> QED
  BY <1>1, <1>2, <1>3, <1>4, <1>5, <1>6, <1>7, <1>8
     DEF Preserves, ProgramType

\* A row is repaired by hand.
LEMMA RepairRowStep ==
    ASSUME IndInv, NEW j \in Jobs, RepairRow(j)
    PROVE  Preserves
<1>1. TableType'
  BY DEF TableType, RepairRow
<1>2. MemoryType'
  BY DEF MemoryType, RepairRow
<1>3. ThreadType'
  BY ThreadsAssumption DEF ThreadType, RepairRow
<1>4. CounterType'
  BY DEF CounterType, RepairRow
<1>5. HoldsJob'
  BY ThreadsAssumption DEF HoldsJob, ThreadType, RepairRow
<1>6. LifeStep
  BY StutterMoves DEF RepairRow
<1>7. ClaimMoves
  BY ThreadsAssumption DEF ClaimMoves, ThreadType, RepairRow
<1>8. MarkMoves /\ EffectsGrow /\ CompletionMoves /\ CreateMoves
  BY ThreadsAssumption DEF MarkMoves, ThreadType, EffectsGrow, CompletionMoves,
     RepairRow, CreateMoves
<1> QED
  BY <1>1, <1>2, <1>3, <1>4, <1>5, <1>6, <1>7, <1>8
     DEF Preserves, ProgramType

-----------------------------------------------------------------------------
(* The inductive invariant *)

\* Every step of the pipeline has the summary Preserves: one case per action.
LEMMA NextPreserves ==
    ASSUME IndInv, ProgramStep
    PROVE  Preserves
<1>1. ASSUME NEW w \in Workers, WorkerStep(w) PROVE Preserves
  BY <1>1, DequeueStep, ReadQueuedStep, ClaimJobStep, QuarantinePoisonStep,
     BeginClaimedStep, CheckCancelledStep, StartGeneratorStep, GenerateStep,
     MoveToPostprocessingStep, MarkSucceededStep, SyncAssetsStep, MarkFailedStep,
     FinalizeCancellationStep, ResolveClaimFailureStep, ResolveMarkFailedStep,
     EndJobStep, ConvergeEffectsStep, MarkCompletionDoneStep
     DEF WorkerStep
<1>2. ASSUME NEW c \in Clients, CancelStep(c) \/ \E j \in Jobs : CancelJob(c, j)
      PROVE  Preserves
  BY <1>2, CancelJobStep, CancelReadStep, CancelCasStep, CancelRereadStep,
     CancelSignalStep, ConvergeEffectsStep, MarkCompletionDoneStep
     DEF CancelStep
<1>3. ASSUME NEW j \in Jobs, CreateJob(j) \/ CreateStep(j) \/ RetryPending(j)
      PROVE  Preserves
  BY <1>3, CreateJobStep, EnqueueReadStep, EnqueuePushStep, RetryPendingStep
     DEF CreateStep
<1>4. ASSUME RetryStep PROVE Preserves
  BY <1>4, ConvergeEffectsStep, MarkCompletionDoneStep, TickStartStep, TickVisitStep,
     TickRequarantineStep, TickResolveRepairedStep, TickEndStep
     DEF RetryStep
<1>5. ASSUME BootRecovery PROVE Preserves
  BY <1>5, BootScanStep, BootListStep, BootPendingStep, BootAssetsStep, BootUpStep,
     ConvergeEffectsStep, MarkCompletionDoneStep, BootQuarantineStep, BootFinalizeStep,
     BootConvergeStep, BootEnqueueStep
     DEF BootRecovery
<1>6. ASSUME NEW j \in Jobs, CorruptRow(j) \/ RepairRow(j) PROVE Preserves
  BY <1>6, CorruptRowStep, RepairRowStep
<1> QED BY <1>1, <1>2, <1>3, <1>4, <1>5, <1>6, CrashStep DEF ProgramStep

\* What a step of JobLifecycle leaves of a row: a finished job stays as it is,
\* and a job never goes back to the queue or, once started, to preparing.
RowKept(j) ==
    /\ row[j] \in TERMINAL_JOB_STATUSES => row'[j] = row[j]
    /\ row[j] \notin {"absent", "queued"} => row'[j] \notin {"absent", "queued"}
    /\ row[j] \notin {"absent", "queued", "preparing"} =>
           row'[j] \notin {"absent", "queued", "preparing"}

RunKept(j) ==
    runs'[j] = runs[j] \/ (runs[j] = 0 /\ runs'[j] = 1 /\ row'[j] = "running")

\* What a step of JobLifecycle says of one job: a row never goes back to the
\* queue, a finished one never moves, and runs grows only into running.
LEMMA LifeStepKeeps ==
    ASSUME TableType, CounterType, LifeStep, NEW j \in Jobs
    PROVE  RowKept(j) /\ RunKept(j)
<1>1. CASE UNCHANGED Lifecycle!lifecycle
  BY <1>1 DEF Lifecycle!lifecycle, RowKept, RunKept
<1>2. ASSUME NEW k \in Jobs, Lifecycle!Submit(k) PROVE RowKept(j) /\ RunKept(j)
  BY <1>2 DEF Lifecycle!Submit, TableType, RowKept, RunKept, TERMINAL_JOB_STATUSES
<1>3. ASSUME NEW k \in Jobs, NEW s \in JOB_STATUSES, Lifecycle!Move(k, s)
      PROVE  RowKept(j) /\ RunKept(j)
  <2>1. RowKept(j)
    BY <1>3 DEF Lifecycle!Move, TableType, RowKept, TERMINAL_JOB_STATUSES,
       Lifecycle!ALLOWED_TRANSITIONS
  <2>2. RunKept(j)
    BY <1>3 DEF Lifecycle!Move, TableType, CounterType, RunKept
  <2> QED BY <2>1, <2>2
<1>4. ASSUME NEW k \in Jobs, Lifecycle!Complete(k) PROVE RowKept(j) /\ RunKept(j)
  BY <1>4 DEF Lifecycle!Complete, TableType, RowKept, RunKept
<1>5. ASSUME NEW k \in Jobs, Lifecycle!Damage(k) \/ Lifecycle!Quarantine(k)
      PROVE  RowKept(j) /\ RunKept(j)
  BY <1>5 DEF Lifecycle!Damage, Lifecycle!Quarantine, TableType, RowKept, RunKept,
     TERMINAL_JOB_STATUSES, Lifecycle!ACTIVE_JOB_STATUSES, Lifecycle!TERMINAL_JOB_STATUSES
<1> QED
  BY <1>1, <1>2, <1>3, <1>4, <1>5
     DEF LifeStep, Lifecycle!Next, Lifecycle!JOB_STATUSES, JOB_STATUSES

\* The invariant is kept by any step with the summary Preserves.
LEMMA PreservesIndInv ==
    ASSUME IndInv, Preserves, held' \subseteq Jobs
    PROVE  IndInv'
<1>1. TypeOK' /\ HoldsJob'
  BY DEF Preserves
<1>2. \A j \in Jobs : RowKept(j) /\ RunKept(j)
  BY LifeStepKeeps DEF Preserves
<1>3. SubmittedOnce'
  BY DEF SubmittedOnce, Preserves, CreateMoves
<1>4. ClaimedIsPastQueue'
  <2> SUFFICES ASSUME NEW w \in Workers, pc'[w] \in ClaimedPcs
               PROVE  row'[job'[w]] \notin {"absent", "queued"}
    BY DEF ClaimedIsPastQueue
  <2>1. CASE pc[w] \in ClaimedPcs /\ job'[w] = job[w]
    <3>1. job[w] \in Jobs
      BY <2>1 DEF HoldsJob, HomePcs, ClaimedPcs, BootPcs, OwnerPcs, ConvergePcs
    <3> QED BY <1>2, <2>1, <3>1 DEF ClaimedIsPastQueue, RowKept
  <2> QED BY <2>1 DEF Preserves, ClaimMoves
<1>5. ExclusiveOwner'
  <2> SUFFICES ASSUME NEW v \in Workers, NEW w \in Workers,
                      pc'[v] \in ClaimedPcs, pc'[w] \in ClaimedPcs,
                      job'[v] = job'[w], v # w
               PROVE  FALSE
    BY DEF ExclusiveOwner
  <2>1. CASE /\ pc[v] \in ClaimedPcs /\ job'[v] = job[v]
             /\ pc[w] \in ClaimedPcs /\ job'[w] = job[w]
    BY <2>1 DEF ExclusiveOwner
  <2>2. "claim" \notin ClaimedPcs
    BY DEF ClaimedPcs, OwnerPcs, ConvergePcs
  <2> QED
    BY <2>1, <2>2 DEF Preserves, ClaimMoves, ClaimedIsPastQueue
<1>6. StartedIsPastPreparing' /\ RunsOnce'
  BY <1>2 DEF StartedIsPastPreparing, RunsOnce, RowKept, RunKept, CounterType
<1>7. \A j \in Jobs : EffectsApplied(j) => EffectsApplied(j)'
  BY <1>2 DEF Preserves, EffectsGrow, EffectsApplied, Finished, RowKept
<1>8. \A t \in Threads : pc[t] = "mark" => job[t] \in Jobs
  BY DEF HoldsJob, HomePcs, BootPcs, ConvergePcs
<1>9. MarkingIsApplied'
  BY <1>7, <1>8 DEF Preserves, MarkMoves, MarkingIsApplied
<1>10. DoneIsSettled'
  BY <1>7 DEF Preserves, CompletionMoves, DoneIsSettled, MarkingIsApplied
<1> QED BY <1>1, <1>3, <1>4, <1>5, <1>6, <1>9, <1>10

\* The empty table and the process that is down satisfy the invariant.
LEMMA InitIndInv == Init => IndInv
<1> SUFFICES ASSUME Init PROVE IndInv
  OBVIOUS
<1>1. TableType /\ MemoryType
  BY DEF Init, TableType, MemoryType, RowStatuses
<1>2. ThreadType
  BY ThreadsAssumption
     DEF Init, ThreadType, WorkerPcs, ClientPcs, RetryPcs, BootPcs, RowStatuses
<1>3. CounterType
  BY DEF Init, CounterType
<1>4. HoldsJob /\ ClaimedIsPastQueue /\ ExclusiveOwner /\ MarkingIsApplied
  BY ThreadsAssumption DEF Init, HoldsJob, HomePcs, BootPcs, ConvergePcs,
     ClaimedIsPastQueue, ExclusiveOwner, ClaimedPcs, OwnerPcs, MarkingIsApplied
<1>5. SubmittedOnce /\ DoneIsSettled
  BY DEF Init, SubmittedOnce, DoneIsSettled
<1>6. StartedIsPastPreparing /\ RunsOnce
  BY DEF Init, StartedIsPastPreparing, RunsOnce
<1>7. held \subseteq Jobs
  BY DEF Init
<1> QED BY <1>1, <1>2, <1>3, <1>4, <1>5, <1>6, <1>7

\* What holds a completion up is no part of the program's own state: a step is
\* one of the program, or leaves the program where it is.
LEMMA StepKinds ==
    ASSUME [Next]_vars, held \subseteq Jobs
    PROVE  /\ ProgramStep \/ UNCHANGED core
           /\ held' \subseteq Jobs
  BY DEF Next, vars, HoldUp, LetGo

\* The invariant is inductive.
LEMMA NextIndInv == IndInv /\ [Next]_vars => IndInv'
<1> SUFFICES ASSUME IndInv, [Next]_vars PROVE IndInv'
  OBVIOUS
<1>0. held' \subseteq Jobs /\ (ProgramStep \/ UNCHANGED core)
  BY StepKinds
<1>1. CASE ProgramStep
  BY <1>0, <1>1, NextPreserves, PreservesIndInv
<1>2. CASE UNCHANGED core
  <2>1. ProgramType' /\ HoldsJob'
    BY <1>2 DEF core, TableType, MemoryType, ThreadType, CounterType, HoldsJob
  <2>2. /\ SubmittedOnce' /\ ClaimedIsPastQueue' /\ ExclusiveOwner'
        /\ StartedIsPastPreparing' /\ RunsOnce'
    BY <1>2 DEF core, SubmittedOnce, ClaimedIsPastQueue, ExclusiveOwner,
       StartedIsPastPreparing, RunsOnce
  <2>3. MarkingIsApplied' /\ DoneIsSettled'
    BY <1>2 DEF core, MarkingIsApplied, DoneIsSettled, EffectsApplied, Finished
  <2> QED BY <1>0, <2>1, <2>2, <2>3
<1> QED BY <1>0, <1>1, <1>2

-----------------------------------------------------------------------------
(* The theorems *)

\* IndInv holds in every reachable state of the pipeline.
THEOREM Invariance == Spec => []IndInv
  BY InitIndInv, NextIndInv, PTL DEF Spec

\* The types of the jobs table, the queue, the threads and the counters are
\* kept: no thread ever leaves its own code or works on no job.
THEOREM TypeCorrectness == Spec => []TypeOK
<1>1. IndInv => TypeOK
  OBVIOUS
<1> QED BY <1>1, Invariance, PTL

\* Two runner threads never process the same job after its claim.
THEOREM OwnershipIsExclusive == Spec => []ExclusiveOwner
<1>1. IndInv => ExclusiveOwner
  OBVIOUS
<1> QED BY <1>1, Invariance, PTL

\* A job's generator is started at most once, over all restarts.
THEOREM GeneratorRunsOnce == Spec => []RunsOnce
<1>1. IndInv => RunsOnce
  OBVIOUS
<1> QED BY <1>1, Invariance, PTL

\* A recorded completion has its assets, story and batch effects applied.
THEOREM CompletionIsSettled == Spec => []DoneIsSettled
<1>1. IndInv => DoneIsSettled
  OBVIOUS
<1> QED BY <1>1, Invariance, PTL

\* The pipeline implements the contract of a job's life.
THEOREM Refinement == Spec => ImplementsLifecycle
<1>1. Init => Lifecycle!Init
  BY DEF Init, Lifecycle!Init
<1>2. IndInv /\ [Next]_vars => [Lifecycle!Next]_(Lifecycle!lifecycle)
  <2>1. IndInv /\ ProgramStep => [Lifecycle!Next]_(Lifecycle!lifecycle)
    BY NextPreserves DEF Preserves, LifeStep
  <2>2. UNCHANGED core => UNCHANGED Lifecycle!lifecycle
    BY DEF core, Lifecycle!lifecycle
  <2> QED BY <2>1, <2>2, StepKinds
<1> QED BY <1>1, <1>2, Invariance, PTL DEF Spec, ImplementsLifecycle, Lifecycle!Spec
=============================================================================
