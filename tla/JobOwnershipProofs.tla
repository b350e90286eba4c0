-------------------------- MODULE JobOwnershipProofs --------------------------
(***************************************************************************)
(* Proofs that JobPipeline loses no job: a begun job always has a runner   *)
(* thread that will finish it, until a second storage failure              *)
(* (OwnedUnlessTwoFaults), and no step strands a queued one silently       *)
(* (NoStepStrands).                                                        *)
(*                                                                         *)
(* JobPipelineProofs gives the types, exclusive ownership and the          *)
(* refinement of JobLifecycle after every step.  On top of that, every     *)
(* action is shown to be one of three kinds (one lemma per action,         *)
(* <Action>Follows): a move of a runner thread with its own job, a move of *)
(* a client that only records cancellations, or a move of neither.  The    *)
(* three lemmas on the kinds then give the invariant OwnershipInv.         *)
(*                                                                         *)
(* For the queue, every action has the summary QueueMoves (one lemma per   *)
(* action or group of actions, <Action>Queues).  The invariant QueueInv    *)
(* follows from it: the queue holds a job once and in its lane, a tick of  *)
(* the retry loop drops no candidate that still needs it, and recovery     *)
(* queues what it found queued; and then the action property.              *)
(***************************************************************************)
EXTENDS JobPipelineProofs

\* The thread alone moves, in a process that is up, and the retry loop's and
\* the recovery's notes stay as they are.
Alone(t) ==
    /\ Up
    /\ \A u \in Threads \ {t} : pc'[u] = pc[u] /\ job'[u] = job[u]
    /\ UNCHANGED <<poison, candidates, todo, creating, corruptions>>
    /\ faults' >= faults

\* A runner thread writes the row of the job it owns, claims or quarantines, and
\* ends up where that row is; it sets no event, and keeps what it owns as long
\* as the row is begun.
WorkerMoves(w) ==
    /\ Alone(w)
    /\ \A j \in Jobs : row'[j] # row[j] =>
           /\ j = job[w]
           /\ pc[w] \in OwnerPcs \/ row[j] \in {"queued", "garbled"}
    /\ corruptions = 0 =>
           /\ Follows(w)'
           /\ \A j \in Jobs : row'[j] # "garbled"
           /\ \A j \in Jobs : token'[j] = "set" => token[j] = "set"
           /\ faults' < 2 => \A j \in Jobs :
                  Begun(j)' /\ (row'[j] # row[j] \/ Owns(w, j)) => Owns(w, j)'

\* A client writes only rows that its write makes ending, none of which begins,
\* and signals jobs that are ending.
ClientMoves(c) ==
    /\ Alone(c)
    /\ pc'[c] # "idle" => row'[job'[c]] # "absent"
    /\ corruptions = 0 =>
           /\ \A j \in Jobs : row'[j] # row[j] => row'[j] \in ENDING_STATUSES
           /\ \A j \in Jobs : Begun(j)' => Begun(j)
           /\ \A j \in Jobs : token'[j] = "set" =>
                  token[j] = "set" \/ row'[j] \in ENDING_STATUSES
           /\ pc'[c] \in {"reread", "signal", "signal_changed"} =>
                  row'[job'[c]] \in ENDING_STATUSES

\* Neither moves: the only row that changes in service is that of a new job, and
\* service begins only after recovery.
OtherMoves ==
    /\ \A t \in Workers \cup Clients : pc'[t] = pc[t] /\ job'[t] = job[t]
    /\ UNCHANGED token
    /\ faults' >= faults
    /\ corruptions' = 0 =>
           /\ corruptions = 0
           /\ \A j \in Jobs : row'[j] # row[j] =>
                  \/ row[j] = "absent" /\ row'[j] = "queued"
                  \/ ~Up /\ row'[j] \in ENDING_STATUSES /\ ~Begun(j)'
    /\ Up' => Up \/ (pc[Boot] = "requeue" /\ row' = row)
    /\ DownIsQuiet' /\ IntactIsClean' /\ RecoveryFinishes'

-----------------------------------------------------------------------------
(* The kinds of moves *)

USE DEF OwnershipInv, IndInv, TypeOK, ProgramType, Threads

\* A step of JobLifecycle never takes a row away, and a job that is ending stays
\* so unless its row is damaged.
LEMMA RowAdvances ==
    ASSUME TableType, LifeStep, NEW j \in Jobs
    PROVE  /\ row[j] # "absent" => row'[j] # "absent"
           /\ row[j] \in ENDING_STATUSES => row'[j] \in ENDING_STATUSES \cup {"garbled"}
<1> DEFINE Adv == /\ row[j] # "absent" => row'[j] # "absent"
                  /\ row[j] \in ENDING_STATUSES =>
                         row'[j] \in ENDING_STATUSES \cup {"garbled"}
<1>1. CASE UNCHANGED Lifecycle!lifecycle
  BY <1>1 DEF Lifecycle!lifecycle
<1>2. ASSUME NEW k \in Jobs, Lifecycle!Submit(k) PROVE Adv
  BY <1>2 DEF Lifecycle!Submit, TableType, ENDING_STATUSES, TERMINAL_JOB_STATUSES
<1>3. ASSUME NEW k \in Jobs, NEW s \in JOB_STATUSES, Lifecycle!Move(k, s) PROVE Adv
  BY <1>3 DEF Lifecycle!Move, TableType, ENDING_STATUSES, TERMINAL_JOB_STATUSES,
     Lifecycle!ALLOWED_TRANSITIONS
<1>4. ASSUME NEW k \in Jobs, Lifecycle!Complete(k) PROVE Adv
  BY <1>4 DEF Lifecycle!Complete
<1>5. ASSUME NEW k \in Jobs, Lifecycle!Damage(k) \/ Lifecycle!Quarantine(k) PROVE Adv
  BY <1>5 DEF Lifecycle!Damage, Lifecycle!Quarantine, TableType, ENDING_STATUSES,
     TERMINAL_JOB_STATUSES
<1> QED
  BY <1>1, <1>2, <1>3, <1>4, <1>5
     DEF LifeStep, Lifecycle!Next, Lifecycle!JOB_STATUSES, JOB_STATUSES

\* A runner thread's move keeps the invariant: nobody else is past the claim of
\* its job, so nobody else's row moves.
LEMMA WorkerMovesKeep ==
    ASSUME OwnershipInv, IndInv', LifeStep, NEW w \in Workers, WorkerMoves(w)
    PROVE  OwnershipInv'
<1>1. DownIsQuiet'
  BY ThreadsAssumption DEF WorkerMoves, Alone, Up, DownIsQuiet
<1>2. IntactIsClean'
  BY ThreadsAssumption DEF WorkerMoves, Alone, IntactIsClean
<1>3. \A j \in Jobs : /\ row[j] # "absent" => row'[j] # "absent"
                      /\ corruptions = 0 /\ row[j] \in ENDING_STATUSES =>
                             row'[j] \in ENDING_STATUSES
  BY RowAdvances DEF WorkerMoves
<1>4. \A c \in Clients : pc[c] # "idle" => job[c] \in Jobs
  BY DEF HoldsJob, HomePcs, ThreadType, ClientPcs, BootPcs, ConvergePcs
<1>5. CancelsAreRecorded'
  BY <1>3, <1>4, ThreadsAssumption DEF CancelsAreRecorded, WorkerMoves, Alone
<1>6. RowsAreFollowed'
  <2> SUFFICES ASSUME corruptions = 0, NEW v \in Workers PROVE Follows(v)'
    BY DEF RowsAreFollowed, WorkerMoves, Alone
  <2>1. CASE v = w
    BY <2>1 DEF WorkerMoves
  <2>2. CASE v # w
    <3>1. pc'[v] = pc[v] /\ job'[v] = job[v] /\ faults' >= faults
      BY <2>2 DEF WorkerMoves, Alone
    <3>2. CASE pc[v] \notin ClaimedPcs
      BY <3>1, <3>2 DEF Follows, ClaimedPcs, OwnerPcs, ConvergePcs
    <3>3. CASE pc[v] \in ClaimedPcs
      <4>1. job[v] \in Jobs
        BY <3>3 DEF HoldsJob, HomePcs, ClaimedPcs, BootPcs, OwnerPcs, ConvergePcs
      <4>2. row'[job[v]] = row[job[v]]
        BY <2>2, <3>3, <4>1
           DEF WorkerMoves, ExclusiveOwner, ClaimedPcs, ClaimedIsPastQueue, IntactIsClean
      <4>3. Follows(v)
        BY DEF RowsAreFollowed
      <4> QED
        BY <3>1, <4>2, <4>3 DEF Follows, Finished, CounterType
    <3> QED BY <3>2, <3>3
  <2> QED BY <2>1, <2>2
<1>7. RecoveryFinishes'
  BY ThreadsAssumption DEF RecoveryFinishes, WorkerMoves, Alone, Up
<1>8. OwnedUnlessTwoFaults'
  <2> SUFFICES ASSUME NEW j \in Jobs, Up', faults' < 2, corruptions' = 0, Begun(j)'
               PROVE  \E v \in Workers : Owns(v, j)'
    BY DEF OwnedUnlessTwoFaults, Begun
  <2>1. faults < 2 /\ corruptions = 0
    BY DEF WorkerMoves, Alone, CounterType
  <2>2. CASE row'[j] # row[j]
    BY <2>1, <2>2 DEF WorkerMoves
  <2>3. CASE row'[j] = row[j]
    <3>1. PICK v \in Workers : Owns(v, j)
      BY <2>1, <2>3 DEF OwnedUnlessTwoFaults, Begun, WorkerMoves, Alone
    <3>2. CASE v = w
      BY <2>1, <3>1, <3>2 DEF WorkerMoves
    <3>3. CASE v # w
      BY <3>1, <3>3 DEF WorkerMoves, Alone, Owns
    <3> QED BY <3>2, <3>3
  <2> QED BY <2>2, <2>3
<1> QED BY <1>1, <1>2, <1>5, <1>6, <1>7, <1>8

\* A client's move keeps the invariant: a row it writes is only cancelled behind
\* the owner's back.
LEMMA ClientMovesKeep ==
    ASSUME OwnershipInv, IndInv', LifeStep, NEW c \in Clients, ClientMoves(c)
    PROVE  OwnershipInv'
<1>1. DownIsQuiet'
  BY ThreadsAssumption DEF ClientMoves, Alone, Up, DownIsQuiet
<1>2. IntactIsClean'
  BY ThreadsAssumption
     DEF ClientMoves, Alone, IntactIsClean, ENDING_STATUSES, TERMINAL_JOB_STATUSES
<1>3. \A j \in Jobs : /\ row[j] # "absent" => row'[j] # "absent"
                      /\ corruptions = 0 /\ row[j] \in ENDING_STATUSES =>
                             row'[j] \in ENDING_STATUSES
  BY RowAdvances DEF ClientMoves
<1>4. \A d \in Clients : pc[d] # "idle" => job[d] \in Jobs
  BY DEF HoldsJob, HomePcs, ThreadType, ClientPcs, BootPcs, ConvergePcs
<1>5. CancelsAreRecorded'
  <2>1. ASSUME NEW d \in Clients, d # c, pc'[d] # "idle"
        PROVE  /\ row'[job'[d]] # "absent"
               /\ corruptions = 0 /\ pc'[d] \in {"reread", "signal", "signal_changed"} =>
                      row'[job'[d]] \in ENDING_STATUSES
    BY <1>3, <1>4, <2>1 DEF CancelsAreRecorded, ClientMoves, Alone
  <2>2. \A j \in Jobs : corruptions = 0 /\ token'[j] = "set" => row'[j] \in ENDING_STATUSES
    BY <1>3 DEF CancelsAreRecorded, ClientMoves
  <2>3. corruptions' = corruptions
    BY DEF ClientMoves, Alone
  <2> QED BY <2>1, <2>2, <2>3 DEF CancelsAreRecorded, ClientMoves
<1>6. RowsAreFollowed'
  <2> SUFFICES ASSUME corruptions = 0, NEW v \in Workers PROVE Follows(v)'
    BY DEF RowsAreFollowed, ClientMoves, Alone
  <2>1. pc'[v] = pc[v] /\ job'[v] = job[v] /\ faults' >= faults
    BY ThreadsAssumption DEF ClientMoves, Alone
  <2>2. CASE pc[v] \notin ClaimedPcs
    BY <2>1, <2>2 DEF Follows, ClaimedPcs, OwnerPcs, ConvergePcs
  <2>3. CASE pc[v] \in ClaimedPcs
    <3>1. job[v] \in Jobs
      BY <2>3 DEF HoldsJob, HomePcs, ClaimedPcs, BootPcs, OwnerPcs, ConvergePcs
    <3>2. row'[job[v]] = row[job[v]] \/ row'[job[v]] \in ENDING_STATUSES
      BY <3>1 DEF ClientMoves
    <3>3. Finished(job[v]) => row'[job[v]] = row[job[v]]
      BY <3>1, LifeStepKeeps DEF RowKept, Finished
    <3>4. Follows(v)
      BY DEF RowsAreFollowed
    <3> QED
      BY <2>1, <3>2, <3>3, <3>4 DEF Follows, Finished, CounterType
  <2> QED BY <2>2, <2>3
<1>7. RecoveryFinishes'
  BY ThreadsAssumption DEF RecoveryFinishes, ClientMoves, Alone, Up
<1>8. OwnedUnlessTwoFaults'
  <2> SUFFICES ASSUME NEW j \in Jobs, Up', faults' < 2, corruptions' = 0, Begun(j)'
               PROVE  \E v \in Workers : Owns(v, j)'
    BY DEF OwnedUnlessTwoFaults, Begun
  <2>1. faults < 2 /\ corruptions = 0 /\ Up
    BY DEF ClientMoves, Alone, CounterType
  <2>2. Begun(j)
    BY <2>1 DEF ClientMoves
  <2>3. PICK v \in Workers : Owns(v, j)
    BY <2>1, <2>2 DEF OwnedUnlessTwoFaults, Begun
  <2> QED
    BY <2>3, ThreadsAssumption DEF ClientMoves, Alone, Owns
<1> QED BY <1>1, <1>2, <1>5, <1>6, <1>7, <1>8

\* A move of neither leaves the runner threads on their rows and the clients on
\* theirs.
LEMMA OtherMovesKeep ==
    ASSUME OwnershipInv, IndInv', LifeStep, OtherMoves
    PROVE  OwnershipInv'
<1>1. \A j \in Jobs : /\ row[j] # "absent" => row'[j] # "absent"
                      /\ corruptions' = 0 /\ row[j] \in ENDING_STATUSES =>
                             row'[j] \in ENDING_STATUSES
  BY RowAdvances DEF IntactIsClean, OtherMoves
<1>2. \A c \in Clients : pc[c] # "idle" => job[c] \in Jobs
  BY DEF HoldsJob, HomePcs, ThreadType, ClientPcs, BootPcs, ConvergePcs
<1>3. CancelsAreRecorded'
  BY <1>1, <1>2 DEF CancelsAreRecorded, OtherMoves
<1>4. RowsAreFollowed'
  <2> SUFFICES ASSUME corruptions' = 0, NEW v \in Workers PROVE Follows(v)'
    BY DEF RowsAreFollowed
  <2>1. /\ pc'[v] = pc[v] /\ job'[v] = job[v] /\ faults' >= faults
        /\ corruptions = 0
    BY DEF OtherMoves
  <2>2. CASE pc[v] \notin ClaimedPcs
    BY <2>1, <2>2 DEF Follows, ClaimedPcs, OwnerPcs, ConvergePcs
  <2>3. CASE pc[v] \in ClaimedPcs
    <3>1. job[v] \in Jobs
      BY <2>3 DEF HoldsJob, HomePcs, ClaimedPcs, BootPcs, OwnerPcs, ConvergePcs
    <3>2. Up
      BY <2>3, ThreadsAssumption DEF DownIsQuiet, ClaimedPcs, OwnerPcs, ConvergePcs
    <3>3. row'[job[v]] = row[job[v]]
      BY <2>1, <2>3, <3>1, <3>2 DEF OtherMoves, ClaimedIsPastQueue
    <3>4. Follows(v)
      BY <2>1 DEF RowsAreFollowed
    <3> QED
      BY <2>1, <3>3, <3>4 DEF Follows, Finished, CounterType
  <2> QED BY <2>2, <2>3
<1>5. OwnedUnlessTwoFaults'
  <2> SUFFICES ASSUME NEW j \in Jobs, Up', faults' < 2, corruptions' = 0, Begun(j)'
               PROVE  \E v \in Workers : Owns(v, j)'
    BY DEF OwnedUnlessTwoFaults, Begun
  <2>1. faults < 2 /\ corruptions = 0
    BY DEF OtherMoves, CounterType
  <2>2. Up /\ row'[j] = row[j]
    BY <2>1 DEF OtherMoves, Up, Begun, RecoveryFinishes, BootPcs, ConvergePcs
  <2>3. PICK v \in Workers : Owns(v, j)
    BY <2>1, <2>2 DEF OwnedUnlessTwoFaults, Begun
  <2> QED
    BY <2>3 DEF OtherMoves, Owns
<1> QED BY <1>3, <1>4, <1>5 DEF OtherMoves

-----------------------------------------------------------------------------
(* Moves of a runner thread *)

USE DEF durable, control, tick, history, Works, Fails, Write, Goto, Park, Take

\* The statuses from which the guarded writes of a runner thread go through.
LEMMA GuardedWrites ==
    ASSUME NEW s
    PROVE  /\ Admits(s, {"queued"}, "preparing") <=> s = "queued"
           /\ Admits(s, {"preparing"}, "running") <=> s = "preparing"
           /\ Admits(s, {"running"}, "postprocessing") <=> s = "running"
           /\ Admits(s, {"postprocessing"}, "succeeded") <=> s = "postprocessing"
           /\ Admits(s, {"cancel_requested"}, "cancelled") <=> s = "cancel_requested"
           /\ Admits(s, ACTIVE_JOB_STATUSES, "failed") <=> s \in ACTIVE_JOB_STATUSES
  BY DEF Admits, is_valid_transition, ALLOWED_TRANSITIONS, JOB_STATUSES,
     ACTIVE_JOB_STATUSES, TERMINAL_JOB_STATUSES

\* A runner thread at work holds a job, in a process that is up, and that job's
\* row is where the thread believes it to be.
LEMMA BusyWorker ==
    ASSUME OwnershipInv, NEW w \in Workers, pc[w] # "idle"
    PROVE  /\ w \in Threads /\ job[w] \in Jobs /\ row[job[w]] \in RowStatuses /\ Up
           /\ corruptions = 0 => Follows(w) /\ Decodable(job[w])
           /\ pc[w] \in ClaimedPcs => row[job[w]] \notin {"absent", "queued"}
<1>1. w \in Threads /\ w # Boot
  BY ThreadsAssumption
<1>2. job[w] \in Jobs
  BY <1>1 DEF HoldsJob, HomePcs, ThreadType, WorkerPcs, OwnerPcs, PreClaimPcs, BootPcs,
     ConvergePcs
<1> QED
  BY <1>1, <1>2 DEF DownIsQuiet, RowsAreFollowed, IntactIsClean, Decodable, TableType,
     ClaimedIsPastQueue

\* A free runner thread takes a job off its queue.
LEMMA DequeueFollows ==
    ASSUME OwnershipInv, IndInv', NEW w \in Workers, Dequeue(w)
    PROVE  WorkerMoves(w)
<1>1. w \in Threads
  OBVIOUS
<1>2. Alone(w)
  BY <1>1, ThreadsAssumption DEF Alone, Dequeue, ThreadType, CounterType
<1>3. pc'[w] = "read" /\ pc[w] = "idle"
  BY <1>1 DEF Dequeue, ThreadType
<1> QED
  BY <1>2, <1>3 DEF WorkerMoves, Dequeue, Follows, Owns, OwnerPcs, ConvergePcs,
     IntactIsClean

\* A job that is still queued is about to be claimed.
LEMMA ReadQueuedFollows ==
    ASSUME OwnershipInv, IndInv', NEW w \in Workers, ReadQueued(w)
    PROVE  WorkerMoves(w)
<1>1. pc[w] # "idle"
  BY DEF ReadQueued
<1>2. Alone(w)
  BY <1>1, BusyWorker, ThreadsAssumption DEF Alone, ReadQueued, Requeue, ThreadType, CounterType
<1>3. \A j \in Jobs : row'[j] # row[j] =>
          j = job[w] /\ (pc[w] \in OwnerPcs \/ row[j] \in {"queued", "garbled"})
  BY <1>1, BusyWorker DEF ReadQueued, Requeue, TableType, OwnerPcs
<1>4. ASSUME corruptions = 0
      PROVE  /\ Follows(w)'
             /\ \A j \in Jobs : row'[j] # "garbled"
  BY <1>1, <1>4, BusyWorker, GuardedWrites
     DEF ReadQueued, Requeue, TableType, ThreadType, CounterType, Follows, IntactIsClean, Decodable,
         Finished, RowStatuses, ConvergePcs, ENDING_STATUSES, ACTIVE_JOB_STATUSES, JOB_STATUSES, TERMINAL_JOB_STATUSES
<1>5. ASSUME corruptions = 0, NEW j \in Jobs
      PROVE  token'[j] = "set" => token[j] = "set"
  BY <1>1, <1>5, BusyWorker DEF ReadQueued, Requeue, MemoryType
<1>6. ASSUME corruptions = 0, NEW j \in Jobs, faults' < 2, Begun(j)',
             row'[j] # row[j] \/ Owns(w, j)
      PROVE  Owns(w, j)'
  BY <1>1, <1>6, BusyWorker, GuardedWrites
     DEF ReadQueued, Requeue, TableType, ThreadType, CounterType, Follows, Owns, OwnerPcs, Begun,
         Finished, RowStatuses, ConvergePcs, ENDING_STATUSES, ACTIVE_JOB_STATUSES, JOB_STATUSES, TERMINAL_JOB_STATUSES
<1> QED
  BY <1>2, <1>3, <1>4, <1>5, <1>6 DEF WorkerMoves

\* A claim moves the row from queued to preparing.
LEMMA ClaimJobFollows ==
    ASSUME OwnershipInv, IndInv', NEW w \in Workers, ClaimJob(w)
    PROVE  WorkerMoves(w)
<1>1. pc[w] # "idle"
  BY DEF ClaimJob
<1>2. Alone(w)
  BY <1>1, BusyWorker, ThreadsAssumption DEF Alone, ClaimJob, Requeue, ThreadType, CounterType
<1>3. \A j \in Jobs : row'[j] # row[j] =>
          j = job[w] /\ (pc[w] \in OwnerPcs \/ row[j] \in {"queued", "garbled"})
  BY <1>1, BusyWorker, GuardedWrites DEF ClaimJob, Requeue, TableType, OwnerPcs
<1>4. ASSUME corruptions = 0
      PROVE  /\ Follows(w)'
             /\ \A j \in Jobs : row'[j] # "garbled"
  BY <1>1, <1>4, BusyWorker, GuardedWrites
     DEF ClaimJob, Requeue, TableType, ThreadType, CounterType, Follows, IntactIsClean, Decodable,
         Finished, RowStatuses, ConvergePcs, ENDING_STATUSES, ACTIVE_JOB_STATUSES, JOB_STATUSES, TERMINAL_JOB_STATUSES
<1>5. ASSUME corruptions = 0, NEW j \in Jobs
      PROVE  token'[j] = "set" => token[j] = "set"
  BY <1>1, <1>5, BusyWorker DEF ClaimJob, Requeue, MemoryType
<1>6. ASSUME corruptions = 0, NEW j \in Jobs, faults' < 2, Begun(j)',
             row'[j] # row[j] \/ Owns(w, j)
      PROVE  Owns(w, j)'
  BY <1>1, <1>6, BusyWorker, GuardedWrites
     DEF ClaimJob, Requeue, TableType, ThreadType, CounterType, Follows, Owns, OwnerPcs, Begun,
         Finished, RowStatuses, ConvergePcs, ENDING_STATUSES, ACTIVE_JOB_STATUSES, JOB_STATUSES, TERMINAL_JOB_STATUSES
<1> QED
  BY <1>2, <1>3, <1>4, <1>5, <1>6 DEF WorkerMoves

\* Only a queued row, or one whose status is not one, is failed.
LEMMA QuarantinePoisonFollows ==
    ASSUME OwnershipInv, IndInv', NEW w \in Workers, QuarantinePoison(w)
    PROVE  WorkerMoves(w)
<1>1. pc[w] # "idle"
  BY DEF QuarantinePoison
<1>2. Alone(w)
  BY <1>1, BusyWorker, ThreadsAssumption DEF Alone, QuarantinePoison, Requeue, ThreadType, CounterType
<1>3. \A j \in Jobs : row'[j] # row[j] =>
          j = job[w] /\ (pc[w] \in OwnerPcs \/ row[j] \in {"queued", "garbled"})
  BY <1>1, BusyWorker DEF QuarantinePoison, Requeue, TableType, OwnerPcs
<1>4. ASSUME corruptions = 0
      PROVE  /\ Follows(w)'
             /\ \A j \in Jobs : row'[j] # "garbled"
  BY <1>1, <1>4, BusyWorker, GuardedWrites
     DEF QuarantinePoison, Requeue, TableType, ThreadType, CounterType, Follows, IntactIsClean, Decodable,
         Finished, RowStatuses, ConvergePcs, ENDING_STATUSES, ACTIVE_JOB_STATUSES, JOB_STATUSES, TERMINAL_JOB_STATUSES
<1>5. ASSUME corruptions = 0, NEW j \in Jobs
      PROVE  token'[j] = "set" => token[j] = "set"
  BY <1>1, <1>5, BusyWorker DEF QuarantinePoison, Requeue, MemoryType
<1>6. ASSUME corruptions = 0, NEW j \in Jobs, faults' < 2, Begun(j)',
             row'[j] # row[j] \/ Owns(w, j)
      PROVE  Owns(w, j)'
  BY <1>1, <1>6, BusyWorker, GuardedWrites
     DEF QuarantinePoison, Requeue, TableType, ThreadType, CounterType, Follows, Owns, OwnerPcs, Begun,
         Finished, RowStatuses, ConvergePcs, ENDING_STATUSES, ACTIVE_JOB_STATUSES, JOB_STATUSES, TERMINAL_JOB_STATUSES
<1> QED
  BY <1>2, <1>3, <1>4, <1>5, <1>6 DEF WorkerMoves

\* The claimed row is re-read.
LEMMA BeginClaimedFollows ==
    ASSUME OwnershipInv, IndInv', NEW w \in Workers, BeginClaimed(w)
    PROVE  WorkerMoves(w)
<1>1. pc[w] # "idle"
  BY DEF BeginClaimed
<1>2. Alone(w)
  BY <1>1, BusyWorker, ThreadsAssumption DEF Alone, BeginClaimed, ThreadType, CounterType
<1>3. \A j \in Jobs : row'[j] # row[j] =>
          j = job[w] /\ (pc[w] \in OwnerPcs \/ row[j] \in {"queued", "garbled"})
  BY <1>1, BusyWorker DEF BeginClaimed, TableType, OwnerPcs
<1>4. ASSUME corruptions = 0
      PROVE  /\ Follows(w)'
             /\ \A j \in Jobs : row'[j] # "garbled"
  BY <1>1, <1>4, BusyWorker, GuardedWrites
     DEF BeginClaimed, TableType, ThreadType, CounterType, Follows, IntactIsClean, Decodable,
         Finished, RowStatuses, ConvergePcs, ENDING_STATUSES, ACTIVE_JOB_STATUSES, JOB_STATUSES, TERMINAL_JOB_STATUSES
<1>5. ASSUME corruptions = 0, NEW j \in Jobs
      PROVE  token'[j] = "set" => token[j] = "set"
  BY <1>1, <1>5, BusyWorker DEF BeginClaimed, MemoryType
<1>6. ASSUME corruptions = 0, NEW j \in Jobs, faults' < 2, Begun(j)',
             row'[j] # row[j] \/ Owns(w, j)
      PROVE  Owns(w, j)'
  BY <1>1, <1>6, BusyWorker, GuardedWrites
     DEF BeginClaimed, TableType, ThreadType, CounterType, Follows, Owns, OwnerPcs, Begun,
         Finished, RowStatuses, ConvergePcs, ENDING_STATUSES, ACTIVE_JOB_STATUSES, JOB_STATUSES, TERMINAL_JOB_STATUSES
<1> QED
  BY <1>2, <1>3, <1>4, <1>5, <1>6 DEF WorkerMoves

\* A cancelled job is finalized.
LEMMA CheckCancelledFollows ==
    ASSUME OwnershipInv, IndInv', NEW w \in Workers, CheckCancelled(w)
    PROVE  WorkerMoves(w)
<1>1. pc[w] # "idle"
  BY DEF CheckCancelled
<1>2. Alone(w)
  BY <1>1, BusyWorker, ThreadsAssumption DEF Alone, CheckCancelled, ThreadType, CounterType
<1>3. \A j \in Jobs : row'[j] # row[j] =>
          j = job[w] /\ (pc[w] \in OwnerPcs \/ row[j] \in {"queued", "garbled"})
  BY <1>1, BusyWorker DEF CheckCancelled, TableType, OwnerPcs
<1>4. ASSUME corruptions = 0
      PROVE  /\ Follows(w)'
             /\ \A j \in Jobs : row'[j] # "garbled"
  BY <1>1, <1>4, BusyWorker, GuardedWrites
     DEF CheckCancelled, TableType, ThreadType, CounterType, Follows, IntactIsClean, Decodable,
         Finished, RowStatuses, ConvergePcs, ENDING_STATUSES, ACTIVE_JOB_STATUSES, JOB_STATUSES, TERMINAL_JOB_STATUSES, CANCELLATION_STATUSES
<1>5. ASSUME corruptions = 0, NEW j \in Jobs
      PROVE  token'[j] = "set" => token[j] = "set"
  BY <1>1, <1>5, BusyWorker DEF CheckCancelled, MemoryType
<1>6. ASSUME corruptions = 0, NEW j \in Jobs, faults' < 2, Begun(j)',
             row'[j] # row[j] \/ Owns(w, j)
      PROVE  Owns(w, j)'
  BY <1>1, <1>6, BusyWorker, GuardedWrites
     DEF CheckCancelled, TableType, ThreadType, CounterType, Follows, Owns, OwnerPcs, Begun,
         Finished, RowStatuses, ConvergePcs, ENDING_STATUSES, ACTIVE_JOB_STATUSES, JOB_STATUSES, TERMINAL_JOB_STATUSES, CANCELLATION_STATUSES
<1> QED
  BY <1>2, <1>3, <1>4, <1>5, <1>6 DEF WorkerMoves

\* The row moves to running, or was cancelled.
LEMMA StartGeneratorFollows ==
    ASSUME OwnershipInv, IndInv', NEW w \in Workers, StartGenerator(w)
    PROVE  WorkerMoves(w)
<1>1. pc[w] # "idle"
  BY DEF StartGenerator
<1>2. Alone(w)
  BY <1>1, BusyWorker, ThreadsAssumption DEF Alone, StartGenerator, UpdateIfStatus, ThreadType, CounterType
<1>3. \A j \in Jobs : row'[j] # row[j] =>
          j = job[w] /\ (pc[w] \in OwnerPcs \/ row[j] \in {"queued", "garbled"})
  BY <1>1, BusyWorker DEF StartGenerator, UpdateIfStatus, TableType, OwnerPcs
<1>4. ASSUME corruptions = 0
      PROVE  /\ Follows(w)'
             /\ \A j \in Jobs : row'[j] # "garbled"
  BY <1>1, <1>4, BusyWorker, GuardedWrites
     DEF StartGenerator, UpdateIfStatus, TableType, ThreadType, CounterType, Follows, IntactIsClean, Decodable,
         Finished, RowStatuses, ConvergePcs, ENDING_STATUSES, ACTIVE_JOB_STATUSES, JOB_STATUSES, TERMINAL_JOB_STATUSES
<1>5. ASSUME corruptions = 0, NEW j \in Jobs
      PROVE  token'[j] = "set" => token[j] = "set"
  BY <1>1, <1>5, BusyWorker DEF StartGenerator, UpdateIfStatus, MemoryType
<1>6. ASSUME corruptions = 0, NEW j \in Jobs, faults' < 2, Begun(j)',
             row'[j] # row[j] \/ Owns(w, j)
      PROVE  Owns(w, j)'
  BY <1>1, <1>6, BusyWorker, GuardedWrites
     DEF StartGenerator, UpdateIfStatus, TableType, ThreadType, CounterType, Follows, Owns, OwnerPcs, Begun,
         Finished, RowStatuses, ConvergePcs, ENDING_STATUSES, ACTIVE_JOB_STATUSES, JOB_STATUSES, TERMINAL_JOB_STATUSES
<1> QED
  BY <1>2, <1>3, <1>4, <1>5, <1>6 DEF WorkerMoves

\* The generator ends; only a cancelled job is finalized.
LEMMA GenerateFollows ==
    ASSUME OwnershipInv, IndInv', NEW w \in Workers, Generate(w)
    PROVE  WorkerMoves(w)
<1>1. pc[w] # "idle"
  BY DEF Generate
<1>2. Alone(w)
  BY <1>1, BusyWorker, ThreadsAssumption DEF Alone, Generate, ThreadType, CounterType
<1>3. \A j \in Jobs : row'[j] # row[j] =>
          j = job[w] /\ (pc[w] \in OwnerPcs \/ row[j] \in {"queued", "garbled"})
  BY <1>1, BusyWorker DEF Generate, TableType, OwnerPcs
<1>4. ASSUME corruptions = 0
      PROVE  /\ Follows(w)'
             /\ \A j \in Jobs : row'[j] # "garbled"
  BY <1>1, <1>4, BusyWorker, GuardedWrites
     DEF Generate, TableType, ThreadType, CounterType, Follows, IntactIsClean, Decodable,
         Finished, RowStatuses, ConvergePcs, ENDING_STATUSES, ACTIVE_JOB_STATUSES, JOB_STATUSES, TERMINAL_JOB_STATUSES, CANCELLATION_STATUSES, CancelsAreRecorded
<1>5. ASSUME corruptions = 0, NEW j \in Jobs
      PROVE  token'[j] = "set" => token[j] = "set"
  BY <1>1, <1>5, BusyWorker DEF Generate, MemoryType
<1>6. ASSUME corruptions = 0, NEW j \in Jobs, faults' < 2, Begun(j)',
             row'[j] # row[j] \/ Owns(w, j)
      PROVE  Owns(w, j)'
  BY <1>1, <1>6, BusyWorker, GuardedWrites
     DEF Generate, TableType, ThreadType, CounterType, Follows, Owns, OwnerPcs, Begun,
         Finished, RowStatuses, ConvergePcs, ENDING_STATUSES, ACTIVE_JOB_STATUSES, JOB_STATUSES, TERMINAL_JOB_STATUSES, CANCELLATION_STATUSES, CancelsAreRecorded
<1> QED
  BY <1>2, <1>3, <1>4, <1>5, <1>6 DEF WorkerMoves

\* The row moves to postprocessing, or was cancelled.
LEMMA MoveToPostprocessingFollows ==
    ASSUME OwnershipInv, IndInv', NEW w \in Workers, MoveToPostprocessing(w)
    PROVE  WorkerMoves(w)
<1>1. pc[w] # "idle"
  BY DEF MoveToPostprocessing
<1>2. Alone(w)
  BY <1>1, BusyWorker, ThreadsAssumption DEF Alone, MoveToPostprocessing, UpdateIfStatus, ThreadType, CounterType
<1>3. \A j \in Jobs : row'[j] # row[j] =>
          j = job[w] /\ (pc[w] \in OwnerPcs \/ row[j] \in {"queued", "garbled"})
  BY <1>1, BusyWorker DEF MoveToPostprocessing, UpdateIfStatus, TableType, OwnerPcs
<1>4. ASSUME corruptions = 0
      PROVE  /\ Follows(w)'
             /\ \A j \in Jobs : row'[j] # "garbled"
  BY <1>1, <1>4, BusyWorker, GuardedWrites
     DEF MoveToPostprocessing, UpdateIfStatus, TableType, ThreadType, CounterType, Follows, IntactIsClean, Decodable,
         Finished, RowStatuses, ConvergePcs, ENDING_STATUSES, ACTIVE_JOB_STATUSES, JOB_STATUSES, TERMINAL_JOB_STATUSES
<1>5. ASSUME corruptions = 0, NEW j \in Jobs
      PROVE  token'[j] = "set" => token[j] = "set"
  BY <1>1, <1>5, BusyWorker DEF MoveToPostprocessing, UpdateIfStatus, MemoryType
<1>6. ASSUME corruptions = 0, NEW j \in Jobs, faults' < 2, Begun(j)',
             row'[j] # row[j] \/ Owns(w, j)
      PROVE  Owns(w, j)'
  BY <1>1, <1>6, BusyWorker, GuardedWrites
     DEF MoveToPostprocessing, UpdateIfStatus, TableType, ThreadType, CounterType, Follows, Owns, OwnerPcs, Begun,
         Finished, RowStatuses, ConvergePcs, ENDING_STATUSES, ACTIVE_JOB_STATUSES, JOB_STATUSES, TERMINAL_JOB_STATUSES
<1> QED
  BY <1>2, <1>3, <1>4, <1>5, <1>6 DEF WorkerMoves

\* The row moves to succeeded, or was cancelled.
LEMMA MarkSucceededFollows ==
    ASSUME OwnershipInv, IndInv', NEW w \in Workers, MarkSucceeded(w)
    PROVE  WorkerMoves(w)
<1>1. pc[w] # "idle"
  BY DEF MarkSucceeded
<1>2. Alone(w)
  BY <1>1, BusyWorker, ThreadsAssumption DEF Alone, MarkSucceeded, UpdateIfStatus, OrRaise, ThreadType, CounterType
<1>3. \A j \in Jobs : row'[j] # row[j] =>
          j = job[w] /\ (pc[w] \in OwnerPcs \/ row[j] \in {"queued", "garbled"})
  BY <1>1, BusyWorker DEF MarkSucceeded, UpdateIfStatus, OrRaise, TableType, OwnerPcs
<1>4. ASSUME corruptions = 0
      PROVE  /\ Follows(w)'
             /\ \A j \in Jobs : row'[j] # "garbled"
  BY <1>1, <1>4, BusyWorker, GuardedWrites
     DEF MarkSucceeded, UpdateIfStatus, OrRaise, TableType, ThreadType, CounterType, Follows, IntactIsClean, Decodable,
         Finished, RowStatuses, ConvergePcs, ENDING_STATUSES, ACTIVE_JOB_STATUSES, JOB_STATUSES, TERMINAL_JOB_STATUSES
<1>5. ASSUME corruptions = 0, NEW j \in Jobs
      PROVE  token'[j] = "set" => token[j] = "set"
  BY <1>1, <1>5, BusyWorker DEF MarkSucceeded, UpdateIfStatus, OrRaise, MemoryType
<1>6. ASSUME corruptions = 0, NEW j \in Jobs, faults' < 2, Begun(j)',
             row'[j] # row[j] \/ Owns(w, j)
      PROVE  Owns(w, j)'
  BY <1>1, <1>6, BusyWorker, GuardedWrites
     DEF MarkSucceeded, UpdateIfStatus, OrRaise, TableType, ThreadType, CounterType, Follows, Owns, OwnerPcs, Begun,
         Finished, RowStatuses, ConvergePcs, ENDING_STATUSES, ACTIVE_JOB_STATUSES, JOB_STATUSES, TERMINAL_JOB_STATUSES
<1> QED
  BY <1>2, <1>3, <1>4, <1>5, <1>6 DEF WorkerMoves

\* A succeeded row stays as it is.
LEMMA SyncAssetsFollows ==
    ASSUME OwnershipInv, IndInv', NEW w \in Workers, SyncAssets(w)
    PROVE  WorkerMoves(w)
<1>1. pc[w] # "idle"
  BY DEF SyncAssets
<1>2. Alone(w)
  BY <1>1, BusyWorker, ThreadsAssumption DEF Alone, SyncAssets, ThreadType, CounterType
<1>3. \A j \in Jobs : row'[j] # row[j] =>
          j = job[w] /\ (pc[w] \in OwnerPcs \/ row[j] \in {"queued", "garbled"})
  BY <1>1, BusyWorker DEF SyncAssets, TableType, OwnerPcs
<1>4. ASSUME corruptions = 0
      PROVE  /\ Follows(w)'
             /\ \A j \in Jobs : row'[j] # "garbled"
  BY <1>1, <1>4, BusyWorker, GuardedWrites
     DEF SyncAssets, TableType, ThreadType, CounterType, Follows, IntactIsClean, Decodable,
         Finished, RowStatuses, ConvergePcs, ENDING_STATUSES, ACTIVE_JOB_STATUSES, JOB_STATUSES, TERMINAL_JOB_STATUSES
<1>5. ASSUME corruptions = 0, NEW j \in Jobs
      PROVE  token'[j] = "set" => token[j] = "set"
  BY <1>1, <1>5, BusyWorker DEF SyncAssets, MemoryType
<1>6. ASSUME corruptions = 0, NEW j \in Jobs, faults' < 2, Begun(j)',
             row'[j] # row[j] \/ Owns(w, j)
      PROVE  Owns(w, j)'
  BY <1>1, <1>6, BusyWorker, GuardedWrites
     DEF SyncAssets, TableType, ThreadType, CounterType, Follows, Owns, OwnerPcs, Begun,
         Finished, RowStatuses, ConvergePcs, ENDING_STATUSES, ACTIVE_JOB_STATUSES, JOB_STATUSES, TERMINAL_JOB_STATUSES
<1> QED
  BY <1>2, <1>3, <1>4, <1>5, <1>6 DEF WorkerMoves

\* Any active row moves to failed.
LEMMA MarkFailedFollows ==
    ASSUME OwnershipInv, IndInv', NEW w \in Workers, MarkFailed(w)
    PROVE  WorkerMoves(w)
<1>1. pc[w] # "idle"
  BY DEF MarkFailed
<1>2. Alone(w)
  BY <1>1, BusyWorker, ThreadsAssumption DEF Alone, MarkFailed, UpdateIfStatus, OrRaise, ThreadType, CounterType
<1>3. \A j \in Jobs : row'[j] # row[j] =>
          j = job[w] /\ (pc[w] \in OwnerPcs \/ row[j] \in {"queued", "garbled"})
  BY <1>1, BusyWorker DEF MarkFailed, UpdateIfStatus, OrRaise, TableType, OwnerPcs
<1>4. ASSUME corruptions = 0
      PROVE  /\ Follows(w)'
             /\ \A j \in Jobs : row'[j] # "garbled"
  BY <1>1, <1>4, BusyWorker, GuardedWrites
     DEF MarkFailed, UpdateIfStatus, OrRaise, TableType, ThreadType, CounterType, Follows, IntactIsClean, Decodable,
         Finished, RowStatuses, ConvergePcs, ENDING_STATUSES, ACTIVE_JOB_STATUSES, JOB_STATUSES, TERMINAL_JOB_STATUSES
<1>5. ASSUME corruptions = 0, NEW j \in Jobs
      PROVE  token'[j] = "set" => token[j] = "set"
  BY <1>1, <1>5, BusyWorker DEF MarkFailed, UpdateIfStatus, OrRaise, MemoryType
<1>6. ASSUME corruptions = 0, NEW j \in Jobs, faults' < 2, Begun(j)',
             row'[j] # row[j] \/ Owns(w, j)
      PROVE  Owns(w, j)'
  BY <1>1, <1>6, BusyWorker, GuardedWrites
     DEF MarkFailed, UpdateIfStatus, OrRaise, TableType, ThreadType, CounterType, Follows, Owns, OwnerPcs, Begun,
         Finished, RowStatuses, ConvergePcs, ENDING_STATUSES, ACTIVE_JOB_STATUSES, JOB_STATUSES, TERMINAL_JOB_STATUSES
<1> QED
  BY <1>2, <1>3, <1>4, <1>5, <1>6 DEF WorkerMoves

\* A cancelling row moves to cancelled.
LEMMA FinalizeCancellationFollows ==
    ASSUME OwnershipInv, IndInv', NEW w \in Workers, FinalizeCancellation(w)
    PROVE  WorkerMoves(w)
<1>1. pc[w] # "idle"
  BY DEF FinalizeCancellation
<1>2. Alone(w)
  BY <1>1, BusyWorker, ThreadsAssumption DEF Alone, FinalizeCancellation, UpdateIfStatus, OrRaise, ThreadType, CounterType
<1>3. \A j \in Jobs : row'[j] # row[j] =>
          j = job[w] /\ (pc[w] \in OwnerPcs \/ row[j] \in {"queued", "garbled"})
  BY <1>1, BusyWorker DEF FinalizeCancellation, UpdateIfStatus, OrRaise, TableType, OwnerPcs
<1>4. ASSUME corruptions = 0
      PROVE  /\ Follows(w)'
             /\ \A j \in Jobs : row'[j] # "garbled"
  BY <1>1, <1>4, BusyWorker, GuardedWrites
     DEF FinalizeCancellation, UpdateIfStatus, OrRaise, TableType, ThreadType, CounterType, Follows, IntactIsClean, Decodable,
         Finished, RowStatuses, ConvergePcs, ENDING_STATUSES, ACTIVE_JOB_STATUSES, JOB_STATUSES, TERMINAL_JOB_STATUSES
<1>5. ASSUME corruptions = 0, NEW j \in Jobs
      PROVE  token'[j] = "set" => token[j] = "set"
  BY <1>1, <1>5, BusyWorker DEF FinalizeCancellation, UpdateIfStatus, OrRaise, MemoryType
<1>6. ASSUME corruptions = 0, NEW j \in Jobs, faults' < 2, Begun(j)',
             row'[j] # row[j] \/ Owns(w, j)
      PROVE  Owns(w, j)'
  BY <1>1, <1>6, BusyWorker, GuardedWrites
     DEF FinalizeCancellation, UpdateIfStatus, OrRaise, TableType, ThreadType, CounterType, Follows, Owns, OwnerPcs, Begun,
         Finished, RowStatuses, ConvergePcs, ENDING_STATUSES, ACTIVE_JOB_STATUSES, JOB_STATUSES, TERMINAL_JOB_STATUSES
<1> QED
  BY <1>2, <1>3, <1>4, <1>5, <1>6 DEF WorkerMoves

\* The resolution of a failure first tries a cancellation.
LEMMA ResolveClaimFailureFollows ==
    ASSUME OwnershipInv, IndInv', NEW w \in Workers, ResolveClaimFailure(w)
    PROVE  WorkerMoves(w)
<1>1. pc[w] # "idle"
  BY DEF ResolveClaimFailure
<1>2. Alone(w)
  BY <1>1, BusyWorker, ThreadsAssumption DEF Alone, ResolveClaimFailure, UpdateIfStatus, ThreadType, CounterType
<1>3. \A j \in Jobs : row'[j] # row[j] =>
          j = job[w] /\ (pc[w] \in OwnerPcs \/ row[j] \in {"queued", "garbled"})
  BY <1>1, BusyWorker DEF ResolveClaimFailure, UpdateIfStatus, TableType, OwnerPcs
<1>4. ASSUME corruptions = 0
      PROVE  /\ Follows(w)'
             /\ \A j \in Jobs : row'[j] # "garbled"
  BY <1>1, <1>4, BusyWorker, GuardedWrites
     DEF ResolveClaimFailure, UpdateIfStatus, TableType, ThreadType, CounterType, Follows, IntactIsClean, Decodable,
         Finished, RowStatuses, ConvergePcs, ENDING_STATUSES, ACTIVE_JOB_STATUSES, JOB_STATUSES, TERMINAL_JOB_STATUSES
<1>5. ASSUME corruptions = 0, NEW j \in Jobs
      PROVE  token'[j] = "set" => token[j] = "set"
  BY <1>1, <1>5, BusyWorker DEF ResolveClaimFailure, UpdateIfStatus, MemoryType
<1>6. ASSUME corruptions = 0, NEW j \in Jobs, faults' < 2, Begun(j)',
             row'[j] # row[j] \/ Owns(w, j)
      PROVE  Owns(w, j)'
  BY <1>1, <1>6, BusyWorker, GuardedWrites
     DEF ResolveClaimFailure, UpdateIfStatus, TableType, ThreadType, CounterType, Follows, Owns, OwnerPcs, Begun,
         Finished, RowStatuses, ConvergePcs, ENDING_STATUSES, ACTIVE_JOB_STATUSES, JOB_STATUSES, TERMINAL_JOB_STATUSES
<1> QED
  BY <1>2, <1>3, <1>4, <1>5, <1>6 DEF WorkerMoves

\* The resolution of a failure leaves a begun row only to a second one.
LEMMA ResolveMarkFailedFollows ==
    ASSUME OwnershipInv, IndInv', NEW w \in Workers, ResolveMarkFailed(w)
    PROVE  WorkerMoves(w)
<1>1. pc[w] # "idle"
  BY DEF ResolveMarkFailed
<1>2. Alone(w)
  BY <1>1, BusyWorker, ThreadsAssumption DEF Alone, ResolveMarkFailed, UpdateIfStatus, ThreadType, CounterType
<1>3. \A j \in Jobs : row'[j] # row[j] =>
          j = job[w] /\ (pc[w] \in OwnerPcs \/ row[j] \in {"queued", "garbled"})
  BY <1>1, BusyWorker DEF ResolveMarkFailed, UpdateIfStatus, TableType, OwnerPcs
<1>4. ASSUME corruptions = 0
      PROVE  /\ Follows(w)'
             /\ \A j \in Jobs : row'[j] # "garbled"
  BY <1>1, <1>4, BusyWorker, GuardedWrites
     DEF ResolveMarkFailed, UpdateIfStatus, TableType, ThreadType, CounterType, Follows, IntactIsClean, Decodable,
         Finished, RowStatuses, ConvergePcs, ENDING_STATUSES, ACTIVE_JOB_STATUSES, JOB_STATUSES, TERMINAL_JOB_STATUSES
<1>5. ASSUME corruptions = 0, NEW j \in Jobs
      PROVE  token'[j] = "set" => token[j] = "set"
  BY <1>1, <1>5, BusyWorker DEF ResolveMarkFailed, UpdateIfStatus, MemoryType
<1>6. ASSUME corruptions = 0, NEW j \in Jobs, faults' < 2, Begun(j)',
             row'[j] # row[j] \/ Owns(w, j)
      PROVE  Owns(w, j)'
  BY <1>1, <1>6, BusyWorker, GuardedWrites
     DEF ResolveMarkFailed, UpdateIfStatus, TableType, ThreadType, CounterType, Follows, Owns, OwnerPcs, Begun,
         Finished, RowStatuses, ConvergePcs, ENDING_STATUSES, ACTIVE_JOB_STATUSES, JOB_STATUSES, TERMINAL_JOB_STATUSES
<1> QED
  BY <1>2, <1>3, <1>4, <1>5, <1>6 DEF WorkerMoves

\* The end of a job drops its event.
LEMMA EndJobFollows ==
    ASSUME OwnershipInv, IndInv', NEW w \in Workers, EndJob(w)
    PROVE  WorkerMoves(w)
<1>1. pc[w] # "idle"
  BY DEF EndJob
<1>2. Alone(w)
  BY <1>1, BusyWorker, ThreadsAssumption DEF Alone, EndJob, ThreadType, CounterType
<1>3. \A j \in Jobs : row'[j] # row[j] =>
          j = job[w] /\ (pc[w] \in OwnerPcs \/ row[j] \in {"queued", "garbled"})
  BY <1>1, BusyWorker DEF EndJob, TableType, OwnerPcs
<1>4. ASSUME corruptions = 0
      PROVE  /\ Follows(w)'
             /\ \A j \in Jobs : row'[j] # "garbled"
  BY <1>1, <1>4, BusyWorker, GuardedWrites
     DEF EndJob, TableType, ThreadType, CounterType, Follows, IntactIsClean, Decodable,
         Finished, RowStatuses, ConvergePcs, ENDING_STATUSES, ACTIVE_JOB_STATUSES, JOB_STATUSES, TERMINAL_JOB_STATUSES
<1>5. ASSUME corruptions = 0, NEW j \in Jobs
      PROVE  token'[j] = "set" => token[j] = "set"
  BY <1>1, <1>5, BusyWorker DEF EndJob, MemoryType
<1>6. ASSUME corruptions = 0, NEW j \in Jobs, faults' < 2, Begun(j)',
             row'[j] # row[j] \/ Owns(w, j)
      PROVE  Owns(w, j)'
  BY <1>1, <1>6, BusyWorker, GuardedWrites
     DEF EndJob, TableType, ThreadType, CounterType, Follows, Owns, OwnerPcs, Begun,
         Finished, RowStatuses, ConvergePcs, ENDING_STATUSES, ACTIVE_JOB_STATUSES, JOB_STATUSES, TERMINAL_JOB_STATUSES
<1> QED
  BY <1>2, <1>3, <1>4, <1>5, <1>6 DEF WorkerMoves

\* A finished job is converged by its runner thread.
LEMMA WorkerConvergeEffectsFollows ==
    ASSUME OwnershipInv, IndInv', NEW w \in Workers, ConvergeEffects(w)
    PROVE  WorkerMoves(w)
<1>1. pc[w] # "idle"
  BY DEF ConvergeEffects
<1>2. Alone(w)
  BY <1>1, BusyWorker, ThreadsAssumption DEF Alone, ConvergeEffects, AfterConverge, ThreadType, CounterType
<1>3. \A j \in Jobs : row'[j] # row[j] =>
          j = job[w] /\ (pc[w] \in OwnerPcs \/ row[j] \in {"queued", "garbled"})
  BY <1>1, BusyWorker DEF ConvergeEffects, AfterConverge, TableType, OwnerPcs
<1>4. ASSUME corruptions = 0
      PROVE  /\ Follows(w)'
             /\ \A j \in Jobs : row'[j] # "garbled"
  BY <1>1, <1>4, BusyWorker, GuardedWrites
     DEF ConvergeEffects, AfterConverge, TableType, ThreadType, CounterType, Follows, IntactIsClean, Decodable,
         Finished, RowStatuses, ConvergePcs, ENDING_STATUSES, ACTIVE_JOB_STATUSES, JOB_STATUSES, TERMINAL_JOB_STATUSES
<1>5. ASSUME corruptions = 0, NEW j \in Jobs
      PROVE  token'[j] = "set" => token[j] = "set"
  BY <1>1, <1>5, BusyWorker DEF ConvergeEffects, AfterConverge, MemoryType
<1>6. ASSUME corruptions = 0, NEW j \in Jobs, faults' < 2, Begun(j)',
             row'[j] # row[j] \/ Owns(w, j)
      PROVE  Owns(w, j)'
  BY <1>1, <1>6, BusyWorker, GuardedWrites
     DEF ConvergeEffects, AfterConverge, TableType, ThreadType, CounterType, Follows, Owns, OwnerPcs, Begun,
         Finished, RowStatuses, ConvergePcs, ENDING_STATUSES, ACTIVE_JOB_STATUSES, JOB_STATUSES, TERMINAL_JOB_STATUSES
<1> QED
  BY <1>2, <1>3, <1>4, <1>5, <1>6 DEF WorkerMoves

\* A converged job is recorded by its runner thread.
LEMMA WorkerMarkCompletionDoneFollows ==
    ASSUME OwnershipInv, IndInv', NEW w \in Workers, MarkCompletionDone(w)
    PROVE  WorkerMoves(w)
<1>1. pc[w] # "idle"
  BY DEF MarkCompletionDone
<1>2. Alone(w)
  BY <1>1, BusyWorker, ThreadsAssumption DEF Alone, MarkCompletionDone, AfterConverge, ThreadType, CounterType
<1>3. \A j \in Jobs : row'[j] # row[j] =>
          j = job[w] /\ (pc[w] \in OwnerPcs \/ row[j] \in {"queued", "garbled"})
  BY <1>1, BusyWorker DEF MarkCompletionDone, AfterConverge, TableType, OwnerPcs
<1>4. ASSUME corruptions = 0
      PROVE  /\ Follows(w)'
             /\ \A j \in Jobs : row'[j] # "garbled"
  BY <1>1, <1>4, BusyWorker, GuardedWrites
     DEF MarkCompletionDone, AfterConverge, TableType, ThreadType, CounterType, Follows, IntactIsClean, Decodable,
         Finished, RowStatuses, ConvergePcs, ENDING_STATUSES, ACTIVE_JOB_STATUSES, JOB_STATUSES, TERMINAL_JOB_STATUSES
<1>5. ASSUME corruptions = 0, NEW j \in Jobs
      PROVE  token'[j] = "set" => token[j] = "set"
  BY <1>1, <1>5, BusyWorker DEF MarkCompletionDone, AfterConverge, MemoryType
<1>6. ASSUME corruptions = 0, NEW j \in Jobs, faults' < 2, Begun(j)',
             row'[j] # row[j] \/ Owns(w, j)
      PROVE  Owns(w, j)'
  BY <1>1, <1>6, BusyWorker, GuardedWrites
     DEF MarkCompletionDone, AfterConverge, TableType, ThreadType, CounterType, Follows, Owns, OwnerPcs, Begun,
         Finished, RowStatuses, ConvergePcs, ENDING_STATUSES, ACTIVE_JOB_STATUSES, JOB_STATUSES, TERMINAL_JOB_STATUSES
<1> QED
  BY <1>2, <1>3, <1>4, <1>5, <1>6 DEF WorkerMoves

-----------------------------------------------------------------------------
(* Moves of a client *)

\* What the guarded write of a cancel call makes of the row.
LEMMA GuardedCancels ==
    ASSUME NEW s, NEW seenThen, Admits(s, {seenThen}, CancelTarget(seenThen))
    PROVE  /\ s = seenThen
           /\ CancelTarget(seenThen) \in ENDING_STATUSES
           /\ CancelTarget(seenThen) = "cancel_requested" =>
                  s \in ACTIVE_JOB_STATUSES \ {"queued"}
  BY DEF Admits, is_valid_transition, ALLOWED_TRANSITIONS, JOB_STATUSES, CancelTarget,
     ACTIVE_JOB_STATUSES, TERMINAL_JOB_STATUSES, ENDING_STATUSES

\* A cancel call under way concerns a stored job, in a process that is up.
LEMMA BusyClient ==
    ASSUME OwnershipInv, NEW c \in Clients, pc[c] # "idle"
    PROVE  /\ c \in Threads /\ job[c] \in Jobs /\ Up
           /\ row[job[c]] \in RowStatuses \ {"absent"}
           /\ corruptions = 0 => Decodable(job[c])
           /\ corruptions = 0 /\ pc[c] \in {"reread", "signal", "signal_changed"} =>
                  row[job[c]] \in ENDING_STATUSES
<1>1. c \in Threads /\ c # Boot
  BY ThreadsAssumption
<1>2. job[c] \in Jobs
  BY <1>1 DEF HoldsJob, HomePcs, ThreadType, ClientPcs, BootPcs, ConvergePcs
<1> QED
  BY <1>1, <1>2 DEF DownIsQuiet, CancelsAreRecorded, IntactIsClean, Decodable, TableType

\* A cancel call begins with a stored job.
LEMMA CancelJobFollows ==
    ASSUME OwnershipInv, IndInv', NEW c \in Clients, NEW j \in Jobs, CancelJob(c, j)
    PROVE  ClientMoves(c)
<1>1. Alone(c)
  BY ThreadsAssumption DEF Alone, CancelJob, ThreadType, CounterType
<1>2. pc'[c] = "cancel" /\ job'[c] = j /\ UNCHANGED <<row, token>>
  BY ThreadsAssumption DEF CancelJob, ThreadType
<1> QED
  BY <1>1, <1>2 DEF ClientMoves, CancelJob, Begun

\* A cancel call finds a job to write, or one that is ending.
LEMMA CancelReadFollows ==
    ASSUME OwnershipInv, IndInv', NEW c \in Clients, CancelRead(c)
    PROVE  ClientMoves(c)
<1>1. pc[c] # "idle"
  BY DEF CancelRead
<1>2. Alone(c)
  BY <1>1, BusyClient, ThreadsAssumption DEF Alone, CancelRead, ThreadType, CounterType
<1>3. pc'[c] # "idle" => row'[job'[c]] # "absent"
  BY <1>1, BusyClient DEF CancelRead, ThreadType, TableType
<1>4. ASSUME corruptions = 0, NEW j \in Jobs
      PROVE  /\ row'[j] # row[j] => row'[j] \in ENDING_STATUSES
             /\ Begun(j)' => Begun(j)
             /\ token'[j] = "set" => token[j] = "set" \/ row'[j] \in ENDING_STATUSES
  BY <1>1, <1>4, BusyClient
     DEF CancelRead, TableType, MemoryType, Begun
<1>5. ASSUME corruptions = 0, pc'[c] \in {"reread", "signal", "signal_changed"}
      PROVE  row'[job'[c]] \in ENDING_STATUSES
  <2>1. /\ row' = row /\ job'[c] = job[c]
        /\ row[job[c]] \notin INTERRUPTED_JOB_STATUSES \cup {"queued"}
    BY <1>1, <1>5, BusyClient DEF CancelRead, ThreadType
  <2> QED
    BY <1>1, <1>5, <2>1, BusyClient DEF Decodable, RowStatuses, INTERRUPTED_JOB_STATUSES,
       ENDING_STATUSES, JOB_STATUSES, TERMINAL_JOB_STATUSES
<1> QED
  BY <1>2, <1>3, <1>4, <1>5 DEF ClientMoves

\* A cancel call writes a job that is queued or begun.
LEMMA CancelCasFollows ==
    ASSUME OwnershipInv, IndInv', NEW c \in Clients, CancelCas(c)
    PROVE  ClientMoves(c)
<1>1. pc[c] # "idle"
  BY DEF CancelCas
<1>2. Alone(c)
  BY <1>1, BusyClient, ThreadsAssumption DEF Alone, CancelCas, ThreadType, CounterType
<1>3. pc'[c] # "idle" => row'[job'[c]] # "absent"
  BY <1>1, BusyClient, GuardedCancels DEF CancelCas, ThreadType, TableType, ENDING_STATUSES, TERMINAL_JOB_STATUSES
<1>4. ASSUME corruptions = 0, NEW j \in Jobs
      PROVE  /\ row'[j] # row[j] => row'[j] \in ENDING_STATUSES
             /\ Begun(j)' => Begun(j)
             /\ token'[j] = "set" => token[j] = "set" \/ row'[j] \in ENDING_STATUSES
  BY <1>1, <1>4, BusyClient, GuardedCancels
     DEF CancelCas, TableType, MemoryType, Begun, ENDING_STATUSES, ACTIVE_JOB_STATUSES, JOB_STATUSES, TERMINAL_JOB_STATUSES
<1>5. ASSUME corruptions = 0, pc'[c] \in {"reread", "signal", "signal_changed"}
      PROVE  row'[job'[c]] \in ENDING_STATUSES
  BY <1>1, <1>5, BusyClient, GuardedCancels
     DEF CancelCas, TableType, ThreadType, ENDING_STATUSES
<1> QED
  BY <1>2, <1>3, <1>4, <1>5 DEF ClientMoves

\* A cancel call reads back what it wrote.
LEMMA CancelRereadFollows ==
    ASSUME OwnershipInv, IndInv', NEW c \in Clients, CancelReread(c)
    PROVE  ClientMoves(c)
<1>1. pc[c] # "idle"
  BY DEF CancelReread
<1>2. Alone(c)
  BY <1>1, BusyClient, ThreadsAssumption DEF Alone, CancelReread, ThreadType, CounterType
<1>3. pc'[c] # "idle" => row'[job'[c]] # "absent"
  BY <1>1, BusyClient DEF CancelReread, ThreadType, TableType
<1>4. ASSUME corruptions = 0, NEW j \in Jobs
      PROVE  /\ row'[j] # row[j] => row'[j] \in ENDING_STATUSES
             /\ Begun(j)' => Begun(j)
             /\ token'[j] = "set" => token[j] = "set" \/ row'[j] \in ENDING_STATUSES
  BY <1>1, <1>4, BusyClient
     DEF CancelReread, TableType, MemoryType, Begun
<1>5. ASSUME corruptions = 0, pc'[c] \in {"reread", "signal", "signal_changed"}
      PROVE  row'[job'[c]] \in ENDING_STATUSES
  BY <1>1, <1>5, BusyClient
     DEF CancelReread, TableType, ThreadType, ENDING_STATUSES
<1> QED
  BY <1>2, <1>3, <1>4, <1>5 DEF ClientMoves

\* A cancel call signals a job that is ending.
LEMMA CancelSignalFollows ==
    ASSUME OwnershipInv, IndInv', NEW c \in Clients, CancelSignal(c)
    PROVE  ClientMoves(c)
<1>1. pc[c] # "idle"
  BY DEF CancelSignal
<1>2. Alone(c)
  BY <1>1, BusyClient, ThreadsAssumption DEF Alone, CancelSignal, ThreadType, CounterType
<1>3. pc'[c] # "idle" => row'[job'[c]] # "absent"
  BY <1>1, BusyClient DEF CancelSignal, ThreadType, TableType
<1>4. ASSUME corruptions = 0, NEW j \in Jobs
      PROVE  /\ row'[j] # row[j] => row'[j] \in ENDING_STATUSES
             /\ Begun(j)' => Begun(j)
             /\ token'[j] = "set" => token[j] = "set" \/ row'[j] \in ENDING_STATUSES
  BY <1>1, <1>4, BusyClient
     DEF CancelSignal, TableType, MemoryType, Begun
<1>5. ASSUME corruptions = 0, pc'[c] \in {"reread", "signal", "signal_changed"}
      PROVE  row'[job'[c]] \in ENDING_STATUSES
  BY <1>1, <1>5, BusyClient
     DEF CancelSignal, TableType, ThreadType, ENDING_STATUSES
<1> QED
  BY <1>2, <1>3, <1>4, <1>5 DEF ClientMoves

\* A finished job is converged by the client that cancelled it.
LEMMA ClientConvergeEffectsFollows ==
    ASSUME OwnershipInv, IndInv', NEW c \in Clients, ConvergeEffects(c)
    PROVE  ClientMoves(c)
<1>1. pc[c] # "idle"
  BY DEF ConvergeEffects
<1>2. Alone(c)
  BY <1>1, BusyClient, ThreadsAssumption DEF Alone, ConvergeEffects, AfterConverge, ThreadType, CounterType
<1>3. pc'[c] # "idle" => row'[job'[c]] # "absent"
  BY <1>1, BusyClient, ThreadsAssumption DEF ConvergeEffects, AfterConverge, ThreadType, TableType
<1>4. ASSUME corruptions = 0, NEW j \in Jobs
      PROVE  /\ row'[j] # row[j] => row'[j] \in ENDING_STATUSES
             /\ Begun(j)' => Begun(j)
             /\ token'[j] = "set" => token[j] = "set" \/ row'[j] \in ENDING_STATUSES
  BY <1>1, <1>4, BusyClient, ThreadsAssumption
     DEF ConvergeEffects, AfterConverge, TableType, MemoryType, Begun
<1>5. ASSUME corruptions = 0, pc'[c] \in {"reread", "signal", "signal_changed"}
      PROVE  row'[job'[c]] \in ENDING_STATUSES
  BY <1>1, <1>5, BusyClient, ThreadsAssumption
     DEF ConvergeEffects, AfterConverge, TableType, ThreadType, ENDING_STATUSES
<1> QED
  BY <1>2, <1>3, <1>4, <1>5 DEF ClientMoves

\* A converged job is recorded by the client that cancelled it.
LEMMA ClientMarkCompletionDoneFollows ==
    ASSUME OwnershipInv, IndInv', NEW c \in Clients, MarkCompletionDone(c)
    PROVE  ClientMoves(c)
<1>1. pc[c] # "idle"
  BY DEF MarkCompletionDone
<1>2. Alone(c)
  BY <1>1, BusyClient, ThreadsAssumption DEF Alone, MarkCompletionDone, AfterConverge, ThreadType, CounterType
<1>3. pc'[c] # "idle" => row'[job'[c]] # "absent"
  BY <1>1, BusyClient, ThreadsAssumption DEF MarkCompletionDone, AfterConverge, ThreadType, TableType
<1>4. ASSUME corruptions = 0, NEW j \in Jobs
      PROVE  /\ row'[j] # row[j] => row'[j] \in ENDING_STATUSES
             /\ Begun(j)' => Begun(j)
             /\ token'[j] = "set" => token[j] = "set" \/ row'[j] \in ENDING_STATUSES
  BY <1>1, <1>4, BusyClient, ThreadsAssumption
     DEF MarkCompletionDone, AfterConverge, TableType, MemoryType, Begun
<1>5. ASSUME corruptions = 0, pc'[c] \in {"reread", "signal", "signal_changed"}
      PROVE  row'[job'[c]] \in ENDING_STATUSES
  BY <1>1, <1>5, BusyClient, ThreadsAssumption
     DEF MarkCompletionDone, AfterConverge, TableType, ThreadType, ENDING_STATUSES
<1> QED
  BY <1>2, <1>3, <1>4, <1>5 DEF ClientMoves

-----------------------------------------------------------------------------
(* Moves of neither *)

\* A row is inserted.
LEMMA CreateJobFollows ==
    ASSUME OwnershipInv, IndInv', NEW j \in Jobs, CreateJob(j)
    PROVE  OtherMoves
<1>1. \A t \in Workers \cup Clients : t \in Threads /\ t # Boot /\ t # Retry
  BY ThreadsAssumption
<1>2. /\ \A t \in Workers \cup Clients : pc'[t] = pc[t] /\ job'[t] = job[t]
      /\ UNCHANGED token
      /\ faults' >= faults
  BY <1>1 DEF CreateJob, ThreadType, CounterType
<1>3. ASSUME corruptions' = 0
      PROVE  /\ corruptions = 0
             /\ \A k \in Jobs : row'[k] # row[k] =>
                    \/ row[k] = "absent" /\ row'[k] = "queued"
                    \/ ~Up /\ row'[k] \in ENDING_STATUSES /\ ~Begun(k)'
  BY <1>3, ThreadsAssumption DEF CreateJob, TableType, IntactIsClean, CounterType, SubmittedOnce
<1>4. Up' => Up \/ (pc[Boot] = "requeue" /\ row' = row)
  BY ThreadsAssumption DEF CreateJob, Up, ThreadType
<1>5. DownIsQuiet'
  BY <1>2, ThreadsAssumption DEF CreateJob, DownIsQuiet, Up, ThreadType, MemoryType
<1>6. IntactIsClean'
  BY <1>3, ThreadsAssumption DEF CreateJob, IntactIsClean, TableType, ThreadType, MemoryType
<1>7. RecoveryFinishes'
  BY <1>3, ThreadsAssumption
     DEF CreateJob, RecoveryFinishes, IntactIsClean, Up, Begun, BootPcs, ConvergePcs,
         ThreadType, TableType, MemoryType, ACTIVE_JOB_STATUSES, JOB_STATUSES, TERMINAL_JOB_STATUSES
<1> QED
  BY <1>2, <1>3, <1>4, <1>5, <1>6, <1>7 DEF OtherMoves

\* A new job is read.
LEMMA EnqueueReadFollows ==
    ASSUME OwnershipInv, IndInv', NEW j \in Jobs, EnqueueRead(j)
    PROVE  OtherMoves
<1>1. \A t \in Workers \cup Clients : t \in Threads /\ t # Boot /\ t # Retry
  BY ThreadsAssumption
<1>2. /\ \A t \in Workers \cup Clients : pc'[t] = pc[t] /\ job'[t] = job[t]
      /\ UNCHANGED token
      /\ faults' >= faults
  BY <1>1 DEF EnqueueRead, ThreadType, CounterType
<1>3. ASSUME corruptions' = 0
      PROVE  /\ corruptions = 0
             /\ \A k \in Jobs : row'[k] # row[k] =>
                    \/ row[k] = "absent" /\ row'[k] = "queued"
                    \/ ~Up /\ row'[k] \in ENDING_STATUSES /\ ~Begun(k)'
  BY <1>3, ThreadsAssumption DEF EnqueueRead, TableType, IntactIsClean, CounterType
<1>4. Up' => Up \/ (pc[Boot] = "requeue" /\ row' = row)
  BY ThreadsAssumption DEF EnqueueRead, Up, ThreadType
<1>5. DownIsQuiet'
  BY <1>2, ThreadsAssumption DEF EnqueueRead, DownIsQuiet, Up, ThreadType, MemoryType
<1>6. IntactIsClean'
  BY <1>3, ThreadsAssumption DEF EnqueueRead, IntactIsClean, TableType, ThreadType, MemoryType
<1>7. RecoveryFinishes'
  BY <1>3, ThreadsAssumption
     DEF EnqueueRead, RecoveryFinishes, IntactIsClean, Up, Begun, BootPcs, ConvergePcs,
         ThreadType, TableType, MemoryType
<1> QED
  BY <1>2, <1>3, <1>4, <1>5, <1>6, <1>7 DEF OtherMoves

\* A new job is queued.
LEMMA EnqueuePushFollows ==
    ASSUME OwnershipInv, IndInv', NEW j \in Jobs, EnqueuePush(j)
    PROVE  OtherMoves
<1>1. \A t \in Workers \cup Clients : t \in Threads /\ t # Boot /\ t # Retry
  BY ThreadsAssumption
<1>2. /\ \A t \in Workers \cup Clients : pc'[t] = pc[t] /\ job'[t] = job[t]
      /\ UNCHANGED token
      /\ faults' >= faults
  BY <1>1 DEF EnqueuePush, ThreadType, CounterType
<1>3. ASSUME corruptions' = 0
      PROVE  /\ corruptions = 0
             /\ \A k \in Jobs : row'[k] # row[k] =>
                    \/ row[k] = "absent" /\ row'[k] = "queued"
                    \/ ~Up /\ row'[k] \in ENDING_STATUSES /\ ~Begun(k)'
  BY <1>3, ThreadsAssumption DEF EnqueuePush, TableType, IntactIsClean, CounterType
<1>4. Up' => Up \/ (pc[Boot] = "requeue" /\ row' = row)
  BY ThreadsAssumption DEF EnqueuePush, Up, ThreadType
<1>5. DownIsQuiet'
  BY <1>2, ThreadsAssumption DEF EnqueuePush, DownIsQuiet, Up, ThreadType, MemoryType
<1>6. IntactIsClean'
  BY <1>3, ThreadsAssumption DEF EnqueuePush, IntactIsClean, TableType, ThreadType, MemoryType
<1>7. RecoveryFinishes'
  BY <1>3, ThreadsAssumption
     DEF EnqueuePush, RecoveryFinishes, IntactIsClean, Up, Begun, BootPcs, ConvergePcs,
         ThreadType, TableType, MemoryType
<1> QED
  BY <1>2, <1>3, <1>4, <1>5, <1>6, <1>7 DEF OtherMoves

\* A pending completion is taken up.
LEMMA RetryPendingFollows ==
    ASSUME OwnershipInv, IndInv', NEW j \in Jobs, RetryPending(j)
    PROVE  OtherMoves
<1>1. \A t \in Workers \cup Clients : t \in Threads /\ t # Boot /\ t # Retry
  BY ThreadsAssumption
<1>2. /\ \A t \in Workers \cup Clients : pc'[t] = pc[t] /\ job'[t] = job[t]
      /\ UNCHANGED token
      /\ faults' >= faults
  BY <1>1 DEF RetryPending, ThreadType, CounterType
<1>3. ASSUME corruptions' = 0
      PROVE  /\ corruptions = 0
             /\ \A k \in Jobs : row'[k] # row[k] =>
                    \/ row[k] = "absent" /\ row'[k] = "queued"
                    \/ ~Up /\ row'[k] \in ENDING_STATUSES /\ ~Begun(k)'
  BY <1>3, ThreadsAssumption DEF RetryPending, TableType, IntactIsClean, CounterType
<1>4. Up' => Up \/ (pc[Boot] = "requeue" /\ row' = row)
  BY ThreadsAssumption DEF RetryPending, Up, ThreadType
<1>5. DownIsQuiet'
  BY <1>2, ThreadsAssumption DEF RetryPending, DownIsQuiet, Up, ThreadType, MemoryType
<1>6. IntactIsClean'
  BY <1>3, ThreadsAssumption DEF RetryPending, IntactIsClean, TableType, ThreadType, MemoryType, ConvergePcs
<1>7. RecoveryFinishes'
  BY <1>3, ThreadsAssumption
     DEF RetryPending, RecoveryFinishes, IntactIsClean, Up, Begun, BootPcs, ConvergePcs,
         ThreadType, TableType, MemoryType
<1> QED
  BY <1>2, <1>3, <1>4, <1>5, <1>6, <1>7 DEF OtherMoves

\* A tick of the retry loop begins.
LEMMA TickStartFollows ==
    ASSUME OwnershipInv, IndInv', TickStart
    PROVE  OtherMoves
<1>1. \A t \in Workers \cup Clients : t \in Threads /\ t # Boot /\ t # Retry
  BY ThreadsAssumption
<1>2. /\ \A t \in Workers \cup Clients : pc'[t] = pc[t] /\ job'[t] = job[t]
      /\ UNCHANGED token
      /\ faults' >= faults
  BY <1>1 DEF TickStart, ThreadType, CounterType
<1>3. ASSUME corruptions' = 0
      PROVE  /\ corruptions = 0
             /\ \A k \in Jobs : row'[k] # row[k] =>
                    \/ row[k] = "absent" /\ row'[k] = "queued"
                    \/ ~Up /\ row'[k] \in ENDING_STATUSES /\ ~Begun(k)'
  BY <1>3, ThreadsAssumption DEF TickStart, TableType, IntactIsClean, CounterType
<1>4. Up' => Up \/ (pc[Boot] = "requeue" /\ row' = row)
  BY ThreadsAssumption DEF TickStart, Up, ThreadType
<1>5. DownIsQuiet'
  BY <1>2, ThreadsAssumption DEF TickStart, DownIsQuiet, Up, ThreadType, MemoryType
<1>6. IntactIsClean'
  BY <1>3, ThreadsAssumption DEF TickStart, IntactIsClean, TableType, ThreadType, MemoryType
<1>7. RecoveryFinishes'
  BY <1>3, ThreadsAssumption
     DEF TickStart, RecoveryFinishes, IntactIsClean, Up, Begun, BootPcs, ConvergePcs,
         ThreadType, TableType, MemoryType
<1> QED
  BY <1>2, <1>3, <1>4, <1>5, <1>6, <1>7 DEF OtherMoves

\* The tick reads a candidate.
LEMMA TickVisitFollows ==
    ASSUME OwnershipInv, IndInv', NEW j \in Jobs, TickVisit(j)
    PROVE  OtherMoves
<1>1. \A t \in Workers \cup Clients : t \in Threads /\ t # Boot /\ t # Retry
  BY ThreadsAssumption
<1>2. /\ \A t \in Workers \cup Clients : pc'[t] = pc[t] /\ job'[t] = job[t]
      /\ UNCHANGED token
      /\ faults' >= faults
  BY <1>1 DEF TickVisit, ThreadType, CounterType
<1>3. ASSUME corruptions' = 0
      PROVE  /\ corruptions = 0
             /\ \A k \in Jobs : row'[k] # row[k] =>
                    \/ row[k] = "absent" /\ row'[k] = "queued"
                    \/ ~Up /\ row'[k] \in ENDING_STATUSES /\ ~Begun(k)'
  BY <1>3, ThreadsAssumption DEF TickVisit, TableType, IntactIsClean, CounterType, ConvergePcs
<1>4. Up' => Up \/ (pc[Boot] = "requeue" /\ row' = row)
  BY ThreadsAssumption DEF TickVisit, Up, ThreadType
<1>5. DownIsQuiet'
  BY <1>2, ThreadsAssumption DEF TickVisit, DownIsQuiet, Up, ThreadType, MemoryType
<1>6. IntactIsClean'
  BY <1>3, ThreadsAssumption DEF TickVisit, IntactIsClean, TableType, ThreadType, MemoryType, ConvergePcs
<1>7. RecoveryFinishes'
  BY <1>3, ThreadsAssumption
     DEF TickVisit, RecoveryFinishes, IntactIsClean, Up, Begun, BootPcs, ConvergePcs,
         ThreadType, TableType, MemoryType
<1> QED
  BY <1>2, <1>3, <1>4, <1>5, <1>6, <1>7 DEF OtherMoves

\* The tick quarantines a candidate again.
LEMMA TickRequarantineFollows ==
    ASSUME OwnershipInv, IndInv', TickRequarantine
    PROVE  OtherMoves
<1>1. \A t \in Workers \cup Clients : t \in Threads /\ t # Boot /\ t # Retry
  BY ThreadsAssumption
<1>2. /\ \A t \in Workers \cup Clients : pc'[t] = pc[t] /\ job'[t] = job[t]
      /\ UNCHANGED token
      /\ faults' >= faults
  BY <1>1 DEF TickRequarantine, Dispose, ThreadType, CounterType
<1>3. ASSUME corruptions' = 0
      PROVE  /\ corruptions = 0
             /\ \A k \in Jobs : row'[k] # row[k] =>
                    \/ row[k] = "absent" /\ row'[k] = "queued"
                    \/ ~Up /\ row'[k] \in ENDING_STATUSES /\ ~Begun(k)'
  BY <1>3, ThreadsAssumption DEF TickRequarantine, Dispose, TableType, IntactIsClean, CounterType, ConvergePcs
<1>4. Up' => Up \/ (pc[Boot] = "requeue" /\ row' = row)
  BY ThreadsAssumption DEF TickRequarantine, Dispose, Up, ThreadType
<1>5. DownIsQuiet'
  BY <1>2, ThreadsAssumption DEF TickRequarantine, Dispose, DownIsQuiet, Up, ThreadType, MemoryType
<1>6. IntactIsClean'
  BY <1>3, ThreadsAssumption DEF TickRequarantine, Dispose, IntactIsClean, TableType, ThreadType, MemoryType, ConvergePcs
<1>7. RecoveryFinishes'
  BY <1>3, ThreadsAssumption
     DEF TickRequarantine, Dispose, RecoveryFinishes, IntactIsClean, Up, Begun, BootPcs, ConvergePcs,
         ThreadType, TableType, MemoryType
<1> QED
  BY <1>2, <1>3, <1>4, <1>5, <1>6, <1>7 DEF OtherMoves

\* The tick resolves a candidate that was repaired.
LEMMA TickResolveRepairedFollows ==
    ASSUME OwnershipInv, IndInv', TickResolveRepaired
    PROVE  OtherMoves
<1>1. \A t \in Workers \cup Clients : t \in Threads /\ t # Boot /\ t # Retry
  BY ThreadsAssumption
<1>2. /\ \A t \in Workers \cup Clients : pc'[t] = pc[t] /\ job'[t] = job[t]
      /\ UNCHANGED token
      /\ faults' >= faults
  BY <1>1 DEF TickResolveRepaired, Dispose, AbandonTick, ThreadType, CounterType
<1>3. ASSUME corruptions' = 0
      PROVE  /\ corruptions = 0
             /\ \A k \in Jobs : row'[k] # row[k] =>
                    \/ row[k] = "absent" /\ row'[k] = "queued"
                    \/ ~Up /\ row'[k] \in ENDING_STATUSES /\ ~Begun(k)'
  BY <1>3, ThreadsAssumption DEF TickResolveRepaired, Dispose, AbandonTick, TableType, IntactIsClean, CounterType, ConvergePcs
<1>4. Up' => Up \/ (pc[Boot] = "requeue" /\ row' = row)
  BY ThreadsAssumption DEF TickResolveRepaired, Dispose, AbandonTick, Up, ThreadType
<1>5. DownIsQuiet'
  BY <1>2, ThreadsAssumption DEF TickResolveRepaired, Dispose, AbandonTick, DownIsQuiet, Up, ThreadType, MemoryType
<1>6. IntactIsClean'
  BY <1>3, ThreadsAssumption DEF TickResolveRepaired, Dispose, AbandonTick, IntactIsClean, TableType, ThreadType, MemoryType, ConvergePcs
<1>7. RecoveryFinishes'
  BY <1>3, ThreadsAssumption
     DEF TickResolveRepaired, Dispose, AbandonTick, RecoveryFinishes, IntactIsClean, Up, Begun, BootPcs, ConvergePcs,
         ThreadType, TableType, MemoryType
<1> QED
  BY <1>2, <1>3, <1>4, <1>5, <1>6, <1>7 DEF OtherMoves

\* The tick ends.
LEMMA TickEndFollows ==
    ASSUME OwnershipInv, IndInv', TickEnd
    PROVE  OtherMoves
<1>1. \A t \in Workers \cup Clients : t \in Threads /\ t # Boot /\ t # Retry
  BY ThreadsAssumption
<1>2. /\ \A t \in Workers \cup Clients : pc'[t] = pc[t] /\ job'[t] = job[t]
      /\ UNCHANGED token
      /\ faults' >= faults
  BY <1>1 DEF TickEnd, ThreadType, CounterType
<1>3. ASSUME corruptions' = 0
      PROVE  /\ corruptions = 0
             /\ \A k \in Jobs : row'[k] # row[k] =>
                    \/ row[k] = "absent" /\ row'[k] = "queued"
                    \/ ~Up /\ row'[k] \in ENDING_STATUSES /\ ~Begun(k)'
  BY <1>3, ThreadsAssumption DEF TickEnd, TableType, IntactIsClean, CounterType
<1>4. Up' => Up \/ (pc[Boot] = "requeue" /\ row' = row)
  BY ThreadsAssumption DEF TickEnd, Up, ThreadType
<1>5. DownIsQuiet'
  BY <1>2, ThreadsAssumption DEF TickEnd, DownIsQuiet, Up, ThreadType, MemoryType
<1>6. IntactIsClean'
  BY <1>3, ThreadsAssumption DEF TickEnd, IntactIsClean, TableType, ThreadType, MemoryType, ConvergePcs
<1>7. RecoveryFinishes'
  BY <1>3, ThreadsAssumption
     DEF TickEnd, RecoveryFinishes, IntactIsClean, Up, Begun, BootPcs, ConvergePcs,
         ThreadType, TableType, MemoryType
<1> QED
  BY <1>2, <1>3, <1>4, <1>5, <1>6, <1>7 DEF OtherMoves

\* Recovery looks for rows that do not decode.
LEMMA BootScanFollows ==
    ASSUME OwnershipInv, IndInv', BootScan
    PROVE  OtherMoves
<1>1. \A t \in Workers \cup Clients : t \in Threads /\ t # Boot /\ t # Retry
  BY ThreadsAssumption
<1>2. /\ \A t \in Workers \cup Clients : pc'[t] = pc[t] /\ job'[t] = job[t]
      /\ UNCHANGED token
      /\ faults' >= faults
  BY <1>1 DEF BootScan, BootStep, ThreadType, CounterType
<1>3. ASSUME corruptions' = 0
      PROVE  /\ corruptions = 0
             /\ \A k \in Jobs : row'[k] # row[k] =>
                    \/ row[k] = "absent" /\ row'[k] = "queued"
                    \/ ~Up /\ row'[k] \in ENDING_STATUSES /\ ~Begun(k)'
  BY <1>3, ThreadsAssumption DEF BootScan, BootStep, TableType, IntactIsClean, CounterType
<1>4. Up' => Up \/ (pc[Boot] = "requeue" /\ row' = row)
  BY ThreadsAssumption DEF BootScan, BootStep, Up, ThreadType
<1>5. DownIsQuiet'
  BY <1>2, ThreadsAssumption DEF BootScan, BootStep, DownIsQuiet, Up, ThreadType, MemoryType
<1>6. IntactIsClean'
  BY <1>3, ThreadsAssumption DEF BootScan, BootStep, IntactIsClean, TableType, ThreadType, MemoryType, Decodable
<1>7. RecoveryFinishes'
  BY <1>3, ThreadsAssumption
     DEF BootScan, BootStep, RecoveryFinishes, IntactIsClean, Up, Begun, BootPcs, ConvergePcs,
         ThreadType, TableType, MemoryType
<1> QED
  BY <1>2, <1>3, <1>4, <1>5, <1>6, <1>7 DEF OtherMoves

\* Recovery quarantines a row.
LEMMA BootQuarantineFollows ==
    ASSUME OwnershipInv, IndInv', NEW j \in Jobs, BootQuarantine(j)
    PROVE  OtherMoves
<1>1. \A t \in Workers \cup Clients : t \in Threads /\ t # Boot /\ t # Retry
  BY ThreadsAssumption
<1>2. /\ \A t \in Workers \cup Clients : pc'[t] = pc[t] /\ job'[t] = job[t]
      /\ UNCHANGED token
      /\ faults' >= faults
  BY <1>1 DEF BootQuarantine, BootVisit, ThreadType, CounterType
<1>3. ASSUME corruptions' = 0
      PROVE  /\ corruptions = 0
             /\ \A k \in Jobs : row'[k] # row[k] =>
                    \/ row[k] = "absent" /\ row'[k] = "queued"
                    \/ ~Up /\ row'[k] \in ENDING_STATUSES /\ ~Begun(k)'
  BY <1>3, ThreadsAssumption DEF BootQuarantine, BootVisit, TableType, IntactIsClean, CounterType
<1>4. Up' => Up \/ (pc[Boot] = "requeue" /\ row' = row)
  BY ThreadsAssumption DEF BootQuarantine, BootVisit, Up, ThreadType
<1>5. DownIsQuiet'
  BY <1>2, ThreadsAssumption DEF BootQuarantine, BootVisit, DownIsQuiet, Up, ThreadType, MemoryType
<1>6. IntactIsClean'
  BY <1>3, ThreadsAssumption DEF BootQuarantine, BootVisit, IntactIsClean, TableType, ThreadType, MemoryType
<1>7. RecoveryFinishes'
  BY <1>3, ThreadsAssumption
     DEF BootQuarantine, BootVisit, RecoveryFinishes, IntactIsClean, Up, Begun, BootPcs, ConvergePcs,
         ThreadType, TableType, MemoryType
<1> QED
  BY <1>2, <1>3, <1>4, <1>5, <1>6, <1>7 DEF OtherMoves

\* Recovery looks for the jobs whose worker is gone.
LEMMA BootListFollows ==
    ASSUME OwnershipInv, IndInv', BootList
    PROVE  OtherMoves
<1>1. \A t \in Workers \cup Clients : t \in Threads /\ t # Boot /\ t # Retry
  BY ThreadsAssumption
<1>2. /\ \A t \in Workers \cup Clients : pc'[t] = pc[t] /\ job'[t] = job[t]
      /\ UNCHANGED token
      /\ faults' >= faults
  BY <1>1 DEF BootList, BootStep, ThreadType, CounterType
<1>3. ASSUME corruptions' = 0
      PROVE  /\ corruptions = 0
             /\ \A k \in Jobs : row'[k] # row[k] =>
                    \/ row[k] = "absent" /\ row'[k] = "queued"
                    \/ ~Up /\ row'[k] \in ENDING_STATUSES /\ ~Begun(k)'
  BY <1>3, ThreadsAssumption DEF BootList, BootStep, TableType, IntactIsClean, CounterType
<1>4. Up' => Up \/ (pc[Boot] = "requeue" /\ row' = row)
  BY ThreadsAssumption DEF BootList, BootStep, Up, ThreadType
<1>5. DownIsQuiet'
  BY <1>2, ThreadsAssumption DEF BootList, BootStep, DownIsQuiet, Up, ThreadType, MemoryType
<1>6. IntactIsClean'
  BY <1>3, ThreadsAssumption DEF BootList, BootStep, IntactIsClean, TableType, ThreadType, MemoryType
<1>7. RecoveryFinishes'
  BY <1>3, ThreadsAssumption
     DEF BootList, BootStep, RecoveryFinishes, IntactIsClean, Up, Begun, BootPcs, ConvergePcs,
         ThreadType, TableType, MemoryType, Decodable
<1> QED
  BY <1>2, <1>3, <1>4, <1>5, <1>6, <1>7 DEF OtherMoves

\* Recovery finishes an interrupted job.
LEMMA BootFinalizeFollows ==
    ASSUME OwnershipInv, IndInv', NEW j \in Jobs, BootFinalize(j)
    PROVE  OtherMoves
<1>1. \A t \in Workers \cup Clients : t \in Threads /\ t # Boot /\ t # Retry
  BY ThreadsAssumption
<1>2. /\ \A t \in Workers \cup Clients : pc'[t] = pc[t] /\ job'[t] = job[t]
      /\ UNCHANGED token
      /\ faults' >= faults
  BY <1>1 DEF BootFinalize, BootVisit, ThreadType, CounterType
<1>3. ASSUME corruptions' = 0
      PROVE  /\ corruptions = 0
             /\ \A k \in Jobs : row'[k] # row[k] =>
                    \/ row[k] = "absent" /\ row'[k] = "queued"
                    \/ ~Up /\ row'[k] \in ENDING_STATUSES /\ ~Begun(k)'
  BY <1>3, ThreadsAssumption DEF BootFinalize, BootVisit, TableType, IntactIsClean, CounterType, Up, QuarantinedStatus, INTERRUPTED_JOB_STATUSES, Begun, ENDING_STATUSES, ACTIVE_JOB_STATUSES, JOB_STATUSES, TERMINAL_JOB_STATUSES
<1>4. Up' => Up \/ (pc[Boot] = "requeue" /\ row' = row)
  BY ThreadsAssumption DEF BootFinalize, BootVisit, Up, ThreadType
<1>5. DownIsQuiet'
  BY <1>2, ThreadsAssumption DEF BootFinalize, BootVisit, DownIsQuiet, Up, ThreadType, MemoryType
<1>6. IntactIsClean'
  BY <1>3, ThreadsAssumption DEF BootFinalize, BootVisit, IntactIsClean, TableType, ThreadType, MemoryType, QuarantinedStatus
<1>7. RecoveryFinishes'
  BY <1>3, ThreadsAssumption
     DEF BootFinalize, BootVisit, RecoveryFinishes, IntactIsClean, Up, Begun, BootPcs, ConvergePcs,
         ThreadType, TableType, MemoryType, QuarantinedStatus, INTERRUPTED_JOB_STATUSES, ENDING_STATUSES, ACTIVE_JOB_STATUSES, JOB_STATUSES, TERMINAL_JOB_STATUSES
<1> QED
  BY <1>2, <1>3, <1>4, <1>5, <1>6, <1>7 DEF OtherMoves

\* Recovery looks for pending completions.
LEMMA BootPendingFollows ==
    ASSUME OwnershipInv, IndInv', BootPending
    PROVE  OtherMoves
<1>1. \A t \in Workers \cup Clients : t \in Threads /\ t # Boot /\ t # Retry
  BY ThreadsAssumption
<1>2. /\ \A t \in Workers \cup Clients : pc'[t] = pc[t] /\ job'[t] = job[t]
      /\ UNCHANGED token
      /\ faults' >= faults
  BY <1>1 DEF BootPending, BootStep, ThreadType, CounterType
<1>3. ASSUME corruptions' = 0
      PROVE  /\ corruptions = 0
             /\ \A k \in Jobs : row'[k] # row[k] =>
                    \/ row[k] = "absent" /\ row'[k] = "queued"
                    \/ ~Up /\ row'[k] \in ENDING_STATUSES /\ ~Begun(k)'
  BY <1>3, ThreadsAssumption DEF BootPending, BootStep, TableType, IntactIsClean, CounterType
<1>4. Up' => Up \/ (pc[Boot] = "requeue" /\ row' = row)
  BY ThreadsAssumption DEF BootPending, BootStep, Up, ThreadType
<1>5. DownIsQuiet'
  BY <1>2, ThreadsAssumption DEF BootPending, BootStep, DownIsQuiet, Up, ThreadType, MemoryType
<1>6. IntactIsClean'
  BY <1>3, ThreadsAssumption DEF BootPending, BootStep, IntactIsClean, TableType, ThreadType, MemoryType
<1>7. RecoveryFinishes'
  BY <1>3, ThreadsAssumption
     DEF BootPending, BootStep, RecoveryFinishes, IntactIsClean, Up, Begun, BootPcs, ConvergePcs,
         ThreadType, TableType, MemoryType
<1> QED
  BY <1>2, <1>3, <1>4, <1>5, <1>6, <1>7 DEF OtherMoves

\* Recovery converges a job.
LEMMA BootConvergeFollows ==
    ASSUME OwnershipInv, IndInv', NEW j \in Jobs, BootConverge(j)
    PROVE  OtherMoves
<1>1. \A t \in Workers \cup Clients : t \in Threads /\ t # Boot /\ t # Retry
  BY ThreadsAssumption
<1>2. /\ \A t \in Workers \cup Clients : pc'[t] = pc[t] /\ job'[t] = job[t]
      /\ UNCHANGED token
      /\ faults' >= faults
  BY <1>1 DEF BootConverge, BootVisit, ThreadType, CounterType
<1>3. ASSUME corruptions' = 0
      PROVE  /\ corruptions = 0
             /\ \A k \in Jobs : row'[k] # row[k] =>
                    \/ row[k] = "absent" /\ row'[k] = "queued"
                    \/ ~Up /\ row'[k] \in ENDING_STATUSES /\ ~Begun(k)'
  BY <1>3, ThreadsAssumption DEF BootConverge, BootVisit, TableType, IntactIsClean, CounterType
<1>4. Up' => Up \/ (pc[Boot] = "requeue" /\ row' = row)
  BY ThreadsAssumption DEF BootConverge, BootVisit, Up, ThreadType
<1>5. DownIsQuiet'
  BY <1>2, ThreadsAssumption DEF BootConverge, BootVisit, DownIsQuiet, Up, ThreadType, MemoryType
<1>6. IntactIsClean'
  BY <1>3, ThreadsAssumption DEF BootConverge, BootVisit, IntactIsClean, TableType, ThreadType, MemoryType
<1>7. RecoveryFinishes'
  BY <1>3, ThreadsAssumption
     DEF BootConverge, BootVisit, RecoveryFinishes, IntactIsClean, Up, Begun, BootPcs, ConvergePcs,
         ThreadType, TableType, MemoryType
<1> QED
  BY <1>2, <1>3, <1>4, <1>5, <1>6, <1>7 DEF OtherMoves

\* Recovery repairs assets and looks for queued jobs.
LEMMA BootAssetsFollows ==
    ASSUME OwnershipInv, IndInv', BootAssets
    PROVE  OtherMoves
<1>1. \A t \in Workers \cup Clients : t \in Threads /\ t # Boot /\ t # Retry
  BY ThreadsAssumption
<1>2. /\ \A t \in Workers \cup Clients : pc'[t] = pc[t] /\ job'[t] = job[t]
      /\ UNCHANGED token
      /\ faults' >= faults
  BY <1>1 DEF BootAssets, BootStep, ThreadType, CounterType
<1>3. ASSUME corruptions' = 0
      PROVE  /\ corruptions = 0
             /\ \A k \in Jobs : row'[k] # row[k] =>
                    \/ row[k] = "absent" /\ row'[k] = "queued"
                    \/ ~Up /\ row'[k] \in ENDING_STATUSES /\ ~Begun(k)'
  BY <1>3, ThreadsAssumption DEF BootAssets, BootStep, TableType, IntactIsClean, CounterType
<1>4. Up' => Up \/ (pc[Boot] = "requeue" /\ row' = row)
  BY ThreadsAssumption DEF BootAssets, BootStep, Up, ThreadType
<1>5. DownIsQuiet'
  BY <1>2, ThreadsAssumption DEF BootAssets, BootStep, DownIsQuiet, Up, ThreadType, MemoryType
<1>6. IntactIsClean'
  BY <1>3, ThreadsAssumption DEF BootAssets, BootStep, IntactIsClean, TableType, ThreadType, MemoryType
<1>7. RecoveryFinishes'
  BY <1>3, ThreadsAssumption
     DEF BootAssets, BootStep, RecoveryFinishes, IntactIsClean, Up, Begun, BootPcs, ConvergePcs,
         ThreadType, TableType, MemoryType
<1> QED
  BY <1>2, <1>3, <1>4, <1>5, <1>6, <1>7 DEF OtherMoves

\* Recovery queues a job.
LEMMA BootEnqueueFollows ==
    ASSUME OwnershipInv, IndInv', NEW j \in Jobs, BootEnqueue(j)
    PROVE  OtherMoves
<1>1. \A t \in Workers \cup Clients : t \in Threads /\ t # Boot /\ t # Retry
  BY ThreadsAssumption
<1>2. /\ \A t \in Workers \cup Clients : pc'[t] = pc[t] /\ job'[t] = job[t]
      /\ UNCHANGED token
      /\ faults' >= faults
  BY <1>1 DEF BootEnqueue, BootVisit, ThreadType, CounterType
<1>3. ASSUME corruptions' = 0
      PROVE  /\ corruptions = 0
             /\ \A k \in Jobs : row'[k] # row[k] =>
                    \/ row[k] = "absent" /\ row'[k] = "queued"
                    \/ ~Up /\ row'[k] \in ENDING_STATUSES /\ ~Begun(k)'
  BY <1>3, ThreadsAssumption DEF BootEnqueue, BootVisit, TableType, IntactIsClean, CounterType
<1>4. Up' => Up \/ (pc[Boot] = "requeue" /\ row' = row)
  BY ThreadsAssumption DEF BootEnqueue, BootVisit, Up, ThreadType
<1>5. DownIsQuiet'
  BY <1>2, ThreadsAssumption DEF BootEnqueue, BootVisit, DownIsQuiet, Up, ThreadType, MemoryType
<1>6. IntactIsClean'
  BY <1>3, ThreadsAssumption DEF BootEnqueue, BootVisit, IntactIsClean, TableType, ThreadType, MemoryType
<1>7. RecoveryFinishes'
  BY <1>3, ThreadsAssumption
     DEF BootEnqueue, BootVisit, RecoveryFinishes, IntactIsClean, Up, Begun, BootPcs, ConvergePcs,
         ThreadType, TableType, MemoryType
<1> QED
  BY <1>2, <1>3, <1>4, <1>5, <1>6, <1>7 DEF OtherMoves

\* Recovery is over.
LEMMA BootUpFollows ==
    ASSUME OwnershipInv, IndInv', BootUp
    PROVE  OtherMoves
<1>1. \A t \in Workers \cup Clients : t \in Threads /\ t # Boot /\ t # Retry
  BY ThreadsAssumption
<1>2. /\ \A t \in Workers \cup Clients : pc'[t] = pc[t] /\ job'[t] = job[t]
      /\ UNCHANGED token
      /\ faults' >= faults
  BY <1>1 DEF BootUp, BootStep, ThreadType, CounterType
<1>3. ASSUME corruptions' = 0
      PROVE  /\ corruptions = 0
             /\ \A k \in Jobs : row'[k] # row[k] =>
                    \/ row[k] = "absent" /\ row'[k] = "queued"
                    \/ ~Up /\ row'[k] \in ENDING_STATUSES /\ ~Begun(k)'
  BY <1>3, ThreadsAssumption DEF BootUp, BootStep, TableType, IntactIsClean, CounterType
<1>4. Up' => Up \/ (pc[Boot] = "requeue" /\ row' = row)
  BY ThreadsAssumption DEF BootUp, BootStep, Up, ThreadType
<1>5. DownIsQuiet'
  BY <1>2, ThreadsAssumption DEF BootUp, BootStep, DownIsQuiet, Up, ThreadType, MemoryType
<1>6. IntactIsClean'
  BY <1>3, ThreadsAssumption DEF BootUp, BootStep, IntactIsClean, TableType, ThreadType, MemoryType
<1>7. RecoveryFinishes'
  BY <1>3, ThreadsAssumption
     DEF BootUp, BootStep, RecoveryFinishes, IntactIsClean, Up, Begun, BootPcs, ConvergePcs,
         ThreadType, TableType, MemoryType
<1> QED
  BY <1>2, <1>3, <1>4, <1>5, <1>6, <1>7 DEF OtherMoves

\* A row is damaged.
LEMMA CorruptRowFollows ==
    ASSUME OwnershipInv, IndInv', NEW j \in Jobs, CorruptRow(j)
    PROVE  OtherMoves
<1>1. \A t \in Workers \cup Clients : t \in Threads /\ t # Boot /\ t # Retry
  BY ThreadsAssumption
<1>2. /\ \A t \in Workers \cup Clients : pc'[t] = pc[t] /\ job'[t] = job[t]
      /\ UNCHANGED token
      /\ faults' >= faults
  BY <1>1 DEF CorruptRow, ThreadType, CounterType
<1>3. ASSUME corruptions' = 0
      PROVE  /\ corruptions = 0
             /\ \A k \in Jobs : row'[k] # row[k] =>
                    \/ row[k] = "absent" /\ row'[k] = "queued"
                    \/ ~Up /\ row'[k] \in ENDING_STATUSES /\ ~Begun(k)'
  BY <1>3, ThreadsAssumption DEF CorruptRow, TableType, IntactIsClean, CounterType
<1>4. Up' => Up \/ (pc[Boot] = "requeue" /\ row' = row)
  BY ThreadsAssumption DEF CorruptRow, Up, ThreadType
<1>5. DownIsQuiet'
  BY <1>2, ThreadsAssumption DEF CorruptRow, DownIsQuiet, Up, ThreadType, MemoryType
<1>6. IntactIsClean'
  BY <1>3, ThreadsAssumption DEF CorruptRow, IntactIsClean, TableType, ThreadType, MemoryType
<1>7. RecoveryFinishes'
  BY <1>3, ThreadsAssumption
     DEF CorruptRow, RecoveryFinishes, IntactIsClean, Up, Begun, BootPcs, ConvergePcs,
         ThreadType, TableType, MemoryType
<1> QED
  BY <1>2, <1>3, <1>4, <1>5, <1>6, <1>7 DEF OtherMoves

\* A row is repaired.
LEMMA RepairRowFollows ==
    ASSUME OwnershipInv, IndInv', NEW j \in Jobs, RepairRow(j)
    PROVE  OtherMoves
<1>1. \A t \in Workers \cup Clients : t \in Threads /\ t # Boot /\ t # Retry
  BY ThreadsAssumption
<1>2. /\ \A t \in Workers \cup Clients : pc'[t] = pc[t] /\ job'[t] = job[t]
      /\ UNCHANGED token
      /\ faults' >= faults
  BY <1>1 DEF RepairRow, ThreadType, CounterType
<1>3. ASSUME corruptions' = 0
      PROVE  /\ corruptions = 0
             /\ \A k \in Jobs : row'[k] # row[k] =>
                    \/ row[k] = "absent" /\ row'[k] = "queued"
                    \/ ~Up /\ row'[k] \in ENDING_STATUSES /\ ~Begun(k)'
  BY <1>3, ThreadsAssumption DEF RepairRow, TableType, IntactIsClean, CounterType
<1>4. Up' => Up \/ (pc[Boot] = "requeue" /\ row' = row)
  BY ThreadsAssumption DEF RepairRow, Up, ThreadType
<1>5. DownIsQuiet'
  BY <1>2, ThreadsAssumption DEF RepairRow, DownIsQuiet, Up, ThreadType, MemoryType
<1>6. IntactIsClean'
  BY <1>3, ThreadsAssumption DEF RepairRow, IntactIsClean, TableType, ThreadType, MemoryType
<1>7. RecoveryFinishes'
  BY <1>3, ThreadsAssumption
     DEF RepairRow, RecoveryFinishes, IntactIsClean, Up, Begun, BootPcs, ConvergePcs,
         ThreadType, TableType, MemoryType
<1> QED
  BY <1>2, <1>3, <1>4, <1>5, <1>6, <1>7 DEF OtherMoves

\* A finished job is converged by the retry loop or by recovery.
LEMMA ServiceConvergeEffectsFollows ==
    ASSUME OwnershipInv, IndInv', NEW t \in {Retry, Boot}, ConvergeEffects(t)
    PROVE  OtherMoves
<1>1. \A u \in Workers \cup Clients : u \in Threads /\ u # Boot /\ u # Retry
  BY ThreadsAssumption
<1>2. /\ \A u \in Workers \cup Clients : pc'[u] = pc[u] /\ job'[u] = job[u]
      /\ UNCHANGED token
      /\ faults' >= faults
  BY <1>1 DEF ConvergeEffects, AfterConverge, ThreadType, CounterType
<1>3. ASSUME corruptions' = 0
      PROVE  /\ corruptions = 0
             /\ \A k \in Jobs : row'[k] # row[k] =>
                    \/ row[k] = "absent" /\ row'[k] = "queued"
                    \/ ~Up /\ row'[k] \in ENDING_STATUSES /\ ~Begun(k)'
  BY <1>3, ThreadsAssumption DEF ConvergeEffects, AfterConverge, TableType, IntactIsClean, CounterType
<1>4. Up' => Up \/ (pc[Boot] = "requeue" /\ row' = row)
  BY ThreadsAssumption DEF ConvergeEffects, AfterConverge, Up, ThreadType
<1>5. DownIsQuiet'
  BY <1>2, ThreadsAssumption DEF ConvergeEffects, AfterConverge, DownIsQuiet, Up, ThreadType, MemoryType
<1>6. IntactIsClean'
  BY <1>3, ThreadsAssumption DEF ConvergeEffects, AfterConverge, IntactIsClean, TableType, ThreadType, MemoryType, ConvergePcs
<1>7. RecoveryFinishes'
  BY <1>3, ThreadsAssumption
     DEF ConvergeEffects, AfterConverge, RecoveryFinishes, IntactIsClean, Up, Begun, BootPcs, ConvergePcs,
         ThreadType, TableType, MemoryType
<1> QED
  BY <1>2, <1>3, <1>4, <1>5, <1>6, <1>7 DEF OtherMoves

\* A converged job is recorded by the retry loop or by recovery.
LEMMA ServiceMarkCompletionDoneFollows ==
    ASSUME OwnershipInv, IndInv', NEW t \in {Retry, Boot}, MarkCompletionDone(t)
    PROVE  OtherMoves
<1>1. \A u \in Workers \cup Clients : u \in Threads /\ u # Boot /\ u # Retry
  BY ThreadsAssumption
<1>2. /\ \A u \in Workers \cup Clients : pc'[u] = pc[u] /\ job'[u] = job[u]
      /\ UNCHANGED token
      /\ faults' >= faults
  BY <1>1 DEF MarkCompletionDone, AfterConverge, ThreadType, CounterType
<1>3. ASSUME corruptions' = 0
      PROVE  /\ corruptions = 0
             /\ \A k \in Jobs : row'[k] # row[k] =>
                    \/ row[k] = "absent" /\ row'[k] = "queued"
                    \/ ~Up /\ row'[k] \in ENDING_STATUSES /\ ~Begun(k)'
  BY <1>3, ThreadsAssumption DEF MarkCompletionDone, AfterConverge, TableType, IntactIsClean, CounterType
<1>4. Up' => Up \/ (pc[Boot] = "requeue" /\ row' = row)
  BY ThreadsAssumption DEF MarkCompletionDone, AfterConverge, Up, ThreadType
<1>5. DownIsQuiet'
  BY <1>2, ThreadsAssumption DEF MarkCompletionDone, AfterConverge, DownIsQuiet, Up, ThreadType, MemoryType
<1>6. IntactIsClean'
  BY <1>3, ThreadsAssumption DEF MarkCompletionDone, AfterConverge, IntactIsClean, TableType, ThreadType, MemoryType, ConvergePcs
<1>7. RecoveryFinishes'
  BY <1>3, ThreadsAssumption
     DEF MarkCompletionDone, AfterConverge, RecoveryFinishes, IntactIsClean, Up, Begun, BootPcs, ConvergePcs,
         ThreadType, TableType, MemoryType
<1> QED
  BY <1>2, <1>3, <1>4, <1>5, <1>6, <1>7 DEF OtherMoves

\* The process dies: the threads that were to finish the begun jobs are gone, and
\* recovery has to.
LEMMA CrashFollows ==
    ASSUME OwnershipInv, IndInv', Crash
    PROVE  OwnershipInv'
<1>1. /\ \A t \in Threads \ {Boot} : pc'[t] = "idle"
      /\ pc'[Boot] = "down" /\ ~Up'
  BY DEF Crash, Up
<1>2. \A t \in Workers \cup Clients \cup {Retry} : t \in Threads \ {Boot}
  BY ThreadsAssumption
<1>3. DownIsQuiet'
  BY <1>1 DEF Crash, DownIsQuiet
<1>4. IntactIsClean'
  BY <1>1, <1>2 DEF Crash, IntactIsClean
<1>5. CancelsAreRecorded'
  BY <1>1, <1>2 DEF Crash, CancelsAreRecorded
<1>6. RowsAreFollowed'
  BY <1>1, <1>2 DEF RowsAreFollowed, Follows, ConvergePcs
<1>7. RecoveryFinishes' /\ OwnedUnlessTwoFaults'
  BY <1>1 DEF RecoveryFinishes, OwnedUnlessTwoFaults
<1> QED BY <1>3, <1>4, <1>5, <1>6, <1>7

-----------------------------------------------------------------------------
(* The inductive invariant *)

\* Nothing runs and no job exists at first.
LEMMA InitOwnership == Init => OwnershipInv
<1> SUFFICES ASSUME Init PROVE OwnershipInv
  OBVIOUS
<1>1. IndInv
  BY InitIndInv
<1>2. \A t \in Workers \cup Clients \cup {Retry} : t \in Threads \ {Boot}
  BY ThreadsAssumption
<1>3. (\A t \in Threads \ {Boot} : pc[t] = "idle") /\ pc[Boot] = "down" /\ ~Up
  BY DEF Init, Up
<1>4. DownIsQuiet /\ IntactIsClean /\ CancelsAreRecorded
  BY <1>2, <1>3 DEF Init, DownIsQuiet, IntactIsClean, CancelsAreRecorded
<1>5. RowsAreFollowed
  BY <1>2, <1>3 DEF RowsAreFollowed, Follows, ConvergePcs
<1>6. RecoveryFinishes /\ OwnedUnlessTwoFaults
  BY <1>3 DEF RecoveryFinishes, OwnedUnlessTwoFaults
<1> QED BY <1>1, <1>4, <1>5, <1>6

\* Every step of a runner thread is a move of it.
LEMMA WorkerStepMoves ==
    ASSUME OwnershipInv, IndInv', NEW w \in Workers, WorkerStep(w)
    PROVE  WorkerMoves(w)
  BY DequeueFollows, ReadQueuedFollows, ClaimJobFollows, QuarantinePoisonFollows,
     BeginClaimedFollows, CheckCancelledFollows, StartGeneratorFollows, GenerateFollows,
     MoveToPostprocessingFollows, MarkSucceededFollows, SyncAssetsFollows,
     MarkFailedFollows, FinalizeCancellationFollows, ResolveClaimFailureFollows,
     ResolveMarkFailedFollows, EndJobFollows, WorkerConvergeEffectsFollows,
     WorkerMarkCompletionDoneFollows
     DEF WorkerStep

\* Every step of a client is a move of it.
LEMMA ClientStepMoves ==
    ASSUME OwnershipInv, IndInv', NEW c \in Clients,
           CancelStep(c) \/ \E j \in Jobs : CancelJob(c, j)
    PROVE  ClientMoves(c)
  BY CancelJobFollows, CancelReadFollows, CancelCasFollows, CancelRereadFollows,
     CancelSignalFollows, ClientConvergeEffectsFollows, ClientMarkCompletionDoneFollows
     DEF CancelStep

\* Every step keeps the invariant: a move of a runner thread, of a client or of
\* neither, or a crash.
LEMMA NextOwnership ==
    ASSUME OwnershipInv, ProgramStep, held' \subseteq Jobs
    PROVE  OwnershipInv'
<1>0. IndInv' /\ LifeStep
  BY NextPreserves, PreservesIndInv DEF Preserves
<1>1. ASSUME NEW w \in Workers, WorkerStep(w) PROVE OwnershipInv'
  BY <1>0, <1>1, WorkerStepMoves, WorkerMovesKeep
<1>2. ASSUME NEW c \in Clients, CancelStep(c) \/ \E j \in Jobs : CancelJob(c, j)
      PROVE  OwnershipInv'
  BY <1>0, <1>2, ClientStepMoves, ClientMovesKeep
<1>3. ASSUME NEW j \in Jobs, CreateJob(j) \/ CreateStep(j) \/ RetryPending(j)
      PROVE  OtherMoves
  BY <1>0, <1>3, CreateJobFollows, EnqueueReadFollows, EnqueuePushFollows,
     RetryPendingFollows
     DEF CreateStep
<1>4. ASSUME RetryStep PROVE OtherMoves
  BY <1>0, <1>4, ServiceConvergeEffectsFollows, ServiceMarkCompletionDoneFollows,
     TickStartFollows, TickVisitFollows, TickRequarantineFollows,
     TickResolveRepairedFollows, TickEndFollows
     DEF RetryStep
<1>5. ASSUME BootRecovery PROVE OtherMoves
  BY <1>0, <1>5, BootScanFollows, BootListFollows, BootPendingFollows, BootAssetsFollows,
     BootUpFollows, ServiceConvergeEffectsFollows, ServiceMarkCompletionDoneFollows,
     BootQuarantineFollows, BootFinalizeFollows, BootConvergeFollows, BootEnqueueFollows
     DEF BootRecovery
<1>6. ASSUME NEW j \in Jobs, CorruptRow(j) \/ RepairRow(j) PROVE OtherMoves
  BY <1>0, <1>6, CorruptRowFollows, RepairRowFollows
<1>7. OtherMoves => OwnershipInv'
  BY <1>0, OtherMovesKeep
<1> QED
  BY <1>0, <1>1, <1>2, <1>3, <1>4, <1>5, <1>6, <1>7, CrashFollows DEF ProgramStep

\* So does a step that leaves the program where it is.
LEMMA StutterOwnership ==
    ASSUME OwnershipInv, [Next]_vars, UNCHANGED core
    PROVE  OwnershipInv'
<1>1. IndInv'
  BY NextIndInv
<1>2. Up' = Up
  BY DEF core, Up
<1>3. DownIsQuiet' /\ IntactIsClean' /\ CancelsAreRecorded'
  BY <1>2 DEF core, DownIsQuiet, IntactIsClean, CancelsAreRecorded
<1>4. RowsAreFollowed'
  BY DEF core, RowsAreFollowed, Follows, Finished
<1>5. RecoveryFinishes' /\ OwnedUnlessTwoFaults'
  BY <1>2 DEF core, RecoveryFinishes, Begun, OwnedUnlessTwoFaults, Owns
<1> QED BY <1>1, <1>3, <1>4, <1>5

-----------------------------------------------------------------------------
(* The theorems *)

\* The rows of the jobs table are where the runner threads, the clients and
\* startup recovery believe them to be, as long as no row is damaged.
THEOREM RowsFollowed == Spec => []OwnershipInv
<1>1. OwnershipInv /\ [Next]_vars => OwnershipInv'
  BY NextOwnership, StutterOwnership, StepKinds
<1> QED BY <1>1, InitOwnership, PTL DEF Spec

\* A begun job always belongs to a runner thread that will finish it, in a
\* process that is up and has met at most one storage failure: the failure is
\* absorbed by _resolve_claim_failure, and a crash by startup recovery.
THEOREM BegunJobsAreOwned == Spec => []OwnedUnlessTwoFaults
<1>1. OwnershipInv => OwnedUnlessTwoFaults
  OBVIOUS
<1> QED BY <1>1, RowsFollowed, PTL

-----------------------------------------------------------------------------
(* Queued jobs are handled.                                                *)

\* A runner thread took the job off the queue and has not claimed it.
Taken(j) == \E w \in Workers : pc[w] \in PreClaimPcs /\ job[w] = j

\* A job on its way to a runner thread stays there while its row is queued.
HandledStays ==
    \A j \in Jobs : InQueue(j) \/ Taken(j) =>
        InQueue(j)' \/ Taken(j)' \/ row'[j] # "queued" \/ ~Up'

\* A new row is on its way to the queue unless its create call reports an error.
NewIsHandled ==
    \A j \in Jobs :
        /\ row[j] = "absent" /\ row'[j] = "queued" =>
               \/ creating'[j] \in {"inserted", "enqueue"}
               \/ creating[j] # "error" /\ creating'[j] = "error"
        /\ creating[j] \in {"inserted", "enqueue"} =>
               \/ creating'[j] \in {"inserted", "enqueue", "error"}
               \/ row'[j] # "queued" \/ InQueue(j)'

\* Candidates leave the retry loop's notes only when they are handled.
CandidatesAreHandled ==
    \A j \in candidates : j \in candidates' \/ Handled(j)' \/ ~Up'

\* Service begins when recovery has visited every queued job.
ServiceBegins ==
    Up' => Up \/ (pc[Boot] = "requeue" /\ todo = {} /\ UNCHANGED <<row, queue>>)

QueueMoves ==
    /\ QueueConsistent' /\ TakenInLane' /\ HandledStays
    /\ CandidatesAreOld' /\ TickIsThorough' /\ RecoveryQueues'
    /\ NewIsHandled /\ CandidatesAreHandled /\ ServiceBegins

\* The queue and the jobs taken off it stay as they are.
QueueKept ==
    /\ queue' = queue
    /\ \A w \in Workers : \/ pc'[w] = pc[w] /\ job'[w] = job[w]
                          \/ pc[w] \notin PreClaimPcs /\ pc'[w] \notin PreClaimPcs

\* Neither the retry loop's tick nor recovery moves.
Bystands ==
    /\ pc'[Boot] = pc[Boot] /\ (Up \/ corruptions' # 0)
    /\ UNCHANGED <<candidates, todo, kept>>
    /\ \/ UNCHANGED <<pc[Retry], job[Retry], seen[Retry]>>
       \/ pc'[Retry] \notin TickPcs
    /\ \A j \in Jobs : /\ creating[j] \in {"accepted", "error"} =>
                              creating'[j] = creating[j]
                       /\ creating'[j] = "none" => creating[j] = "none"

-----------------------------------------------------------------------------
(* The queue *)

USE DEF QueueInv

\* JobQueue.enqueue keeps the queue consistent and leaves the job in it.
LEMMA EnqueueQueues ==
    ASSUME queue \in [Lanes -> Seq(Jobs)], QueueConsistent,
           NEW j \in Jobs, NEW l \in Lanes, LaneOf[j] = l, Enqueue(j, l)
    PROVE  /\ QueueConsistent'
           /\ InQueue(j)'
           /\ \A k \in Jobs : InQueue(k) => InQueue(k)'
<1>1. CASE InQueue(j)
  <2>1. queue' = queue
    BY <1>1 DEF Enqueue
  <2> QED
    BY <1>1, <2>1 DEF QueueConsistent, InQueue, InLane
<1>2. CASE ~InQueue(j)
  <2>1. queue' = [queue EXCEPT ![l] = Append(queue[l], j)]
    BY <1>2 DEF Enqueue
  <2>2. PICK q \in Seq(Jobs) : q = queue[l]
    OBVIOUS
  <2>3. /\ queue'[l] = Append(q, j)
        /\ \A m \in Lanes : m # l => queue'[m] = queue[m]
    BY <2>1, <2>2
  <2>4. /\ Len(Append(q, j)) = Len(q) + 1
        /\ Len(q) \in Nat
        /\ \A i \in 1..Len(q) : Append(q, j)[i] = q[i]
        /\ Append(q, j)[Len(q) + 1] = j
    BY <2>2
  <2>5. \A i \in 1..Len(q) : q[i] # j
    BY <1>2, <2>2 DEF InQueue, InLane
  <2>6. QueueConsistent'
    <3> SUFFICES ASSUME NEW m \in Lanes, NEW i \in 1..Len(queue'[m])
                 PROVE  /\ LaneOf[queue'[m][i]] = m
                        /\ \A k \in 1..Len(queue'[m]) :
                               queue'[m][k] = queue'[m][i] => k = i
      BY DEF QueueConsistent
    <3>1. CASE m # l
      BY <2>3, <3>1 DEF QueueConsistent
    <3>2. CASE m = l
      <4>1. \A k \in 1..Len(q) : /\ LaneOf[q[k]] = l
                                 /\ \A n \in 1..Len(q) : q[n] = q[k] => n = k
        BY <2>2 DEF QueueConsistent
      <4>2. i \in 1..(Len(q) + 1)
        BY <2>3, <2>4, <3>2
      <4>3. LaneOf[Append(q, j)[i]] = l
        BY <2>4, <4>1, <4>2
      <4>4. \A k \in 1..(Len(q) + 1) : Append(q, j)[k] = Append(q, j)[i] => k = i
        BY <2>4, <2>5, <4>1, <4>2
      <4> QED BY <2>3, <2>4, <3>2, <4>3, <4>4
    <3> QED BY <3>1, <3>2
  <2>7. InLane(j, l)'
    BY <2>3, <2>4 DEF InLane
  <2>8. ASSUME NEW k \in Jobs, NEW m \in Lanes, InLane(k, m) PROVE InLane(k, m)'
    BY <2>2, <2>3, <2>4, <2>8 DEF InLane
  <2> QED BY <2>6, <2>7, <2>8 DEF InQueue
<1> QED BY <1>1, <1>2

\* Taking the first job off a lane keeps the queue consistent and every other
\* job in it.
LEMMA DequeueQueues ==
    ASSUME queue \in [Lanes -> Seq(Jobs)], QueueConsistent,
           NEW l \in Lanes, queue[l] # <<>>,
           queue' = [queue EXCEPT ![l] = Tail(@)]
    PROVE  /\ QueueConsistent'
           /\ LaneOf[Head(queue[l])] = l
           /\ \A k \in Jobs : InQueue(k) => InQueue(k)' \/ k = Head(queue[l])
<1>1. PICK q \in Seq(Jobs) : q = queue[l]
  OBVIOUS
<1>2. /\ queue'[l] = Tail(q)
      /\ \A m \in Lanes : m # l => queue'[m] = queue[m]
  BY <1>1
<1>3. /\ Len(q) \in Nat /\ Len(q) # 0
      /\ Head(q) = q[1]
      /\ Len(Tail(q)) = Len(q) - 1
      /\ \A i \in 1..(Len(q) - 1) : Tail(q)[i] = q[i + 1]
  BY <1>1
<1>4. \A k \in 1..Len(q) : /\ LaneOf[q[k]] = l
                           /\ \A n \in 1..Len(q) : q[n] = q[k] => n = k
  BY <1>1 DEF QueueConsistent
<1>5. QueueConsistent'
  <2> SUFFICES ASSUME NEW m \in Lanes, NEW i \in 1..Len(queue'[m])
               PROVE  /\ LaneOf[queue'[m][i]] = m
                      /\ \A k \in 1..Len(queue'[m]) :
                             queue'[m][k] = queue'[m][i] => k = i
    BY DEF QueueConsistent
  <2>1. CASE m # l
    BY <1>2, <2>1 DEF QueueConsistent
  <2>2. CASE m = l
    <3>1. i \in 1..(Len(q) - 1)
      BY <1>2, <1>3, <2>2
    <3>2. LaneOf[Tail(q)[i]] = l
      BY <1>3, <1>4, <3>1
    <3>3. \A k \in 1..(Len(q) - 1) : Tail(q)[k] = Tail(q)[i] => k = i
      <4> SUFFICES ASSUME NEW k \in 1..(Len(q) - 1), Tail(q)[k] = Tail(q)[i]
                   PROVE  k = i
        OBVIOUS
      <4>1. q[k + 1] = q[i + 1] /\ k + 1 \in 1..Len(q) /\ i + 1 \in 1..Len(q)
        BY <1>3, <3>1
      <4>2. k + 1 = i + 1
        BY <1>4, <4>1
      <4> QED BY <3>1, <4>2
    <3> QED BY <1>2, <1>3, <2>2, <3>2, <3>3
  <2> QED BY <2>1, <2>2
<1>6. LaneOf[Head(q)] = l
  BY <1>3, <1>4
<1>7. ASSUME NEW k \in Jobs, NEW m \in Lanes, InLane(k, m), k # Head(q)
      PROVE  InLane(k, m)'
  <2>1. CASE m # l
    BY <1>2, <1>7, <2>1 DEF InLane
  <2>2. CASE m = l
    <3>1. PICK i \in 1..Len(q) : q[i] = k
      BY <1>1, <1>7, <2>2 DEF InLane
    <3>2. i - 1 \in 1..(Len(q) - 1)
      BY <1>3, <1>7, <3>1
    <3>3. Tail(q)[i - 1] = k
      BY <1>3, <3>1, <3>2
    <3> QED BY <1>2, <1>3, <2>2, <3>2, <3>3 DEF InLane
  <2> QED BY <2>1, <2>2
<1> QED BY <1>1, <1>5, <1>6, <1>7 DEF InQueue

-----------------------------------------------------------------------------
(* Steps that leave the queue, the tick and recovery alone *)

\* The queue of a step that does not touch it stays consistent.
LEMMA QueueKeptQueues ==
    ASSUME QueueInv, QueueKept
    PROVE  QueueConsistent' /\ TakenInLane' /\ HandledStays
<1>1. QueueConsistent'
  BY DEF QueueKept, QueueConsistent
<1>2. TakenInLane'
  BY DEF QueueKept, TakenInLane
<1>3. HandledStays
  BY DEF QueueKept, HandledStays, Taken, InQueue, InLane
<1> QED BY <1>1, <1>2, <1>3

\* A candidate that is handled stays so, in a process that stays up.
LEMMA HandledKept ==
    ASSUME QueueInv, LifeStep, HandledStays, NewIsHandled,
           NEW j \in candidates, Handled(j), creating'[j] = creating[j]
    PROVE  Handled(j)' \/ ~Up'
<1>1. j \in Jobs /\ creating[j] \in {"accepted", "error"}
  BY DEF CandidatesAreOld, MemoryType
<1>2. row[j] # "queued" => row'[j] # "queued"
  BY <1>1, LifeStepKeeps DEF RowKept, NewIsHandled
<1> QED BY <1>1, <1>2 DEF HandledStays, Handled, Taken

\* What the tick and recovery have noted stays true when neither moves.
LEMMA BystandsQueues ==
    ASSUME QueueInv, IndInv', LifeStep, Bystands, HandledStays, NewIsHandled
    PROVE  /\ CandidatesAreOld' /\ TickIsThorough' /\ RecoveryQueues'
           /\ CandidatesAreHandled /\ ServiceBegins
<1>1. CandidatesAreOld'
  BY DEF CandidatesAreOld, Bystands, MemoryType
<1>2. TickIsThorough'
  <2>1. CASE pc[Retry] \in TickPcs /\ UNCHANGED <<pc[Retry], job[Retry], seen[Retry]>>
    <3>1. Up'
      BY <2>1, ThreadsAssumption DEF Bystands, Up, DownIsQuiet, TickPcs
    <3>2. \A j \in candidates : j \in todo' \cup kept' \/ Handled(j)'
      BY <2>1, <3>1, HandledKept
         DEF TickIsThorough, TickPcs, Bystands, MemoryType, CandidatesAreOld
    <3>3. pc[Retry] = "repaired" => job[Retry] \in Jobs
      BY ThreadsAssumption DEF HoldsJob, HomePcs, BootPcs, ConvergePcs
    <3>4. /\ pc[Retry] = "repaired" /\ row[job[Retry]] \notin {"absent", "queued"}
          => row'[job[Retry]] \notin {"absent", "queued"}
      BY <3>3, LifeStepKeeps DEF RowKept
    <3> QED
      BY <2>1, <3>2, <3>4 DEF TickIsThorough, Bystands, TickPcs
  <2>2. CASE pc'[Retry] \notin TickPcs
    BY <2>2 DEF TickIsThorough, TickPcs
  <2> QED BY <2>1, <2>2 DEF Bystands
<1>3. RecoveryQueues'
  <2>1. faults' \in Nat /\ corruptions' \in Nat
    BY DEF CounterType
  <2>2. pc'[Boot] # "requeue" \/ corruptions' # 0
    BY DEF Bystands, Up
  <2>3. corruptions' # 0 => faults' + corruptions' # 0
    <3>1. \A m, n \in Nat : n # 0 => m + n # 0
      OBVIOUS
    <3> QED BY <2>1, <3>1
  <2> QED BY <2>2, <2>3 DEF RecoveryQueues
<1>4. CandidatesAreHandled /\ ServiceBegins
  BY DEF CandidatesAreHandled, ServiceBegins, Bystands, Up
<1> QED BY <1>1, <1>2, <1>3, <1>4

-----------------------------------------------------------------------------
(* Runner threads, clients and create calls *)

\* A step that leaves the queue, the tick and recovery alone.
LEMMA QuietMoves ==
    ASSUME QueueInv, IndInv', LifeStep, QueueKept, Bystands, NewIsHandled
    PROVE  QueueMoves
  BY QueueKeptQueues, BystandsQueues DEF QueueMoves

\* A runner thread moves neither the tick nor recovery, and makes no row.
LEMMA WorkerBystands ==
    ASSUME QueueInv, NEW w \in Workers, WorkerMoves(w), UNCHANGED <<kept, seen>>
    PROVE  Bystands /\ NewIsHandled
<1>1. Bystands
  BY ThreadsAssumption DEF WorkerMoves, Alone, Bystands
<1>2. NewIsHandled
  BY DEF WorkerMoves, Alone, NewIsHandled, ClaimedIsPastQueue, ClaimedPcs
<1> QED BY <1>1, <1>2

\* Past its claim, a runner thread leaves the queue alone.
LEMMA PastClaimQueues ==
    ASSUME QueueInv, IndInv', LifeStep, NEW w \in Workers, WorkerMoves(w),
           UNCHANGED <<queue, kept, seen>>,
           pc[w] \notin PreClaimPcs, pc'[w] \notin PreClaimPcs
    PROVE  QueueMoves
<1>1. QueueKept
  BY ThreadsAssumption DEF WorkerMoves, Alone, QueueKept
<1> QED BY <1>1, WorkerBystands, QuietMoves

\* So do all its actions after the claim.
LEMMA OwnerQueues ==
    ASSUME QueueInv, IndInv', LifeStep, NEW w \in Workers, WorkerMoves(w),
           \/ BeginClaimed(w) \/ CheckCancelled(w) \/ StartGenerator(w)
           \/ Generate(w) \/ MoveToPostprocessing(w) \/ MarkSucceeded(w)
           \/ SyncAssets(w) \/ MarkFailed(w) \/ FinalizeCancellation(w)
           \/ ResolveClaimFailure(w) \/ ResolveMarkFailed(w) \/ EndJob(w)
           \/ ConvergeEffects(w) \/ MarkCompletionDone(w)
    PROVE  QueueMoves
<1> DEFINE Kept == /\ UNCHANGED <<queue, kept, seen>>
                   /\ pc[w] \notin PreClaimPcs /\ pc'[w] \notin PreClaimPcs
<1>0. w \in Threads
  OBVIOUS
<1>1. CASE BeginClaimed(w)
  <2>1. Kept
    BY <1>0, <1>1 DEF BeginClaimed, ThreadType, PreClaimPcs
  <2> QED BY <2>1, PastClaimQueues
<1>2. CASE CheckCancelled(w)
  <2>1. Kept
    BY <1>0, <1>2 DEF CheckCancelled, ThreadType, PreClaimPcs
  <2> QED BY <2>1, PastClaimQueues
<1>3. CASE StartGenerator(w)
  <2>1. Kept
    BY <1>0, <1>3 DEF StartGenerator, UpdateIfStatus, ThreadType, PreClaimPcs
  <2> QED BY <2>1, PastClaimQueues
<1>4. CASE Generate(w)
  <2>1. Kept
    BY <1>0, <1>4 DEF Generate, ThreadType, PreClaimPcs
  <2> QED BY <2>1, PastClaimQueues
<1>5. CASE MoveToPostprocessing(w)
  <2>1. Kept
    BY <1>0, <1>5 DEF MoveToPostprocessing, UpdateIfStatus, ThreadType, PreClaimPcs
  <2> QED BY <2>1, PastClaimQueues
<1>6. CASE MarkSucceeded(w)
  <2>1. Kept
    BY <1>0, <1>6 DEF MarkSucceeded, UpdateIfStatus, OrRaise, ThreadType, PreClaimPcs
  <2> QED BY <2>1, PastClaimQueues
<1>7. CASE SyncAssets(w)
  <2>1. Kept
    BY <1>0, <1>7 DEF SyncAssets, ThreadType, PreClaimPcs
  <2> QED BY <2>1, PastClaimQueues
<1>8. CASE MarkFailed(w)
  <2>1. Kept
    BY <1>0, <1>8 DEF MarkFailed, UpdateIfStatus, OrRaise, ThreadType, PreClaimPcs
  <2> QED BY <2>1, PastClaimQueues
<1>9. CASE FinalizeCancellation(w)
  <2>1. Kept
    BY <1>0, <1>9 DEF FinalizeCancellation, UpdateIfStatus, OrRaise, ThreadType, PreClaimPcs
  <2> QED BY <2>1, PastClaimQueues
<1>10. CASE ResolveClaimFailure(w)
  <2>1. Kept
    BY <1>0, <1>10 DEF ResolveClaimFailure, UpdateIfStatus, ThreadType, PreClaimPcs
  <2> QED BY <2>1, PastClaimQueues
<1>11. CASE ResolveMarkFailed(w)
  <2>1. Kept
    BY <1>0, <1>11 DEF ResolveMarkFailed, UpdateIfStatus, ThreadType, PreClaimPcs
  <2> QED BY <2>1, PastClaimQueues
<1>12. CASE EndJob(w)
  <2>1. Kept
    BY <1>0, <1>12 DEF EndJob, ThreadType, PreClaimPcs
  <2> QED BY <2>1, PastClaimQueues
<1>13. CASE ConvergeEffects(w)
  <2>1. Kept
    BY <1>0, <1>13 DEF ConvergeEffects, AfterConverge, ThreadType, PreClaimPcs
  <2> QED BY <2>1, PastClaimQueues
<1>14. CASE MarkCompletionDone(w)
  <2>1. Kept
    BY <1>0, <1>14 DEF MarkCompletionDone, AfterConverge, ThreadType, PreClaimPcs
  <2> QED BY <2>1, PastClaimQueues
<1> QED BY <1>1, <1>2, <1>3, <1>4, <1>5, <1>6, <1>7, <1>8, <1>9, <1>10, <1>11, <1>12, <1>13, <1>14

\* A runner thread takes a job off its lane.
LEMMA DequeueTakes ==
    ASSUME QueueInv, IndInv', LifeStep, NEW w \in Workers, WorkerMoves(w), Dequeue(w)
    PROVE  QueueMoves
<1> DEFINE l == WorkerLane[w]
<1>0. w \in Threads /\ l \in Lanes
  BY LanesAssumption
<1>1. /\ queue[l] # <<>> /\ queue' = [queue EXCEPT ![l] = Tail(@)]
      /\ pc[w] = "idle" /\ pc'[w] = "read" /\ job'[w] = Head(queue[l])
      /\ UNCHANGED <<kept, seen>>
  BY <1>0 DEF Dequeue, ThreadType
<1>2. \A v \in Workers \ {w} : pc'[v] = pc[v] /\ job'[v] = job[v]
  BY DEF WorkerMoves, Alone
<1>3. PICK first \in Jobs : first = Head(queue[l])
  BY <1>0, <1>1 DEF MemoryType
<1>4. /\ QueueConsistent'
      /\ LaneOf[first] = l
      /\ \A k \in Jobs : InQueue(k) => InQueue(k)' \/ k = first
  <2> HIDE DEF l
  <2> QED BY <1>0, <1>1, <1>3, DequeueQueues DEF MemoryType
<1>5. TakenInLane'
  BY <1>1, <1>2, <1>3, <1>4 DEF TakenInLane
<1>6. HandledStays
  <2>1. \A j \in Jobs : Taken(j) => Taken(j)'
    BY <1>1, <1>2 DEF Taken, PreClaimPcs
  <2>2. Taken(first)'
    BY <1>1, <1>3 DEF Taken, PreClaimPcs
  <2> QED BY <1>4, <2>1, <2>2 DEF HandledStays
<1> QED
  BY <1>1, <1>4, <1>5, <1>6, WorkerBystands, BystandsQueues DEF QueueMoves

\* Before its claim, a runner thread puts its job back, keeps it, or finds it
\* past the queue.
LEMMA PreClaimQueues ==
    ASSUME QueueInv, IndInv', LifeStep, NEW w \in Workers, WorkerMoves(w),
           UNCHANGED <<kept, seen>>, pc[w] \in PreClaimPcs,
           \/ Enqueue(job[w], WorkerLane[w]) /\ pc'[w] = "idle"
           \/ /\ queue' = queue
              /\ \/ pc'[w] \in PreClaimPcs /\ job'[w] = job[w]
                 \/ pc'[w] \notin PreClaimPcs /\ row'[job[w]] # "queued"
    PROVE  QueueMoves
<1>0. PICK own \in Jobs : own = job[w] /\ LaneOf[own] = WorkerLane[w]
  <2>1. pc[w] # "idle"
    BY DEF PreClaimPcs
  <2> QED BY <2>1, BusyWorker DEF TakenInLane
<1>1. \A v \in Workers \ {w} : pc'[v] = pc[v] /\ job'[v] = job[v]
  BY DEF WorkerMoves, Alone
<1>2. \A j \in Jobs : Taken(j) => Taken(j)' \/ j = own
  BY <1>0, <1>1 DEF Taken
<1>3. /\ QueueConsistent'
      /\ \A j \in Jobs : InQueue(j) => InQueue(j)'
      /\ InQueue(own)' \/ Taken(own)' \/ row'[own] # "queued"
  <2>1. CASE Enqueue(job[w], WorkerLane[w])
    <3>1. Enqueue(own, WorkerLane[w]) /\ WorkerLane[w] \in Lanes
      BY <1>0, <2>1, LanesAssumption
    <3> QED BY <1>0, <3>1, EnqueueQueues DEF MemoryType
  <2>2. CASE /\ queue' = queue
             /\ \/ pc'[w] \in PreClaimPcs /\ job'[w] = job[w]
                \/ row'[job[w]] # "queued"
    BY <1>0, <2>2 DEF QueueConsistent, InQueue, InLane, Taken
  <2> QED BY <2>1, <2>2
<1>4. TakenInLane'
  BY <1>0, <1>1 DEF TakenInLane, PreClaimPcs
<1>5. HandledStays
  BY <1>2, <1>3 DEF HandledStays
<1> QED
  BY <1>3, <1>4, <1>5, WorkerBystands, BystandsQueues DEF QueueMoves

\* A queued job that was read is kept for the claim, or put back.
LEMMA ReadQueuedQueues ==
    ASSUME QueueInv, IndInv', LifeStep, NEW w \in Workers, WorkerMoves(w), ReadQueued(w)
    PROVE  QueueMoves
<1>1. pc[w] = "read" /\ w \in Threads
  BY DEF ReadQueued
<1>2. pc[w] \in PreClaimPcs /\ UNCHANGED <<kept, seen, row>>
  BY <1>1 DEF ReadQueued, Requeue, PreClaimPcs
<1>3. \/ Enqueue(job[w], WorkerLane[w]) /\ pc'[w] = "idle"
      \/ queue' = queue /\ pc'[w] \in PreClaimPcs /\ job'[w] = job[w]
      \/ queue' = queue /\ pc'[w] = "idle" /\ row'[job[w]] # "queued"
  BY <1>1, <1>2 DEF ReadQueued, Requeue, PreClaimPcs, ThreadType
<1> QED
  BY <1>2, <1>3, PreClaimQueues DEF PreClaimPcs

\* A claim takes the job past the queue; one that fails puts it back, and one
\* that is lost finds it past the queue.
LEMMA ClaimJobQueues ==
    ASSUME QueueInv, IndInv', LifeStep, NEW w \in Workers, WorkerMoves(w), ClaimJob(w)
    PROVE  QueueMoves
<1>1. pc[w] = "claim" /\ w \in Threads /\ job[w] \in Jobs
  BY BusyWorker DEF ClaimJob
<1>2. pc[w] \in PreClaimPcs /\ UNCHANGED <<kept, seen>>
  BY <1>1 DEF ClaimJob, Requeue, PreClaimPcs
<1>3. \/ Enqueue(job[w], WorkerLane[w]) /\ pc'[w] = "idle"
      \/ queue' = queue /\ pc'[w] = "quarantine" /\ job'[w] = job[w]
      \/ /\ queue' = queue /\ pc'[w] \in {"claimed", "idle"}
         /\ row'[job[w]] # "queued"
  BY <1>1, GuardedWrites DEF ClaimJob, Requeue, ThreadType, TableType
<1> QED
  BY <1>2, <1>3, PreClaimQueues DEF PreClaimPcs

\* A quarantine takes the job past the queue; one that fails puts it back.
LEMMA QuarantinePoisonQueues ==
    ASSUME QueueInv, IndInv', LifeStep, NEW w \in Workers, WorkerMoves(w),
           QuarantinePoison(w)
    PROVE  QueueMoves
<1>1. pc[w] = "quarantine" /\ w \in Threads /\ job[w] \in Jobs
  BY BusyWorker DEF QuarantinePoison
<1>2. pc[w] \in PreClaimPcs /\ UNCHANGED <<kept, seen>>
  BY <1>1 DEF QuarantinePoison, Requeue, PreClaimPcs
<1>3. \/ Enqueue(job[w], WorkerLane[w]) /\ pc'[w] = "idle"
      \/ queue' = queue /\ pc'[w] = "idle" /\ row'[job[w]] # "queued"
  BY <1>1 DEF QuarantinePoison, Requeue, ThreadType, TableType
<1> QED
  BY <1>2, <1>3, PreClaimQueues DEF PreClaimPcs

\* So every step of a runner thread.
LEMMA WorkerQueues ==
    ASSUME QueueInv, IndInv', LifeStep, NEW w \in Workers, WorkerStep(w)
    PROVE  QueueMoves
<1>1. WorkerMoves(w)
  BY WorkerStepMoves
<1> QED
  BY <1>1, OwnerQueues, DequeueTakes, ReadQueuedQueues, ClaimJobQueues,
     QuarantinePoisonQueues DEF WorkerStep

\* A client leaves the queue, the tick and recovery alone, and makes no row.
LEMMA ClientQueues ==
    ASSUME QueueInv, IndInv', LifeStep, NEW c \in Clients,
           CancelStep(c) \/ \E j \in Jobs : CancelJob(c, j)
    PROVE  QueueMoves
<1> DEFINE Kept == /\ UNCHANGED <<queue, kept, seen[Retry]>>
                   /\ \A j \in Jobs : row'[j] = row[j] \/ row'[j] # "queued"
<1>0. c \in Threads /\ c # Retry
  BY ThreadsAssumption
<1>1. ClientMoves(c)
  BY ClientStepMoves
<1>2. ASSUME \E j \in Jobs : CancelJob(c, j) PROVE Kept
  BY <1>2 DEF CancelJob
<1>3. ASSUME CancelRead(c) PROVE Kept
  BY <1>0, <1>3 DEF CancelRead, ThreadType
<1>4. ASSUME CancelCas(c) PROVE Kept
  BY <1>0, <1>4 DEF CancelCas, ThreadType, TableType, CancelTarget
<1>5. ASSUME CancelReread(c) PROVE Kept
  BY <1>0, <1>5 DEF CancelReread, ThreadType
<1>6. ASSUME CancelSignal(c) PROVE Kept
  BY <1>0, <1>6 DEF CancelSignal
<1>7. ASSUME ConvergeEffects(c) \/ MarkCompletionDone(c) PROVE Kept
  BY <1>0, <1>7 DEF ConvergeEffects, MarkCompletionDone, AfterConverge
<1>8. Kept
  BY <1>2, <1>3, <1>4, <1>5, <1>6, <1>7 DEF CancelStep
<1>9. QueueKept /\ Bystands
  BY <1>1, <1>8, ThreadsAssumption DEF ClientMoves, Alone, QueueKept, Bystands
<1>10. NewIsHandled
  BY <1>1, <1>8 DEF ClientMoves, Alone, NewIsHandled
<1> QED BY <1>9, <1>10, QuietMoves

\* A create call makes its job queued, or reports an error.
LEMMA CreateQueues ==
    ASSUME QueueInv, IndInv', LifeStep, NEW j \in Jobs, CreateJob(j) \/ CreateStep(j)
    PROVE  QueueMoves
<1>1. CASE CreateJob(j)
  <2>1. QueueKept /\ Bystands
    BY <1>1 DEF CreateJob, QueueKept, Bystands, MemoryType
  <2>2. NewIsHandled
    BY <1>1 DEF CreateJob, NewIsHandled, MemoryType, TableType
  <2> QED BY <2>1, <2>2, QuietMoves
<1>2. CASE EnqueueRead(j)
  <2>1. Up
    BY <1>2 DEF EnqueueRead, DownIsQuiet
  <2>2. QueueKept /\ Bystands
    BY <1>2, <2>1 DEF EnqueueRead, QueueKept, Bystands, MemoryType
  <2>3. NewIsHandled
    BY <1>2 DEF EnqueueRead, NewIsHandled, MemoryType
  <2> QED BY <2>2, <2>3, QuietMoves
<1>3. CASE EnqueuePush(j)
  <2>1. Up
    BY <1>3 DEF EnqueuePush, DownIsQuiet
  <2>2. Bystands
    BY <1>3, <2>1 DEF EnqueuePush, Bystands, MemoryType
  <2>3. /\ QueueConsistent' /\ InQueue(j)'
        /\ \A k \in Jobs : InQueue(k) => InQueue(k)'
    BY <1>3, EnqueueQueues, LanesAssumption DEF EnqueuePush, MemoryType
  <2>4. TakenInLane' /\ HandledStays
    BY <1>3, <2>3 DEF EnqueuePush, TakenInLane, HandledStays, Taken
  <2>5. NewIsHandled
    BY <1>3, <2>3 DEF EnqueuePush, NewIsHandled, MemoryType
  <2> QED BY <2>2, <2>3, <2>4, <2>5, BystandsQueues DEF QueueMoves
<1> QED BY <1>1, <1>2, <1>3 DEF CreateStep

\* Damage to a row and its repair.
LEMMA DamageQueues ==
    ASSUME QueueInv, IndInv', LifeStep, NEW j \in Jobs, CorruptRow(j) \/ RepairRow(j)
    PROVE  QueueMoves
<1>1. corruptions' # 0
  BY DEF CorruptRow, RepairRow, IntactIsClean, CounterType
<1>2. QueueKept /\ Bystands
  BY <1>1 DEF CorruptRow, RepairRow, QueueKept, Bystands
<1>3. NewIsHandled
  BY DEF CorruptRow, RepairRow, NewIsHandled, TableType
<1> QED BY <1>2, <1>3, QuietMoves

-----------------------------------------------------------------------------
(* The retry loop *)

\* The retry loop converges a completion.
LEMMA RetryQueues ==
    ASSUME QueueInv, IndInv', LifeStep,
           \/ \E j \in Jobs : RetryPending(j)
           \/ ConvergeEffects(Retry) \/ MarkCompletionDone(Retry)
    PROVE  QueueMoves
<1>1. /\ Up /\ pc'[Boot] = pc[Boot] /\ pc'[Retry] \notin TickPcs
      /\ UNCHANGED <<tick, creating, queue>>
      /\ \A t \in Workers : pc'[t] = pc[t] /\ job'[t] = job[t]
  BY ThreadsAssumption DEF RetryPending, ConvergeEffects, MarkCompletionDone, AfterConverge,
     ThreadType, TickPcs, DownIsQuiet
<1>2. QueueKept /\ Bystands
  BY <1>1 DEF QueueKept, Bystands
<1>3. NewIsHandled
  BY <1>1 DEF NewIsHandled, RetryPending, ConvergeEffects, MarkCompletionDone
<1> QED BY <1>2, <1>3, QuietMoves

\* What a step of the tick has to show: it is made in service, it moves no other
\* thread, and no candidate is dropped that is not handled.
TickMoves ==
    /\ Up /\ \A t \in Threads \ {Retry} : pc'[t] = pc[t] /\ job'[t] = job[t]
    /\ UNCHANGED creating
    /\ \A j \in Jobs : row'[j] # row[j] => row'[j] # "queued"
    /\ candidates' \subseteq candidates
    /\ QueueConsistent'
    /\ \A j \in Jobs : InQueue(j) => InQueue(j)'
    /\ \A j \in candidates : Handled(j)' \/ j \in candidates'
    /\ TickIsThorough'

\* A step of the tick has the summary.
LEMMA TickMovesQueue ==
    ASSUME QueueInv, IndInv', LifeStep, TickMoves
    PROVE  QueueMoves
<1>1. /\ pc'[Boot] = "up" /\ Up
      /\ \A w \in Workers : pc'[w] = pc[w] /\ job'[w] = job[w]
  BY ThreadsAssumption DEF TickMoves, Up
<1>2. TakenInLane' /\ HandledStays
  BY <1>1 DEF TickMoves, TakenInLane, HandledStays, Taken
<1>3. CandidatesAreOld' /\ RecoveryQueues' /\ ServiceBegins
  BY <1>1 DEF TickMoves, CandidatesAreOld, RecoveryQueues, ServiceBegins
<1>4. NewIsHandled
  BY DEF TickMoves, NewIsHandled
<1>5. CandidatesAreHandled
  BY DEF TickMoves, CandidatesAreHandled
<1> QED BY <1>2, <1>3, <1>4, <1>5 DEF TickMoves, QueueMoves

\* The tick at work, in a process that is up, on a stored candidate.
LEMMA BusyTick ==
    ASSUME QueueInv, pc[Retry] \in TickPcs
    PROVE  /\ Up /\ Retry \in Threads
           /\ candidates \subseteq Jobs /\ todo \cup kept \subseteq candidates
           /\ \A j \in candidates : j \in todo \cup kept \/ Handled(j)
           /\ pc[Retry] # "visit" => job[Retry] \in candidates
  BY ThreadsAssumption DEF TickPcs, DownIsQuiet, MemoryType, TickIsThorough

\* What was handled before a step of the tick is so after it.
LEMMA TickHandled ==
    ASSUME QueueInv, UNCHANGED <<pc[Boot], creating>>,
           \A w \in Workers : pc'[w] = pc[w] /\ job'[w] = job[w],
           \A k \in Jobs : row'[k] # row[k] => row'[k] # "queued",
           \A k \in Jobs : InQueue(k) => InQueue(k)'
    PROVE  \A k \in candidates : Handled(k) => Handled(k)'
  BY DEF Handled, MemoryType

\* A tick begins with a snapshot of the candidates.
LEMMA TickStartQueues ==
    ASSUME QueueInv, IndInv', LifeStep, TickStart
    PROVE  QueueMoves
<1>1. /\ pc'[Retry] = "visit" /\ todo' = candidates /\ kept' = {}
      /\ UNCHANGED <<row, queue, candidates, creating>> /\ Up
      /\ \A t \in Threads \ {Retry} : pc'[t] = pc[t] /\ job'[t] = job[t]
  BY ThreadsAssumption DEF TickStart, ThreadType
<1>2. TickIsThorough'
  BY <1>1 DEF TickIsThorough
<1>3. QueueConsistent' /\ \A j \in Jobs : InQueue(j) => InQueue(j)'
  BY <1>1 DEF QueueConsistent, InQueue, InLane
<1> QED BY <1>1, <1>2, <1>3, TickMovesQueue DEF TickMoves

\* A candidate is read, or kept for the next tick.
LEMMA TickVisitQueues ==
    ASSUME QueueInv, IndInv', LifeStep, NEW j \in Jobs, TickVisit(j)
    PROVE  QueueMoves
<1>0. /\ Up /\ Retry \in Threads /\ todo \cup kept \subseteq candidates
      /\ \A k \in candidates : k \in todo \cup kept \/ Handled(k)
  BY BusyTick DEF TickVisit, TickPcs
<1>1. /\ UNCHANGED <<row, queue, candidates, creating>>
      /\ todo' \cup kept' = todo \cup kept
      /\ \A t \in Threads \ {Retry} : pc'[t] = pc[t] /\ job'[t] = job[t]
  <2>1. /\ UNCHANGED <<row, queue, candidates, creating>>
        /\ \A t \in Threads \ {Retry} : pc'[t] = pc[t] /\ job'[t] = job[t]
    BY <1>0 DEF TickVisit, ThreadType
  <2>2. \/ todo' = todo \ {j} /\ kept' = kept \cup {j}
        \/ todo' = todo /\ kept' = kept
    BY DEF TickVisit
  <2>3. j \in todo
    BY DEF TickVisit
  <2> QED BY <2>1, <2>2, <2>3
<1>2. /\ pc'[Retry] # "visit" => job'[Retry] \in candidates
      /\ pc'[Retry] = "repaired" => seen'[Retry] = row[job'[Retry]]
  BY <1>0 DEF TickVisit, ThreadType
<1>3. QueueConsistent' /\ \A k \in Jobs : InQueue(k) => InQueue(k)'
  BY <1>1 DEF QueueConsistent, InQueue, InLane
<1>4. \A k \in candidates : Handled(k) => Handled(k)'
  BY <1>1, <1>3, TickHandled, ThreadsAssumption
<1>5. TickIsThorough'
  BY <1>0, <1>1, <1>2, <1>4 DEF TickIsThorough
<1> QED BY <1>0, <1>1, <1>3, <1>5, TickMovesQueue DEF TickMoves

\* The tick disposes of a candidate: it is handled, or kept for the next tick.
LEMMA DisposeQueues ==
    ASSUME QueueInv, IndInv', LifeStep, pc[Retry] \in TickPcs \ {"visit"},
           NEW j \in Jobs, j = job[Retry], NEW again \in BOOLEAN, Dispose(j, again),
           UNCHANGED creating,
           \A k \in Jobs : row'[k] # row[k] => row'[k] # "queued",
           QueueConsistent', \A k \in Jobs : InQueue(k) => InQueue(k)',
           again \/ Handled(j)'
    PROVE  QueueMoves
<1>0. /\ Up /\ Retry \in Threads /\ candidates \subseteq Jobs
      /\ todo \cup kept \subseteq candidates /\ j \in candidates
      /\ \A k \in candidates : k \in todo \cup kept \/ Handled(k)
  BY BusyTick
<1>1. /\ UNCHANGED candidates /\ todo' = todo \ {j}
      /\ kept' = IF again THEN kept \cup {j} ELSE kept
      /\ pc'[Retry] = "visit"
      /\ \A t \in Threads \ {Retry} : pc'[t] = pc[t] /\ job'[t] = job[t]
  BY <1>0 DEF Dispose, ThreadType
<1>2. \A k \in candidates : Handled(k) => Handled(k)'
  BY <1>1, TickHandled, ThreadsAssumption
<1>3. TickIsThorough'
  BY <1>0, <1>1, <1>2 DEF TickIsThorough
<1> QED BY <1>0, <1>1, <1>3, TickMovesQueue DEF TickMoves

\* An exception abandons the tick with its notes, and keeps the candidates.
LEMMA AbandonQueues ==
    ASSUME QueueInv, IndInv', LifeStep, pc[Retry] \in TickPcs, AbandonTick,
           UNCHANGED <<creating, row, queue>>
    PROVE  QueueMoves
<1>0. Up /\ Retry \in Threads
  BY BusyTick
<1>1. /\ UNCHANGED candidates /\ pc'[Retry] = "idle"
      /\ \A t \in Threads \ {Retry} : pc'[t] = pc[t] /\ job'[t] = job[t]
  BY <1>0 DEF AbandonTick, ThreadType
<1>2. TickIsThorough'
  BY <1>1 DEF TickIsThorough, TickPcs
<1>3. QueueConsistent' /\ \A k \in Jobs : InQueue(k) => InQueue(k)'
  BY DEF QueueConsistent, InQueue, InLane
<1> QED BY <1>0, <1>1, <1>2, <1>3, TickMovesQueue DEF TickMoves

\* A quarantined candidate is no longer queued.
LEMMA TickRequarantineQueues ==
    ASSUME QueueInv, IndInv', LifeStep, TickRequarantine
    PROVE  QueueMoves
<1>0. pc[Retry] \in TickPcs \ {"visit"}
  BY DEF TickRequarantine, TickPcs
<1>1. PICK j \in Jobs : j = job[Retry]
  BY <1>0, BusyTick
<1>2. QueueConsistent' /\ \A k \in Jobs : InQueue(k) => InQueue(k)'
  BY DEF TickRequarantine, QueueConsistent, InQueue, InLane
<1>3. CASE UNCHANGED row /\ Dispose(j, TRUE)
  BY <1>0, <1>1, <1>2, <1>3, DisposeQueues DEF TickRequarantine
<1>4. CASE Write(j, QuarantinedStatus(row[j])) /\ Dispose(j, FALSE)
  <2>1. row'[j] # "queued" /\ \A k \in Jobs : k # j => row'[k] = row[k]
    BY <1>4 DEF QuarantinedStatus, TableType
  <2>2. Handled(j)'
    BY <2>1 DEF Handled
  <2> QED BY <1>0, <1>1, <1>2, <1>4, <2>1, <2>2, DisposeQueues DEF TickRequarantine
<1> QED BY <1>1, <1>3, <1>4 DEF TickRequarantine

\* A repaired candidate is queued, past the queue, or kept for the next tick.
LEMMA TickResolveRepairedQueues ==
    ASSUME QueueInv, IndInv', LifeStep, TickResolveRepaired
    PROVE  QueueMoves
<1>0. pc[Retry] \in TickPcs \ {"visit"} /\ pc[Retry] = "repaired"
  BY DEF TickResolveRepaired, TickPcs
<1>1. PICK j \in Jobs : j = job[Retry]
  BY <1>0, BusyTick
<1>2. queue' = queue => QueueConsistent' /\ \A k \in Jobs : InQueue(k) => InQueue(k)'
  BY DEF QueueConsistent, InQueue, InLane
<1>3. CASE AbandonTick /\ UNCHANGED <<row, queue>>
  BY <1>0, <1>3, AbandonQueues DEF TickResolveRepaired
<1>4. CASE Dispose(j, TRUE) /\ UNCHANGED <<row, queue>>
  BY <1>0, <1>1, <1>2, <1>4, DisposeQueues DEF TickResolveRepaired
<1>5. CASE Dispose(j, FALSE) /\ UNCHANGED row /\ Enqueue(j, LaneOf[j])
  <2>1. /\ QueueConsistent' /\ InQueue(j)'
        /\ \A k \in Jobs : InQueue(k) => InQueue(k)'
    BY <1>5, EnqueueQueues, LanesAssumption DEF MemoryType
  <2>2. Handled(j)'
    BY <2>1 DEF Handled
  <2> QED BY <1>0, <1>1, <1>5, <2>1, <2>2, DisposeQueues DEF TickResolveRepaired
<1>6. CASE Dispose(j, FALSE) /\ UNCHANGED <<row, queue>> /\ row[j] # "queued"
  <2>1. Handled(j)'
    BY <1>6 DEF Handled
  <2> QED BY <1>0, <1>1, <1>2, <1>6, <2>1, DisposeQueues DEF TickResolveRepaired
<1>7. CASE /\ Dispose(j, FALSE) /\ UNCHANGED queue
           /\ \E s \in {"failed", "cancelled"} : Write(j, s)
  <2>1. row'[j] # "queued" /\ \A k \in Jobs : k # j => row'[k] = row[k]
    BY <1>7 DEF TableType
  <2>2. Handled(j)'
    BY <2>1 DEF Handled
  <2> QED BY <1>0, <1>1, <1>2, <1>7, <2>1, <2>2, DisposeQueues DEF TickResolveRepaired
<1>8. CASE seen[Retry] = "queued"
  BY <1>1, <1>3, <1>5, <1>6, <1>8
     DEF TickResolveRepaired, INTERRUPTED_JOB_STATUSES, TERMINAL_JOB_STATUSES
<1>9. CASE seen[Retry] \in INTERRUPTED_JOB_STATUSES \cup {"cancel_requested"}
  <2>1. QuarantinedStatus(seen[Retry]) \in {"failed", "cancelled"}
    BY <1>9 DEF QuarantinedStatus
  <2> QED
    BY <1>1, <1>3, <1>4, <1>7, <1>9, <2>1
       DEF TickResolveRepaired, INTERRUPTED_JOB_STATUSES, TERMINAL_JOB_STATUSES
<1>10. CASE seen[Retry] \in TERMINAL_JOB_STATUSES
  <2>1. row[j] # "queued"
    BY <1>0, <1>1, <1>10 DEF TickIsThorough, TERMINAL_JOB_STATUSES
  <2> QED
    BY <1>1, <1>6, <1>10, <2>1
       DEF TickResolveRepaired, INTERRUPTED_JOB_STATUSES, TERMINAL_JOB_STATUSES
<1> QED BY <1>8, <1>9, <1>10 DEF TickResolveRepaired

\* At its end, the tick gives up only the candidates that are handled.
LEMMA TickEndQueues ==
    ASSUME QueueInv, IndInv', LifeStep, TickEnd
    PROVE  QueueMoves
<1>0. /\ Up /\ Retry \in Threads /\ todo \cup kept \subseteq candidates
      /\ \A k \in candidates : k \in todo \cup kept \/ Handled(k)
  BY BusyTick DEF TickEnd, TickPcs
<1>1. /\ UNCHANGED <<row, queue, creating>> /\ candidates' = kept /\ todo = {}
      /\ pc'[Retry] = "idle"
      /\ \A t \in Threads \ {Retry} : pc'[t] = pc[t] /\ job'[t] = job[t]
  BY <1>0 DEF TickEnd, ThreadType
<1>2. QueueConsistent' /\ \A k \in Jobs : InQueue(k) => InQueue(k)'
  BY <1>1 DEF QueueConsistent, InQueue, InLane
<1>3. \A k \in candidates : Handled(k) => Handled(k)'
  BY <1>1, <1>2, TickHandled, ThreadsAssumption
<1>4. TickIsThorough'
  BY <1>1 DEF TickIsThorough, TickPcs
<1> QED BY <1>0, <1>1, <1>2, <1>3, <1>4, TickMovesQueue DEF TickMoves

-----------------------------------------------------------------------------
(* Recovery and crashes *)

\* What a step of recovery has to show: nothing else runs, the queue only grows,
\* no row becomes queued, and the candidates it adds and the queued jobs it lists
\* are old.
BootMoves ==
    /\ ~Up
    /\ \A t \in Threads \ {Boot} : pc'[t] = pc[t] /\ job'[t] = job[t]
    /\ UNCHANGED creating
    /\ \A j \in Jobs : row'[j] # row[j] => row'[j] # "queued"
    /\ candidates \subseteq candidates'
    /\ QueueConsistent'
    /\ \A j \in Jobs : InQueue(j) => InQueue(j)'
    /\ CandidatesAreOld' /\ RecoveryQueues' /\ ServiceBegins

\* A step of recovery has the summary.
LEMMA BootMovesQueue ==
    ASSUME QueueInv, IndInv', LifeStep, BootMoves
    PROVE  QueueMoves
<1>1. \A t \in Workers \cup {Retry} : t \in Threads \ {Boot}
  BY ThreadsAssumption
<1>2. pc'[Retry] = "idle" /\ \A w \in Workers : pc'[w] = "idle" /\ pc[w] = "idle"
  BY <1>1 DEF BootMoves, DownIsQuiet
<1>3. TakenInLane' /\ TickIsThorough'
  BY <1>2 DEF TakenInLane, TickIsThorough, TickPcs, PreClaimPcs
<1>4. HandledStays
  BY <1>2 DEF BootMoves, HandledStays, Taken, PreClaimPcs
<1>5. NewIsHandled
  BY DEF BootMoves, NewIsHandled
<1>6. CandidatesAreHandled
  BY DEF BootMoves, CandidatesAreHandled
<1> QED BY <1>3, <1>4, <1>5, <1>6 DEF BootMoves, QueueMoves

\* The queue of a step of recovery that does not touch it.
LEMMA BootQueueKept ==
    ASSUME QueueInv, UNCHANGED queue
    PROVE  QueueConsistent' /\ \A j \in Jobs : InQueue(j) => InQueue(j)'
  BY DEF QueueConsistent, InQueue, InLane

\* Recovery looks for the rows that do not decode: they were made before.
LEMMA BootScanQueues ==
    ASSUME QueueInv, IndInv', LifeStep, BootScan
    PROVE  QueueMoves
<1>1. /\ ~Up /\ pc'[Boot] = "poison" /\ UNCHANGED <<queue, row, creating, candidates>>
      /\ \A t \in Threads \ {Boot} : pc'[t] = pc[t] /\ job'[t] = job[t]
  BY DEF BootScan, BootStep, Up, ThreadType
<1>2. \A j \in todo' : creating[j] # "none"
  BY DEF BootScan, BootStep, SubmittedOnce, Stored
<1>3. CandidatesAreOld'
  BY <1>1, <1>2 DEF CandidatesAreOld
<1>4. RecoveryQueues' /\ ServiceBegins
  BY <1>1 DEF RecoveryQueues, ServiceBegins, Up
<1> QED BY <1>1, <1>3, <1>4, BootQueueKept, BootMovesQueue DEF BootMoves

\* A row that could not be quarantined becomes a candidate of the retry loop.
LEMMA BootQuarantineQueues ==
    ASSUME QueueInv, IndInv', LifeStep, NEW j \in Jobs, BootQuarantine(j)
    PROVE  QueueMoves
<1>1. /\ ~Up /\ pc[Boot] = "poison" /\ UNCHANGED <<queue, creating, control>>
      /\ j \in todo /\ todo' \subseteq todo
      /\ candidates' \subseteq candidates \cup {j} /\ candidates \subseteq candidates'
  BY DEF BootQuarantine, BootVisit, Up
<1>2. \A k \in Jobs : row'[k] # row[k] => row'[k] # "queued"
  BY DEF BootQuarantine, QuarantinedStatus, TableType
<1>3. creating[j] \in {"accepted", "error"}
  BY <1>1 DEF CandidatesAreOld, DownIsQuiet, MemoryType
<1>4. CandidatesAreOld'
  BY <1>1, <1>3 DEF CandidatesAreOld
<1>5. RecoveryQueues' /\ ServiceBegins
  BY <1>1 DEF RecoveryQueues, ServiceBegins, Up
<1> QED BY <1>1, <1>2, <1>4, <1>5, BootQueueKept, BootMovesQueue DEF BootMoves

\* The steps of recovery between the quarantine and the list of queued jobs.
LEMMA BootMiddleQueues ==
    ASSUME QueueInv, IndInv', LifeStep,
           \/ BootList \/ BootPending \/ ConvergeEffects(Boot) \/ MarkCompletionDone(Boot)
           \/ \E j \in Jobs : BootFinalize(j) \/ BootConverge(j)
    PROVE  QueueMoves
<1> DEFINE Middle == /\ ~Up /\ pc'[Boot] \in BootPcs \ {"poison", "requeue", "up"}
                     /\ UNCHANGED <<queue, creating, candidates>>
                     /\ \A t \in Threads \ {Boot} : pc'[t] = pc[t] /\ job'[t] = job[t]
                     /\ \A j \in Jobs : row'[j] # row[j] => row'[j] # "queued"
<1>1. ASSUME BootList \/ BootPending PROVE Middle
  BY <1>1 DEF BootList, BootPending, BootStep, Up, ThreadType, BootPcs
<1>2. ASSUME ConvergeEffects(Boot) \/ MarkCompletionDone(Boot) PROVE Middle
  BY <1>2, ThreadsAssumption
     DEF ConvergeEffects, MarkCompletionDone, AfterConverge, Up, ThreadType, BootPcs,
         ConvergePcs
<1>3. ASSUME NEW j \in Jobs, BootFinalize(j) PROVE Middle
  BY <1>3 DEF BootFinalize, BootVisit, Up, BootPcs, QuarantinedStatus, TableType
<1>4. ASSUME NEW j \in Jobs, BootConverge(j) PROVE Middle
  BY <1>4 DEF BootConverge, BootVisit, Up, ThreadType, BootPcs, ConvergePcs
<1>5. Middle
  BY <1>1, <1>2, <1>3, <1>4
<1>6. CandidatesAreOld' /\ RecoveryQueues' /\ ServiceBegins
  BY <1>5 DEF CandidatesAreOld, RecoveryQueues, ServiceBegins, Up
<1> QED BY <1>5, <1>6, BootQueueKept, BootMovesQueue DEF BootMoves

\* What recovery lists is every queued job, unless a row is damaged.
LEMMA BootAssetsQueues ==
    ASSUME QueueInv, IndInv', LifeStep, BootAssets
    PROVE  QueueMoves
<1>1. /\ ~Up /\ pc'[Boot] = "requeue"
      /\ UNCHANGED <<queue, row, creating, candidates, corruptions>>
      /\ todo' = {j \in Jobs : Decodable(j) /\ row[j] = "queued"}
      /\ \A t \in Threads \ {Boot} : pc'[t] = pc[t] /\ job'[t] = job[t]
  BY DEF BootAssets, BootStep, Up, ThreadType
<1>2. RecoveryQueues'
  <2> SUFFICES ASSUME faults' + corruptions' = 0, NEW j \in Jobs, row[j] = "queued"
               PROVE  j \in todo'
    BY <1>1 DEF RecoveryQueues
  <2>1. corruptions = 0
    <3>1. \A m, n \in Nat : m + n = 0 => n = 0
      OBVIOUS
    <3> QED BY <1>1, <3>1 DEF CounterType
  <2> QED BY <1>1, <2>1 DEF IntactIsClean, Decodable
<1>3. CandidatesAreOld' /\ ServiceBegins
  BY <1>1 DEF CandidatesAreOld, ServiceBegins, Up
<1> QED BY <1>1, <1>2, <1>3, BootQueueKept, BootMovesQueue DEF BootMoves

\* A job recovery visits is queued, unless the read fails or the row is damaged.
LEMMA BootEnqueueQueues ==
    ASSUME QueueInv, IndInv', LifeStep, NEW j \in Jobs, BootEnqueue(j)
    PROVE  QueueMoves
<1>1. /\ ~Up /\ pc[Boot] = "requeue" /\ todo' = todo \ {j}
      /\ UNCHANGED <<row, creating, control, candidates, corruptions, poison>>
      /\ UNCHANGED queue \/ Enqueue(j, LaneOf[j])
  BY DEF BootEnqueue, BootVisit, Up
<1>2. QueueConsistent' /\ \A k \in Jobs : InQueue(k) => InQueue(k)'
  <2>1. CASE UNCHANGED queue
    BY <2>1, BootQueueKept
  <2>2. CASE Enqueue(j, LaneOf[j])
    BY <2>2, EnqueueQueues, LanesAssumption DEF MemoryType
  <2> QED BY <1>1, <2>1, <2>2
<1>3. RecoveryQueues'
  <2> SUFFICES ASSUME faults' + corruptions' = 0, NEW k \in Jobs, row[k] = "queued"
               PROVE  k \in todo' \/ InQueue(k)'
    BY <1>1 DEF RecoveryQueues
  <2>1. faults' = 0 /\ corruptions = 0
    <3>1. \A m, n \in Nat : m + n = 0 => m = 0 /\ n = 0
      OBVIOUS
    <3> QED BY <1>1, <3>1 DEF CounterType
  <2>2. faults = 0 /\ faults' = faults
    BY <2>1 DEF BootEnqueue, CounterType
  <2>3. k \in todo \/ InQueue(k)
    BY <1>1, <2>1, <2>2 DEF RecoveryQueues
  <2>4. CASE k = j
    <3>1. Decodable(j)
      BY <2>1, <2>4 DEF IntactIsClean, Decodable
    <3>2. Enqueue(j, LaneOf[j])
      BY <2>1, <2>2, <2>4, <3>1 DEF BootEnqueue, CounterType
    <3>3. InQueue(j)'
      BY <3>2, EnqueueQueues, LanesAssumption DEF MemoryType
    <3> QED BY <2>4, <3>3
  <2>5. CASE k # j
    BY <1>1, <1>2, <2>3, <2>5
  <2> QED BY <2>4, <2>5
<1>4. CandidatesAreOld' /\ ServiceBegins
  BY <1>1 DEF CandidatesAreOld, ServiceBegins, Up
<1> QED BY <1>1, <1>2, <1>3, <1>4, BootMovesQueue DEF BootMoves

\* Service begins with every queued job visited.
LEMMA BootUpQueues ==
    ASSUME QueueInv, IndInv', LifeStep, BootUp
    PROVE  QueueMoves
<1>1. /\ ~Up /\ pc[Boot] = "requeue" /\ pc'[Boot] = "up" /\ todo = {}
      /\ UNCHANGED <<queue, row, creating, candidates>>
      /\ \A t \in Threads \ {Boot} : pc'[t] = pc[t] /\ job'[t] = job[t]
  BY DEF BootUp, BootStep, Up, ThreadType
<1>2. CandidatesAreOld' /\ RecoveryQueues' /\ ServiceBegins
  BY <1>1 DEF CandidatesAreOld, RecoveryQueues, ServiceBegins
<1> QED BY <1>1, <1>2, BootQueueKept, BootMovesQueue DEF BootMoves

\* A crash leaves nothing to keep.
LEMMA CrashQueues ==
    ASSUME QueueInv, IndInv', LifeStep, Crash
    PROVE  QueueMoves
<1>1. /\ pc'[Boot] = "down" /\ ~Up'
      /\ \A t \in Threads \ {Boot} : pc'[t] = "idle"
      /\ candidates' = {} /\ UNCHANGED row
      /\ \A l \in Lanes : queue'[l] = <<>>
  BY DEF Crash, Up
<1>2. \A t \in Workers \cup {Retry} : t \in Threads \ {Boot}
  BY ThreadsAssumption
<1>3. QueueConsistent'
  BY <1>1 DEF QueueConsistent
<1>4. TakenInLane' /\ TickIsThorough' /\ CandidatesAreOld' /\ RecoveryQueues'
  BY <1>1, <1>2
     DEF TakenInLane, TickIsThorough, TickPcs, PreClaimPcs, CandidatesAreOld, RecoveryQueues
<1>5. HandledStays /\ CandidatesAreHandled /\ ServiceBegins
  BY <1>1 DEF HandledStays, CandidatesAreHandled, ServiceBegins
<1>6. NewIsHandled
  BY <1>1 DEF NewIsHandled, Crash, MemoryType
<1> QED BY <1>3, <1>4, <1>5, <1>6 DEF QueueMoves

-----------------------------------------------------------------------------
(* The invariant and the action property *)

\* Every step has the summary.
LEMMA NextQueues ==
    ASSUME QueueInv, ProgramStep, held' \subseteq Jobs
    PROVE  QueueMoves /\ LifeStep /\ OwnershipInv'
<1>0. IndInv' /\ LifeStep
  BY NextPreserves, PreservesIndInv DEF Preserves
<1>1. ASSUME NEW j \in Jobs,
             CreateJob(j) \/ CreateStep(j) \/ RetryPending(j) \/ CorruptRow(j) \/ RepairRow(j)
      PROVE  QueueMoves
  BY <1>0, <1>1, CreateQueues, RetryQueues, DamageQueues
<1>2. ASSUME RetryStep PROVE QueueMoves
  BY <1>0, <1>2, RetryQueues, TickStartQueues, TickVisitQueues, TickRequarantineQueues,
     TickResolveRepairedQueues, TickEndQueues
     DEF RetryStep
<1>3. ASSUME BootRecovery PROVE QueueMoves
  BY <1>0, <1>3, BootScanQueues, BootQuarantineQueues, BootMiddleQueues, BootAssetsQueues,
     BootEnqueueQueues, BootUpQueues
     DEF BootRecovery
<1>4. QueueMoves
  BY <1>0, <1>1, <1>2, <1>3, WorkerQueues, ClientQueues, CrashQueues DEF ProgramStep
<1> QED BY <1>0, <1>4, NextOwnership

\* No step strands a queued job, but for the ways NoStepStrands lists.
LEMMA QueueMovesStrandNone ==
    ASSUME QueueInv, QueueMoves, LifeStep, NEW j \in Jobs, Stranded(j)'
    PROVE  \/ Stranded(j)
           \/ creating[j] # "error" /\ creating'[j] = "error"
           \/ ~Up /\ faults + corruptions > 0
           \/ j \in poison
<1> SUFFICES ASSUME ~(creating[j] # "error" /\ creating'[j] = "error"), j \notin poison
             PROVE  Stranded(j) \/ (~Up /\ faults + corruptions > 0)
  OBVIOUS
<1>1. /\ Up' /\ row'[j] = "queued" /\ ~InQueue(j)' /\ ~Taken(j)' /\ ~Handled(j)'
      /\ creating'[j] \notin {"inserted", "enqueue"} /\ j \notin candidates'
  BY DEF Stranded, Taken, Handled
<1>2. row[j] = "queued"
  BY <1>1, LifeStepKeeps DEF RowKept, QueueMoves, NewIsHandled
<1>3. ~InQueue(j) /\ ~Taken(j)
  BY <1>1 DEF QueueMoves, HandledStays
<1>4. j \notin candidates
  BY <1>1 DEF QueueMoves, CandidatesAreHandled
<1>5. creating[j] \notin {"inserted", "enqueue"}
  BY <1>1 DEF QueueMoves, NewIsHandled
<1>6. CASE Up
  BY <1>2, <1>3, <1>4, <1>5, <1>6 DEF Stranded, Taken
<1>7. CASE ~Up
  <2>1. pc[Boot] = "requeue" /\ todo = {}
    BY <1>1, <1>7 DEF QueueMoves, ServiceBegins
  <2>2. faults + corruptions # 0
    BY <1>2, <1>3, <2>1 DEF RecoveryQueues
  <2>3. \A m, n \in Nat : m + n # 0 => m + n > 0
    OBVIOUS
  <2> QED BY <1>7, <2>2, <2>3 DEF CounterType
<1> QED BY <1>6, <1>7

\* The invariant is inductive.
LEMMA NextQueueInv == QueueInv /\ [Next]_vars => QueueInv'
<1> SUFFICES ASSUME QueueInv, [Next]_vars PROVE QueueInv'
  OBVIOUS
<1>0. held' \subseteq Jobs /\ (ProgramStep \/ UNCHANGED core)
  BY StepKinds
<1>1. CASE ProgramStep
  BY <1>0, <1>1, NextQueues DEF QueueMoves
<1>2. CASE UNCHANGED core
  <2>1. OwnershipInv'
    BY <1>2, StutterOwnership
  <2>2. QueueConsistent' /\ TakenInLane' /\ CandidatesAreOld'
    BY <1>2 DEF core, QueueConsistent, TakenInLane, CandidatesAreOld
  <2>3. TickIsThorough' /\ RecoveryQueues'
    BY <1>2 DEF core, TickIsThorough, RecoveryQueues, Handled, InQueue, InLane
  <2> QED BY <2>1, <2>2, <2>3
<1> QED BY <1>0, <1>1, <1>2

\* The empty queue satisfies it.
LEMMA InitQueueInv == Init => QueueInv
<1> SUFFICES ASSUME Init PROVE QueueInv
  OBVIOUS
<1>1. OwnershipInv
  BY InitOwnership
<1>2. \A t \in Workers \cup {Retry} : t \in Threads /\ t # Boot
  BY ThreadsAssumption
<1>3. QueueConsistent
  BY DEF Init, QueueConsistent
<1>4. TakenInLane /\ CandidatesAreOld /\ TickIsThorough /\ RecoveryQueues
  BY <1>2 DEF Init, TakenInLane, CandidatesAreOld, TickIsThorough, RecoveryQueues, TickPcs,
     PreClaimPcs
<1> QED BY <1>1, <1>3, <1>4

\* The queue holds a job at most once and in its own lane, and neither a tick of
\* the retry loop nor recovery loses a job it is about to queue.
THEOREM QueueIsSound == Spec => []QueueInv
  BY InitQueueInv, NextQueueInv, PTL DEF Spec

\* A queued job is never stranded by a step of a runner thread, of a client or of
\* the retry loop: only by an error reported to the caller of the create call, a
\* failure during recovery, or the repair of a row by hand.
THEOREM NoJobIsStranded == Spec => NoStepStrands
<1> DEFINE Strands(j) == \/ Stranded(j)
                         \/ creating[j] # "error" /\ creating'[j] = "error"
                         \/ ~Up /\ faults + corruptions > 0
                         \/ j \in poison
<1>1. QueueInv /\ [Next]_vars =>
          [QueueConsistent' /\ \A j \in Jobs : Stranded(j)' => Strands(j)]_vars
  <2> SUFFICES ASSUME QueueInv, [Next]_vars
               PROVE  QueueConsistent' /\ \A j \in Jobs : Stranded(j)' => Strands(j)
    OBVIOUS
  <2>0. held' \subseteq Jobs /\ (ProgramStep \/ UNCHANGED core)
    BY StepKinds
  <2>1. CASE ProgramStep
    BY <2>0, <2>1, NextQueues, QueueMovesStrandNone DEF QueueMoves
  <2>2. CASE UNCHANGED core
    BY <2>2 DEF core, QueueConsistent, Stranded, InQueue, InLane, Up
  <2> QED BY <2>0, <2>1, <2>2
<1> QED BY <1>1, QueueIsSound, PTL DEF Spec, NoStepStrands
=============================================================================
