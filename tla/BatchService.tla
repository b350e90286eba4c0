---------------------------- MODULE BatchService ----------------------------
(***************************************************************************)
(* One batch of core/batches: a record in a JSON file, its stages of items *)
(* and the child jobs the items are turned into.  Several threads call the *)
(* service at once (route handlers, terminal events, the completion        *)
(* loop); every mutation of the record is one critical section of the      *)
(* repository's lock and so one action here, while job rows live in SQLite *)
(* and change between those sections.  Workers are the rest of the system: *)
(* they claim what is in the queue and finish it.  A crash loses threads   *)
(* and queue; Boot then performs run_startup_recovery.                     *)
(***************************************************************************)
EXTENDS Integers, Sequences, FiniteSets, JobStatuses

CONSTANTS
    Procs,        \* threads that call the service
    Boot,         \* the thread that runs startup recovery
    MaxJobs,      \* child job ids are 1..MaxJobs
    Widths,       \* how many items stage 0 may expand to
    KeepTopN,     \* one entry per stage: winners kept, 0 for None
    Score,        \* the quality score each child job would earn
    PromoteItems, \* positions of items a user may promote
    MaxCrashes, MaxFaults, MaxPoison, MaxBadRefs, MaxAdvances

Jobs    == 1..MaxJobs
Threads == Procs \cup {Boot}

ASSUME BatchAssumption ==
    /\ Boot \notin Procs
    /\ MaxJobs \in Nat /\ Widths \subseteq Nat \ {0}
    /\ KeepTopN \in Seq(Nat) /\ KeepTopN # <<>>
    /\ Score \in [Jobs -> Int]
    /\ PromoteItems \subseteq Nat
    /\ {MaxCrashes, MaxFaults, MaxPoison, MaxBadRefs, MaxAdvances} \subseteq Nat

VARIABLES
    batch,    \* the stored record, or NoBatch
    rows,     \* job rows: status or "absent"
    poison,   \* jobs whose row cannot be decoded
    pending,  \* finished jobs whose completion is not marked done
    alerts,   \* quarantined jobs whose job_failed event is being delivered
    suspects, \* CompletionConverger._poison_retry_candidates
    queue,    \* ids in the in-memory JobQueue
    minted,   \* how many child ids were drawn
    pc, call, \* the threads
    reliable, \* batch_cancellation_scan_was_fully_reliable
    crashes, faults, poisons, badrefs, advances

vars == <<batch, rows, poison, pending, alerts, suspects, queue, minted, pc,
          call, reliable, crashes, faults, poisons, badrefs, advances>>

jobvars == <<rows, poison, pending, alerts, suspects, queue>>
bounds  == <<crashes, poisons, advances>>

NoBatch == [status |-> "absent", stage |-> 0, items |-> <<>>, cancelling |-> FALSE,
            error |-> "none"]
Exists  == batch # NoBatch
STARTUP_BATCH_SCAN_MAX_ATTEMPTS == 3

ITEM_STATUSES  == JOB_STATUSES \cup {"pending"}
BATCH_STATUSES == {"queued", "running", "succeeded", "partial", "failed", "cancelled"}

\* BatchItem.  "from" is the position of the winner it continues, 0 in stage 0.
Items == [stage : Nat, job : Jobs \cup {0}, status : ITEM_STATUSES,
          from : Nat, promoted : BOOLEAN]

\* advance_error is none, a refused advance, or a refused materialisation.
Batches == [status : BATCH_STATUSES, stage : Nat, items : Seq(Items),
            cancelling : BOOLEAN, error : {"none", "advance", "materialize"}]

is_terminal_status(status) == status \in TERMINAL_JOB_STATUSES

NewItem(s, winner) ==
    [stage |-> s, job |-> 0, status |-> "pending", from |-> winner, promoted |-> FALSE]

\* The locals of a call: what was called, for which stage or child, the ids
\* it still has to visit and what it has found out.  Boot also keeps the
\* children it has yet to reconcile and where it goes on after them.
NoCall == [op |-> "none", stage |-> 0, child |-> 0, todo |-> <<>>, seen |-> "none",
           incomplete |-> FALSE, broke |-> FALSE, result |-> "none", tries |-> 0,
           list |-> {}, back |-> "idle"]

Ops == {"none", "create", "advance", "child", "cancel", "resume_cancel", "resume_stage"}
Pcs == {"idle", "assign", "check", "create", "authorize", "revoke", "clear", "settle",
        "returned", "child", "advance", "intent", "signal", "reconcile"}
BootPcs == {"up", "b_poison", "b_cancel", "b_resume", "b_classify", "b_converge",
            "b_reconcile", "b_enqueue"}

Calls == [op : Ops, stage : Nat, child : Jobs \cup {0}, todo : Seq(Jobs),
          seen : JOB_STATUSES \cup {"none"}, incomplete : BOOLEAN, broke : BOOLEAN,
          result : {"none", "record", "raised", "error"},
          tries : 0..STARTUP_BATCH_SCAN_MAX_ATTEMPTS, list : SUBSET Jobs,
          back : {"idle", "b_cancel", "b_reconcile"}]

TypeOK ==
    /\ batch \in Batches \cup {NoBatch}
    /\ rows \in [Jobs -> JOB_STATUSES \cup {"absent"}]
    /\ {poison, pending, alerts, suspects, queue} \subseteq SUBSET Jobs
    /\ minted \in 0..MaxJobs
    /\ pc \in [Threads -> Pcs \cup BootPcs]
    /\ call \in [Threads -> Calls]
    /\ reliable \in BOOLEAN

Init ==
    /\ batch = NoBatch
    /\ rows = [j \in Jobs |-> "absent"]
    /\ poison = {} /\ pending = {} /\ alerts = {} /\ suspects = {} /\ queue = {}
    /\ minted = 0
    /\ pc = [t \in Threads |-> IF t = Boot THEN "up" ELSE "idle"]
    /\ call = [t \in Threads |-> NoCall]
    /\ reliable = TRUE
    /\ crashes = 0 /\ faults = 0 /\ poisons = 0 /\ badrefs = 0 /\ advances = 0

Up == pc[Boot] = "up"

\* A read of the batch file works, or hits a transient OSError: get answers
\* None, get_or_diagnose "uncertain".
Reads     == faults' = faults
ReadFails == faults < MaxFaults /\ faults' = faults + 1

\* A mutation under the repository's lock: read, change, save in one step; it
\* does nothing when the record cannot be read.
Mutate(b)     == Reads /\ batch' = b
MutateNothing == ReadFails /\ UNCHANGED batch

\* A scan of the directory that misses the file, and a search for the owner
\* of a job that does: both answer that they are not reliable.
ScanFails   == ReadFails
LookupFails == ReadFails

\* validate_references accepts, or a reference has become unusable.
Valid      == badrefs' = badrefs
RefRefused == badrefs < MaxBadRefs /\ badrefs' = badrefs + 1

Goto(t, p)     == pc' = [pc EXCEPT ![t] = p]
With(t, p, c)  == pc' = [pc EXCEPT ![t] = p] /\ call' = [call EXCEPT ![t] = c]
Return(t, r)   == With(t, "returned", [call[t] EXCEPT !.result = r])
Finished(t)    == With(t, "idle", NoCall)
\* The end of cancel: Boot looks at the answer, a client has it.
CancelEnds(t, r) == IF call[t].op = "resume_cancel" THEN Return(t, r) ELSE Finished(t)
-----------------------------------------------------------------------------
(* What the record says about itself.                                       *)

Positions(b, s) == {k \in 1..Len(b.items) : b.items[k].stage = s}

HasFurtherStage(b) == b.stage + 1 < Len(KeepTopN)

CountStatus(b, S) == Cardinality({k \in 1..Len(b.items) : b.items[k].status \in S})

\* Mutant: the recheck of the cancellation intent is missing.
derive_status_ignoring_cancel(b) ==
    IF b.error # "none" THEN "failed"
    ELSE IF \E k \in 1..Len(b.items) : ~is_terminal_status(b.items[k].status)
         THEN IF CountStatus(b, {"pending"}) = Len(b.items) THEN "queued" ELSE "running"
         ELSE IF HasFurtherStage(b) /\ CountStatus(b, {"succeeded"}) > 0 THEN "running"
         ELSE IF CountStatus(b, {"succeeded"}) = Len(b.items) THEN "succeeded"
         ELSE IF CountStatus(b, {"succeeded"}) > 0 THEN "partial"
         ELSE IF CountStatus(b, {"cancelled"}) > 0 THEN "cancelled" ELSE "failed"

\* _derive_status
derive_status(b) ==
    LET total == Len(b.items)
        good  == CountStatus(b, {"succeeded"})
        done  == CountStatus(b, TERMINAL_JOB_STATUSES) = total
    IN  CASE b.error # "none" -> "failed"
          [] b.error = "none" /\ ~done /\ CountStatus(b, {"pending"}) = total -> "queued"
          [] b.error = "none" /\ ~done /\ CountStatus(b, {"pending"}) # total -> "running"
          [] b.error = "none" /\ done /\ HasFurtherStage(b) /\ good > 0 /\ ~b.cancelling
                -> "running"
          [] OTHER ->
                IF good = total
                THEN IF HasFurtherStage(b) /\ b.cancelling THEN "cancelled" ELSE "succeeded"
                ELSE IF good > 0 THEN "partial"
                ELSE IF CountStatus(b, {"cancelled"}) > 0 THEN "cancelled" ELSE "failed"

\* What _recompute makes of one item: an undecodable row counts only once its
\* raw status is failed or cancelled, a missing row changes nothing.
ItemStatus(item) ==
    IF item.job = 0 \/ rows[item.job] = "absent" THEN item.status
    ELSE IF item.job \in poison /\ rows[item.job] \notin {"failed", "cancelled"}
         THEN item.status
         ELSE rows[item.job]

Recompute(b) ==
    LET seen == [b EXCEPT !.items =
                    [k \in DOMAIN b.items |->
                        [b.items[k] EXCEPT !.status = ItemStatus(b.items[k])]]]
    IN  [seen EXCEPT !.status = derive_status(seen)]

\* A finite set as the sequence in which "before", a strict order, puts it.
Ranked(S, before) ==
    [i \in 1..Cardinality(S) |->
        CHOOSE k \in S : Cardinality({l \in S : <<l, k>> \in before}) = i - 1]

\* The sort key of _rank_winners: (-score, index).
Beats(b, k, l) ==
    LET mine == Score[b.items[k].job]  theirs == Score[b.items[l].job] IN
    mine > theirs \/ (mine = theirs /\ k < l)

\* _rank_winners: the succeeded items of the current stage, best score first,
\* ties by index, cut to keep_top_n.
rank_winners(b) ==
    LET good == {k \in Positions(b, b.stage) : b.items[k].status = "succeeded"}
        ranked == Ranked(good, {kl \in good \X good : Beats(b, kl[1], kl[2])})
        keep == KeepTopN[b.stage + 1]
    IN  IF keep = 0 \/ keep >= Len(ranked) THEN ranked ELSE SubSeq(ranked, 1, keep)

\* Mutant: a stage advances on its first winner.
AdvanceDueEarly(b) ==
    /\ HasFurtherStage(b) /\ ~b.cancelling
    /\ rank_winners(b) # <<>>

\* The early returns of _try_advance_in_place.
AdvanceDue(b) ==
    /\ HasFurtherStage(b)
    /\ ~b.cancelling
    /\ \A k \in Positions(b, b.stage) : is_terminal_status(b.items[k].status)
    /\ rank_winners(b) # <<>>

Advanced(b) ==
    LET winners == rank_winners(b) IN
    [b EXCEPT !.error = "none",
              !.items = @ \o [i \in 1..Len(winners) |-> NewItem(b.stage + 1, winners[i])],
              !.stage = @ + 1]
-----------------------------------------------------------------------------
(* _enqueue_stage: ids first, then a row and an authorisation per item.     *)

\* create_batch up to the first save; stage 0 is materialised next.
CreateBatch(t) ==
    /\ Up /\ pc[t] = "idle" /\ ~Exists
    /\ \E width \in Widths : LET items == [i \in 1..width |-> NewItem(0, 0)] IN
       batch' = [status |-> "queued", stage |-> 0, items |-> items,
                 cancelling |-> FALSE, error |-> "none"]
    /\ With(t, "assign", [NoCall EXCEPT !.op = "create"])
    /\ UNCHANGED <<jobvars, minted, reliable, faults, badrefs, bounds>>

\* The open items of the stage that have no id yet.
NeedsId(b, s) ==
    {k \in Positions(b, s) : b.items[k].job = 0 /\ ~is_terminal_status(b.items[k].status)}

\* Mutant: an item that has an id gets a fresh one.
WithIdsAgain(b, s) ==
    LET open == {k \in Positions(b, s) : ~is_terminal_status(b.items[k].status)} IN
    [b EXCEPT !.items = [k \in DOMAIN b.items |->
        IF k \in open
        THEN [b.items[k] EXCEPT !.job = minted + Cardinality({l \in open : l <= k})]
        ELSE b.items[k]]]

\* They get fresh ids, in item order.
WithIds(b, s) ==
    LET needy == NeedsId(b, s) IN
    [b EXCEPT !.items = [k \in DOMAIN b.items |->
        IF k \in needy
        THEN [b.items[k] EXCEPT !.job = minted + Cardinality({l \in needy : l <= k})]
        ELSE b.items[k]]]

\* The ids of the open items of a stage (all items if s = -1), in order.
OpenJobs(b, s) ==
    LET open == {k \in 1..Len(b.items) : /\ s = -1 \/ b.items[k].stage = s
                                         /\ b.items[k].job # 0
                                         /\ ~is_terminal_status(b.items[k].status)}
        order == Ranked(open, {kl \in open \X open : kl[1] < kl[2]})
    IN  [i \in 1..Len(order) |-> b.items[order[i]].job]

\* The instance has MaxJobs ids.
AssignIds(t) ==
    /\ pc[t] = "assign"
    /\ \/ ReadFails /\ UNCHANGED <<batch, minted>> /\ Return(t, "none")
       \/ /\ Reads /\ batch.cancelling
          /\ UNCHANGED <<batch, minted>>
          /\ Return(t, "record")
       \/ /\ Reads /\ ~batch.cancelling
          /\ LET b == WithIds(batch, call[t].stage)
                 todo == OpenJobs(b, call[t].stage)
             IN  /\ batch' = b
                 /\ minted' = minted + Cardinality(NeedsId(batch, call[t].stage))
                 /\ minted' <= MaxJobs
                 /\ With(t, IF todo = <<>> THEN "clear" ELSE "check",
                         [call[t] EXCEPT !.todo = todo, !.incomplete = FALSE,
                                         !.broke = FALSE])
    /\ UNCHANGED <<jobvars, reliable, badrefs, bounds>>

\* The cheap check before a row is created.
CheckCancelled(t) ==
    /\ pc[t] = "check"
    /\ \/ ReadFails /\ With(t, "settle", [call[t] EXCEPT !.incomplete = TRUE, !.broke = TRUE])
       \/ Reads /\ batch.cancelling /\ With(t, "settle", [call[t] EXCEPT !.broke = TRUE])
       \/ Reads /\ ~batch.cancelling /\ With(t, "create", call[t])
    /\ UNCHANGED <<batch, jobvars, minted, reliable, badrefs, bounds>>

\* The next item of the loop, or its end.
NextItem(t) ==
    LET rest == Tail(call[t].todo) IN
    With(t, IF rest = <<>> THEN "clear" ELSE "check",
         [call[t] EXCEPT !.todo = rest, !.seen = "none"])

\* create_if_absent: the row that is there wins.
CreateIfAbsent(j) ==
    rows' = IF rows[j] = "absent" THEN [rows EXCEPT ![j] = "queued"] ELSE rows

\* create_or_reuse_job_without_enqueue: reuse the row, or validate and insert.
CreateOrReuseJob(t) ==
    LET j == Head(call[t].todo) IN
    /\ pc[t] = "create"
    /\ \/ /\ j \in poison
          /\ NextItem(t) /\ Reads /\ Valid
          /\ UNCHANGED rows
       \/ /\ j \notin poison /\ rows[j] # "absent"
          /\ With(t, "authorize", [call[t] EXCEPT !.seen = rows[j]])
          /\ Reads /\ Valid
          /\ UNCHANGED rows
       \/ /\ rows[j] = "absent" /\ Valid /\ Reads
          /\ CreateIfAbsent(j)
          /\ With(t, "authorize", [call[t] EXCEPT !.seen = "queued"])
       \/ /\ rows[j] = "absent" /\ RefRefused /\ Reads
          /\ Return(t, "raised")
          /\ UNCHANGED rows
       \/ /\ ReadFails /\ Valid
          /\ Return(t, "error")
          /\ UNCHANGED rows
    /\ UNCHANGED <<batch, poison, pending, alerts, suspects, queue, minted, reliable, bounds>>

\* enqueue_job: an undecodable row raises, a cancelled one is left alone.
Pushed(j) == IF rows[j] \in {"absent", "cancelled"} THEN queue ELSE queue \cup {j}

\* Mutant: exposed to the workers without the recheck under the lock.
ExposeUnchecked(t) ==
    LET j == Head(call[t].todo) IN
    /\ pc[t] = "authorize"
    /\ queue' = Pushed(j)
    /\ NextItem(t) /\ Reads
    /\ UNCHANGED <<batch, rows, poison, pending, alerts, suspects, minted, reliable,
                   badrefs, bounds>>

\* What _authorize_and_expose decides, under the lock, on a record it can read.
Decision(status) ==
    IF batch.cancelling THEN "cancelled"
    ELSE IF status # "queued" THEN "not_queued" ELSE "enqueued"

\* The loop's reaction to the decision; exposing is part of deciding.
AuthorizeAndExpose(t) ==
    LET j == Head(call[t].todo)
        decision == Decision(call[t].seen)
    IN
    /\ pc[t] = "authorize"
    /\ \/ /\ ReadFails
          /\ With(t, "settle", [call[t] EXCEPT !.incomplete = TRUE, !.broke = TRUE])
          /\ UNCHANGED queue
       \/ /\ Reads /\ decision = "cancelled"
          /\ With(t, IF is_terminal_status(call[t].seen) THEN "settle" ELSE "revoke",
                  [call[t] EXCEPT !.broke = TRUE])
          /\ UNCHANGED queue
       \/ /\ Reads /\ decision = "not_queued"
          /\ NextItem(t)
          /\ UNCHANGED queue
       \/ /\ Reads /\ decision = "enqueued"
          /\ IF j \in poison
             THEN Return(t, "error") /\ UNCHANGED queue
             ELSE NextItem(t) /\ queue' = Pushed(j)
    /\ UNCHANGED <<batch, rows, poison, pending, alerts, suspects, minted, reliable,
                   badrefs, bounds>>

\* cancel_job on a decodable row.
CancelRow(j) ==
    IF rows[j] \in {"queued"} \cup INTERRUPTED_JOB_STATUSES
    THEN /\ rows' = [rows EXCEPT ![j] = CancelTarget(rows[j])]
         /\ pending' = IF rows[j] = "queued" THEN pending \cup {j} ELSE pending
    ELSE UNCHANGED <<rows, pending>>

\* Mutant: the row that lost against a cancellation is left queued.
RevokeNothing(t) ==
    /\ pc[t] = "revoke"
    /\ Goto(t, "settle")
    /\ UNCHANGED <<call, batch, jobvars, minted, reliable, faults, badrefs, bounds>>

\* cancel_job on a row that lost against a cancellation.
RevokeChild(t) ==
    LET j == Head(call[t].todo) IN
    /\ pc[t] = "revoke"
    /\ IF j \in poison
       THEN Return(t, "error") /\ UNCHANGED <<rows, pending>>
       ELSE Goto(t, "settle") /\ UNCHANGED call /\ CancelRow(j)
    /\ UNCHANGED <<batch, poison, alerts, suspects, queue, minted, reliable, faults,
                   badrefs, bounds>>

\* _clear_stale_materialization_failure
ClearStaleFailure(t) ==
    /\ pc[t] = "clear"
    /\ \/ MutateNothing
       \/ Mutate(IF batch.error = "materialize" THEN [batch EXCEPT !.error = "none"]
                 ELSE batch)
    /\ Goto(t, "settle")
    /\ UNCHANGED <<call, jobvars, minted, reliable, badrefs, bounds>>

\* The reconcile at the end of _enqueue_stage.
SettleStage(t) ==
    /\ pc[t] = "settle"
    /\ \/ MutateNothing /\ Return(t, "none")
       \/ /\ Mutate(Recompute(batch))
          /\ Return(t, IF call[t].incomplete THEN "none" ELSE "record")
    /\ UNCHANGED <<jobvars, minted, reliable, badrefs, bounds>>

\* create_batch's bounded attempts.
FinishCreate(t) ==
    /\ pc[t] = "returned" /\ call[t].op = "create"
    /\ IF call[t].result \in {"none", "error"}
          /\ call[t].tries + 1 < STARTUP_BATCH_SCAN_MAX_ATTEMPTS
       THEN With(t, "assign", [NoCall EXCEPT !.op = "create", !.tries = call[t].tries + 1])
       ELSE Finished(t)
    /\ UNCHANGED <<batch, jobvars, minted, reliable, faults, badrefs, bounds>>
-----------------------------------------------------------------------------
(* Children finish, stages advance.                                         *)

\* A job whose completion is pending, or a delivered job_failed event of a
\* quarantined row: reconcile_child_job begins.
StartChild(t, j) ==
    /\ Up /\ t # Boot /\ pc[t] = "idle" /\ Exists
    /\ j \in alerts \/ (j \in pending /\ j \notin poison)
    /\ alerts' = alerts \ {j}
    /\ With(t, "child", [NoCall EXCEPT !.op = "child", !.child = j])
    /\ UNCHANGED <<batch, rows, poison, pending, suspects, queue, minted, reliable, faults,
                   badrefs, bounds>>

\* _recompute_and_advance_raising, and what _recompute_and_advance_capturing
\* saves instead when a reference of the next stage is refused.
RecomputedAndAdvanced ==
    LET b == Recompute(batch) IN IF AdvanceDue(b) THEN Advanced(b) ELSE b

CapturedRefusal == [Recompute(batch) EXCEPT !.error = "advance", !.status = "failed"]

\* reconcile_child_job: find the owner, recompute and advance it.
ReconcileChild(t) ==
    /\ pc[t] = "child"
    /\ \/ /\ LookupFails /\ Valid
          /\ UNCHANGED batch
          /\ Return(t, "none")
       \/ /\ Mutate(RecomputedAndAdvanced) /\ Valid
          /\ With(t, "assign", [call[t] EXCEPT !.stage = batch'.stage])
       \/ /\ AdvanceDue(Recompute(batch)) /\ RefRefused
          /\ Mutate(CapturedRefusal)
          /\ With(t, "assign", [call[t] EXCEPT !.stage = batch'.stage])
    /\ UNCHANGED <<jobvars, minted, reliable, bounds>>

\* The outcome: RECONCILED marks the completion done, anything else leaves it
\* pending for the retry loop.
FinishChild(t) ==
    /\ pc[t] = "returned" /\ call[t].op = "child"
    /\ pending' = IF call[t].result = "record" /\ call[t].child \notin poison
                  THEN pending \ {call[t].child} ELSE pending
    /\ suspects' = IF t = Boot /\ call[t].result # "record" /\ call[t].child \in poison
                   THEN suspects \cup {call[t].child} ELSE suspects
    /\ IF t = Boot
       THEN With(t, "b_converge", [NoCall EXCEPT !.list = call[t].list,
                                                 !.back = call[t].back])
       ELSE Finished(t)
    /\ UNCHANGED <<batch, rows, poison, alerts, queue, minted, reliable, faults, badrefs,
                   bounds>>

\* POST /batches/{id}/advance: recompute and advance, or raise unsaved.
StartAdvance(t) ==
    /\ Up /\ t # Boot /\ pc[t] = "idle" /\ Exists
    /\ advances < MaxAdvances /\ advances' = advances + 1
    /\ With(t, "advance", [NoCall EXCEPT !.op = "advance"])
    /\ UNCHANGED <<batch, jobvars, minted, reliable, faults, badrefs, crashes, poisons>>

Advance(t) ==
    /\ pc[t] = "advance"
    /\ \/ /\ MutateNothing /\ Valid
          /\ Finished(t)
       \/ /\ Mutate(RecomputedAndAdvanced) /\ Valid
          /\ With(t, "assign", [call[t] EXCEPT !.stage = batch'.stage])
       \/ /\ Reads /\ AdvanceDue(Recompute(batch)) /\ RefRefused
          /\ UNCHANGED batch
          /\ Finished(t)
    /\ UNCHANGED <<jobvars, minted, reliable, bounds>>

FinishAdvance(t) ==
    /\ pc[t] = "returned" /\ call[t].op = "advance"
    /\ IF call[t].result = "record" THEN Goto(t, "reconcile") /\ UNCHANGED call
                                    ELSE Finished(t)
    /\ UNCHANGED <<batch, jobvars, minted, reliable, faults, badrefs, bounds>>

\* get_batch, and the last step of advance and of cancel.
GetBatch ==
    /\ Up /\ Exists
    /\ batch' = Recompute(batch)
    /\ UNCHANGED <<jobvars, minted, pc, call, reliable, faults, badrefs, bounds>>

Promote(k) ==
    /\ Up /\ Exists /\ k \in PromoteItems \cap DOMAIN batch.items
    /\ batch' = Recompute([batch EXCEPT !.items[k].promoted = TRUE])
    /\ UNCHANGED <<jobvars, minted, pc, call, reliable, faults, badrefs, bounds>>
-----------------------------------------------------------------------------
(* cancel                                                                   *)

StartCancel(t) ==
    /\ Up /\ t # Boot /\ pc[t] = "idle" /\ Exists
    /\ With(t, "intent", [NoCall EXCEPT !.op = "cancel"])
    /\ UNCHANGED <<batch, jobvars, minted, reliable, faults, badrefs, bounds>>

\* An undecodable queued row is cancelled by a guarded UPDATE.
CancelledBlind(b) ==
    {j \in poison : /\ rows[j] = "queued"
                    /\ \E k \in DOMAIN b.items : /\ b.items[k].job = j
                                                 /\ ~is_terminal_status(b.items[k].status)}

\* What the intent makes of one item: it is over when it can never run.
IntentStatus(item) ==
    IF is_terminal_status(item.status) THEN item.status
    ELSE IF item.job = 0 \/ rows[item.job] = "absent" THEN "cancelled"
    ELSE IF item.job \in poison /\ rows[item.job] = "queued" THEN "cancelled"
    ELSE item.status

\* _apply_cancellation_intent
ApplyIntent(t) ==
    /\ pc[t] = "intent"
    /\ \/ /\ ReadFails
          /\ UNCHANGED <<batch, rows, pending>>
          /\ CancelEnds(t, "none")
       \/ /\ Reads
          /\ LET b == [batch EXCEPT
                          !.cancelling = TRUE,
                          !.items = [k \in DOMAIN @ |->
                              [@[k] EXCEPT !.status = IntentStatus(batch.items[k])]]]
             IN  /\ batch' = b
                 /\ With(t, "signal", [call[t] EXCEPT !.todo = OpenJobs(b, -1)])
          /\ rows' = [j \in Jobs |-> IF j \in CancelledBlind(batch) THEN "cancelled"
                                     ELSE rows[j]]
          /\ pending' = pending \cup CancelledBlind(batch)
    /\ UNCHANGED <<poison, alerts, suspects, queue, minted, reliable, badrefs, bounds>>

\* cancel_job for every item that was open, outside the lock.
SignalChild(t) ==
    LET todo == call[t].todo IN
    /\ pc[t] = "signal"
    /\ IF todo = <<>>
       THEN Goto(t, "reconcile") /\ UNCHANGED <<call, rows, pending>>
       ELSE /\ With(t, "signal", [call[t] EXCEPT !.todo = Tail(todo)])
            /\ IF Head(todo) \in poison THEN UNCHANGED <<rows, pending>>
                                        ELSE CancelRow(Head(todo))
    /\ UNCHANGED <<batch, poison, alerts, suspects, queue, minted, reliable, faults,
                   badrefs, bounds>>

\* The reconcile that ends cancel and advance.
Reconcile(t) ==
    /\ pc[t] = "reconcile"
    /\ \/ MutateNothing /\ CancelEnds(t, "none")
       \/ Mutate(Recompute(batch)) /\ CancelEnds(t, "record")
    /\ UNCHANGED <<jobvars, minted, reliable, badrefs, bounds>>
-----------------------------------------------------------------------------
(* The rest of the system: workers, damaged rows, the poison retry.         *)

\* A worker takes an id from the queue and claims it if the row is queued.
Claim(j) ==
    /\ Up /\ j \in queue /\ j \notin poison
    /\ queue' = queue \ {j}
    /\ rows' = IF rows[j] = "queued" THEN [rows EXCEPT ![j] = "running"] ELSE rows
    /\ UNCHANGED <<batch, poison, pending, alerts, suspects, minted, pc, call, reliable,
                   faults, badrefs, bounds>>

\* The claim of an undecodable row quarantines it and publishes job_failed.
ClaimPoison(j) ==
    /\ Up /\ j \in queue \cap poison
    /\ queue' = queue \ {j}
    /\ IF rows[j] = "queued"
       THEN /\ rows' = [rows EXCEPT ![j] = "failed"]
            /\ pending' = pending \cup {j}
            /\ alerts' = alerts \cup {j}
       ELSE UNCHANGED <<rows, pending, alerts>>
    /\ UNCHANGED <<batch, poison, suspects, minted, pc, call, reliable, faults, badrefs,
                   bounds>>

\* A generation ends; a requested cancellation wins.
Finish(j) ==
    /\ Up /\ rows[j] \in {"running", "cancel_requested"}
    /\ \E st \in IF rows[j] = "running" THEN {"succeeded", "failed"} ELSE {"cancelled"} :
          rows' = [rows EXCEPT ![j] = st]
    /\ pending' = pending \cup {j}
    /\ UNCHANGED <<batch, poison, alerts, suspects, queue, minted, pc, call, reliable,
                   faults, badrefs, bounds>>

\* A queued row becomes undecodable, or is repaired by hand.
CorruptRow(j) ==
    /\ poisons < MaxPoison /\ poisons' = poisons + 1
    /\ rows[j] = "queued" /\ j \notin poison
    /\ poison' = poison \cup {j}
    /\ UNCHANGED <<batch, rows, pending, alerts, suspects, queue, minted, pc, call,
                   reliable, faults, badrefs, crashes, advances>>

RepairRow(j) ==
    /\ j \in poison
    /\ poison' = poison \ {j}
    /\ UNCHANGED <<batch, rows, pending, alerts, suspects, queue, minted, pc, call,
                   reliable, faults, badrefs, bounds>>

\* diagnose_and_transition_cancelled_poison_child: under the lock, the owner
\* decides whether its undecodable queued child is cancelled or failed.
QuarantineTarget == IF batch.cancelling THEN "cancelled" ELSE "failed"

\* One candidate of the retry tick that still cannot be decoded.
RetryQuarantine(t, j) ==
    /\ Up /\ t # Boot /\ pc[t] = "idle" /\ Exists
    /\ j \in suspects \cap poison
    /\ \/ /\ LookupFails
          /\ UNCHANGED <<rows, pending, suspects, pc, call>>
       \/ /\ Reads
          /\ suspects' = suspects \ {j}
          /\ rows' = IF rows[j] = "queued" THEN [rows EXCEPT ![j] = QuarantineTarget]
                     ELSE rows
          /\ pending' = IF rows[j] = "queued" THEN pending \cup {j} ELSE pending
          /\ With(t, "child", [NoCall EXCEPT !.op = "child", !.child = j])
    /\ UNCHANGED <<batch, poison, alerts, queue, minted, reliable, badrefs, bounds>>

\* _resolve_repaired_job on a queued row: authorize_recovered_queued_job.
RetryRepaired(j) ==
    /\ Up /\ Exists /\ j \in suspects \ poison
    /\ \/ /\ rows[j] = "queued" /\ LookupFails
          /\ UNCHANGED <<rows, pending, suspects, queue>>
       \/ /\ Reads
          /\ suspects' = suspects \ {j}
          /\ \/ /\ rows[j] = "queued" /\ batch.cancelling
                /\ CancelRow(j)
                /\ UNCHANGED queue
             \/ /\ rows[j] = "queued" /\ ~batch.cancelling
                /\ queue' = Pushed(j)
                /\ UNCHANGED <<rows, pending>>
             \/ /\ rows[j] # "queued"
                /\ UNCHANGED <<rows, pending, queue>>
    /\ UNCHANGED <<batch, poison, alerts, minted, pc, call, reliable, badrefs, bounds>>
-----------------------------------------------------------------------------
(* A crash, and run_startup_recovery step by step.                          *)

Crash ==
    /\ crashes < MaxCrashes /\ crashes' = crashes + 1
    /\ queue' = {} /\ alerts' = {} /\ suspects' = {}
    /\ pc' = [t \in Threads |-> IF t = Boot THEN "b_poison" ELSE "idle"]
    /\ call' = [t \in Threads |-> NoCall]
    /\ reliable' = TRUE
    /\ UNCHANGED <<batch, rows, poison, pending, minted, faults, badrefs, poisons, advances>>

\* Step 1: quarantine every undecodable row, or keep it for the retry.
BootPoison ==
    LET queued == {j \in poison : rows[j] = "queued"} IN
    /\ pc[Boot] = "b_poison"
    /\ \/ /\ poison # {} /\ LookupFails
          /\ suspects' = suspects \cup poison
          /\ With(Boot, "b_cancel", NoCall)
          /\ UNCHANGED <<rows, pending>>
       \/ /\ Reads
          /\ rows' = [j \in Jobs |-> IF j \in queued THEN QuarantineTarget ELSE rows[j]]
          /\ pending' = pending \cup queued
          /\ With(Boot, "b_converge", [NoCall EXCEPT !.list = poison, !.back = "b_cancel"])
          /\ UNCHANGED suspects
    /\ UNCHANGED <<batch, poison, alerts, queue, minted, reliable, badrefs, bounds>>

\* reconcile_child_job for the children of a list, then on to the next step.
BootConverge ==
    /\ pc[Boot] = "b_converge"
    /\ IF call[Boot].list = {} \/ ~Exists
       THEN With(Boot, call[Boot].back, NoCall)
       ELSE \E j \in call[Boot].list :
              With(Boot, "child", [NoCall EXCEPT !.op = "child", !.child = j,
                                                 !.list = call[Boot].list \ {j},
                                                 !.back = call[Boot].back])
    /\ UNCHANGED <<batch, jobvars, minted, reliable, faults, badrefs, bounds>>

\* Step 2: resume_pending_cancellations.
BootCancel ==
    /\ pc[Boot] = "b_cancel"
    /\ \/ ScanFails /\ reliable' = FALSE /\ With(Boot, "b_resume", NoCall)
       \/ /\ Reads /\ UNCHANGED reliable
          /\ IF Exists /\ batch.cancelling
             THEN With(Boot, "intent", [NoCall EXCEPT !.op = "resume_cancel"])
             ELSE With(Boot, "b_resume", NoCall)
    /\ UNCHANGED <<batch, jobvars, minted, badrefs, bounds>>

FinishResumeCancel ==
    /\ pc[Boot] = "returned" /\ call[Boot].op = "resume_cancel"
    /\ reliable' = (reliable /\ call[Boot].result = "record")
    /\ With(Boot, "b_resume", NoCall)
    /\ UNCHANGED <<batch, jobvars, minted, faults, badrefs, bounds>>

\* Another of the bounded attempts, or on to step 3.
RetryResume ==
    LET tries == call[Boot].tries + 1 IN
    With(Boot, IF tries < STARTUP_BATCH_SCAN_MAX_ATTEMPTS THEN "b_resume" ELSE "b_classify",
         [NoCall EXCEPT !.tries = IF tries < STARTUP_BATCH_SCAN_MAX_ATTEMPTS
                                  THEN tries ELSE 0])

\* Mutant: only the cancellations are resumed.
BootResumeNothing ==
    /\ pc[Boot] = "b_resume"
    /\ Reads
    /\ With(Boot, "b_classify", NoCall)
    /\ UNCHANGED <<batch, jobvars, minted, reliable, badrefs, bounds>>

\* Step 2b: resume_current_stage_for_all_batches.
BootResume ==
    /\ pc[Boot] = "b_resume"
    /\ \/ ScanFails /\ RetryResume
       \/ /\ Reads
          /\ IF Exists
             THEN With(Boot, "assign", [NoCall EXCEPT !.op = "resume_stage",
                                           !.stage = batch.stage, !.tries = call[Boot].tries])
             ELSE With(Boot, "b_classify", NoCall)
    /\ UNCHANGED <<batch, jobvars, minted, reliable, badrefs, bounds>>

\* What _persist_stage_materialization_failure saves.
MaterializationFailed == [batch EXCEPT !.error = "materialize", !.status = "failed"]

\* Its reaction to a stage: resumed, refused for good, cancelling or open.
FinishResume ==
    LET result == call[Boot].result IN
    /\ pc[Boot] = "returned" /\ call[Boot].op = "resume_stage"
    /\ \/ /\ result = "record" \/ (result = "none" /\ batch.cancelling)
          /\ With(Boot, "b_classify", NoCall)
          /\ UNCHANGED batch /\ Reads
       \/ /\ result = "raised"
          /\ MutateNothing \/ Mutate(MaterializationFailed)
          /\ With(Boot, "b_classify", NoCall)
       \/ /\ result = "error" \/ (result = "none" /\ ~batch.cancelling)
          /\ RetryResume
          /\ UNCHANGED batch /\ Reads
    /\ UNCHANGED <<jobvars, minted, reliable, badrefs, bounds>>

\* Step 3: interrupted rows fail, requested cancellations are completed; step
\* 4 then converges every finished job whose completion is pending.
BootClassify ==
    LET dead == {j \in Jobs \ poison : rows[j] \in {"running", "cancel_requested"}} IN
    /\ pc[Boot] = "b_classify"
    /\ rows' = [j \in Jobs |-> IF j \notin dead THEN rows[j]
                               ELSE IF rows[j] = "running" THEN "failed" ELSE "cancelled"]
    /\ pending' = pending \cup dead
    /\ With(Boot, "b_converge", [NoCall EXCEPT !.list = pending' \ poison,
                                               !.back = "b_reconcile"])
    /\ UNCHANGED <<batch, poison, alerts, suspects, queue, minted, reliable, faults,
                   badrefs, bounds>>

\* Step 5: one reconcile of every batch.
BootReconcile ==
    /\ pc[Boot] = "b_reconcile"
    /\ \/ ScanFails /\ UNCHANGED batch
       \/ Mutate(IF Exists THEN Recompute(batch) ELSE batch)
    /\ With(Boot, "b_enqueue", NoCall)
    /\ UNCHANGED <<jobvars, minted, reliable, badrefs, bounds>>

\* Step 6: every queued row goes back to the queue, unless step 2 could not
\* see every cancellation.
BootEnqueue ==
    /\ pc[Boot] = "b_enqueue"
    /\ queue' = IF reliable THEN queue \cup {j \in Jobs \ poison : rows[j] = "queued"}
                ELSE queue
    /\ With(Boot, "up", NoCall)
    /\ UNCHANGED <<batch, rows, poison, pending, alerts, suspects, minted, reliable, faults,
                   badrefs, bounds>>
-----------------------------------------------------------------------------
StageStep(t) ==
    \/ AssignIds(t) \/ CheckCancelled(t) \/ CreateOrReuseJob(t) \/ AuthorizeAndExpose(t)
    \/ RevokeChild(t) \/ ClearStaleFailure(t) \/ SettleStage(t)

CallStep(t) ==
    \/ StageStep(t) \/ FinishCreate(t)
    \/ ReconcileChild(t) \/ FinishChild(t)
    \/ Advance(t) \/ FinishAdvance(t)
    \/ ApplyIntent(t) \/ SignalChild(t) \/ Reconcile(t)

BootStep ==
    \/ BootPoison \/ BootConverge \/ BootCancel \/ FinishResumeCancel \/ BootResume
    \/ FinishResume \/ BootClassify \/ BootReconcile \/ BootEnqueue

Converge(t) == \E j \in Jobs : StartChild(t, j) \/ RetryQuarantine(t, j)

Next ==
    \/ \E t \in Procs : CreateBatch(t) \/ StartAdvance(t) \/ StartCancel(t) \/ Converge(t)
    \/ \E t \in Threads : CallStep(t)
    \/ BootStep
    \/ GetBatch \/ \E k \in PromoteItems : Promote(k)
    \/ \E j \in Jobs : \/ Claim(j) \/ ClaimPoison(j) \/ Finish(j) \/ CorruptRow(j)
                       \/ RepairRow(j) \/ RetryRepaired(j)
    \/ Crash

Spec == Init /\ [][Next]_vars

\* Threads run on, workers work off the queue, the retry loop comes round.
\* Requests, crashes and damage need not happen.
Fairness ==
    /\ \A t \in Threads : WF_vars(CallStep(t))
    /\ WF_vars(BootStep)
    /\ \A j \in Jobs : WF_vars(Claim(j)) /\ WF_vars(ClaimPoison(j)) /\ WF_vars(Finish(j))
    /\ \A j \in Jobs : SF_vars(\E t \in Procs : StartChild(t, j) \/ RetryQuarantine(t, j))
    /\ \A j \in Jobs : WF_vars(RetryRepaired(j))

FairSpec == Spec /\ Fairness
-----------------------------------------------------------------------------
(* What a batch promises.                                                   *)

ItemOf(j) == {k \in DOMAIN batch.items : batch.items[k].job = j}

\* Every id drawn and every row created belongs to exactly one item, however
\* often a stage is materialised, by whichever threads and across crashes: no
\* child is lost and none is created twice (_enqueue_stage).
ChildrenAreOwned ==
    Exists => /\ \A j \in 1..minted : Cardinality(ItemOf(j)) = 1
              /\ \A j \in Jobs : rows[j] # "absent" => Cardinality(ItemOf(j)) = 1

\* Stage s is over, and the next one consists of one item per winner of it:
\* its best keep_top_n successes.
StageFollows(b, s) ==
    LET good   == {k \in Positions(b, s) : b.items[k].status = "succeeded"}
        next   == Positions(b, s + 1)
        chosen == {b.items[k].from : k \in next}
        score(k) == Score[b.items[k].job]
    IN  /\ \A k \in Positions(b, s) : is_terminal_status(b.items[k].status)
        /\ next # {} /\ chosen \subseteq good
        /\ Cardinality(chosen) = Cardinality(next)
        /\ KeepTopN[s + 1] = 0 => chosen = good
        /\ KeepTopN[s + 1] > 0 => \/ Cardinality(chosen) = KeepTopN[s + 1]
                                 \/ chosen = good
        /\ \A c \in chosen, g \in good \ chosen : score(c) >= score(g)

\* A stage after the first follows from the winners of the stage before, which
\* was over when they were chosen: concurrent completions, advance calls and
\* retries never advance a stage twice or early (_try_advance_in_place).
StagesFollowWinners ==
    Exists => \A s \in 0..(batch.stage - 1) : StageFollows(batch, s)

\* Once the intent to cancel is saved, the running service puts no child of
\* the batch into the queue, whatever its threads had already read
\* (_authorize_and_expose, authorize_recovered_queued_job).
CancelStopsExposure ==
    [][(Up /\ Exists /\ batch.cancelling) => queue' \subseteq queue]_vars

\* The same through a restart: "Such an item can never run".
CancelledItemsNeverRun ==
    [][(Exists /\ batch.cancelling) => queue' \subseteq queue]_vars

\* An item that succeeded or failed keeps that outcome: cancelling concluded
\* work is a no-op, never a rewrite, and its id is never replaced (cancel).
OutcomesAreKept ==
    [][Exists => \A k \in DOMAIN batch.items :
        /\ batch.items[k].job # 0 => batch'.items[k].job = batch.items[k].job
        /\ batch.items[k].status \in {"succeeded", "failed"} =>
              batch'.items[k].status = batch.items[k].status]_vars

\* What was decided stays decided: a saved intent to cancel keeps children
\* out of the running service's queue, whatever its threads had read before,
\* and an item that succeeded or failed keeps its outcome and its job
\* (_authorize_and_expose, cancel).
DecisionsAreKept == CancelStopsExposure /\ OutcomesAreKept

\* Nothing is left to happen by itself.
Quiet ==
    /\ Up /\ \A t \in Procs : pc[t] = "idle"
    /\ pending = {} /\ queue = {} /\ alerts = {} /\ suspects = {}
    /\ \A j \in Jobs : rows[j] \notin {"running", "cancel_requested"}

\* When the service has come to rest without a refused reference or a
\* damaged row, the next read of the batch finds every item over and no stage
\* waiting to be advanced: no crash, read failure or interleaving strands a
\* batch (create_batch, reconcile_child_job,
\* resume_current_stage_for_all_batches).  A cancelling batch that met a read
\* failure may be left with a queued row: it waits for the next cancel call
\* or restart, and nothing runs meanwhile.
QuietIsDone ==
    (Quiet /\ Exists /\ badrefs = 0 /\ poisons = 0 /\ (batch.cancelling => faults = 0)) =>
        LET b == Recompute(batch) IN
        /\ \A k \in DOMAIN b.items : is_terminal_status(b.items[k].status)
        /\ ~AdvanceDue(b)

\* A batch whose cancellation is saved ends with every item over (cancel,
\* resume_pending_cancellations).
CancelSettles ==
    (Exists /\ batch.cancelling) ~>
        (\A k \in DOMAIN batch.items : is_terminal_status(batch.items[k].status))

\* A batch that is not refused ends: all its stages are over.
BatchSettles ==
    Exists ~> (batch.status \in {"succeeded", "partial", "failed", "cancelled"})
-----------------------------------------------------------------------------
(* The inductive invariant *)

\* A call works on a batch that exists and on ids that were drawn.
CallsAreSound ==
    \A t \in Threads :
        /\ pc[t] \in Pcs \ {"idle"} => Exists
        /\ pc[t] \in {"check", "create", "authorize", "revoke"} => call[t].todo # <<>>
        /\ \A i \in DOMAIN call[t].todo : call[t].todo[i] \in 1..minted

\* Ids are drawn before they are used, and for a batch.
IdsAreDrawn ==
    /\ \A k \in DOMAIN batch.items : batch.items[k].job \in 0..minted
    /\ \A j \in Jobs : rows[j] # "absent" => j \in 1..minted
    /\ minted > 0 => Exists

\* An item that is over reads as its row does.  Only an item that a cancel
\* found at the current stage may be over without, or ahead of, its row.
OutcomesAreRows ==
    \A k \in DOMAIN batch.items :
        LET item == batch.items[k] IN
        /\ is_terminal_status(item.status)
        /\ item.status = "cancelled" => ~batch.cancelling \/ item.stage < batch.stage
        => item.job # 0 /\ rows[item.job] = item.status

\* No item belongs to a stage the batch has not reached.
StagesInOrder == \A k \in DOMAIN batch.items : batch.items[k].stage <= batch.stage

\* Every child job belongs to exactly one item of the batch, from the moment
\* its id is chosen: no crash between saving the ids and creating the rows,
\* and no repeated resume, loses a child or makes a second one
\* (_enqueue_stage); with what makes that inductive.
ChildrenAreAccounted ==
    /\ TypeOK /\ CallsAreSound /\ IdsAreDrawn /\ ChildrenAreOwned
    /\ OutcomesAreRows /\ StagesInOrder

IndInv == ChildrenAreAccounted /\ StagesFollowWinners
=============================================================================
