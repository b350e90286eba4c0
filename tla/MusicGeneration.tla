--------------------------- MODULE MusicGeneration ---------------------------
(***************************************************************************)
(* AudioGenerator (generators/audio/generator.py): music jobs, short and   *)
(* long, one at a time on the default admission slot, each form on its own *)
(* cached runtime.                                                         *)
(*                                                                         *)
(* A long job works ON the shared model: it sets generation parameters and *)
(* a progress callback that AudioCraft calls back during generation.  The  *)
(* callback reports segments and reads the job's row; what goes wrong      *)
(* there is recorded, only a genuine cancellation interrupts the model.    *)
(* A seed is planted in torch's global generator for the time of the call. *)
(***************************************************************************)
EXTENDS Integers

CONSTANTS
    Jobs, NoJob,
    Requests,       \* [form, valid, duration, stride, seeded, raises]: the last where the
                    \* model raises for it, or "never"
    FrameRate,      \* tokens in a second
    MaxDuration,    \* seconds the model draws in one window
    MaxFaults       \* bound: calls that raise

VARIABLES
    cached,     \* which forms have a valid runtime in the cache
    owner,      \* the job with the lease
    callback,   \* the progress callback set on the long model: its job
    params,     \* the job whose parameters are set on the long model
    rng,        \* whose seed torch's global generator runs on; NoJob: its own
    pc, req, cancelled,
    held,       \* errors recorded inside the lease
    tokens,     \* tokens generated so far
    completed,  \* completed_segments
    reported,   \* the last segment number published
    drawn,      \* the job drew with its own parameters and seed
    wave,       \* its WAV file exists
    faults

modelVars == <<cached, callback, params, rng>>
jobVars == <<req, cancelled, held, tokens, completed, reported, drawn, wave>>
vars == <<modelVars, owner, pc, jobVars, faults>>

Ended == {"succeeded", "failed", "cancelled"}

Init ==
    /\ cached = {} /\ owner = NoJob
    /\ callback = NoJob /\ params = NoJob /\ rng = NoJob
    /\ pc = [j \in Jobs |-> "new"]
    /\ req \in [Jobs -> Requests]
    /\ cancelled = [j \in Jobs |-> FALSE]
    /\ held = [j \in Jobs |-> {}]
    /\ tokens = [j \in Jobs |-> 0]
    /\ completed = [j \in Jobs |-> 0]
    /\ reported = [j \in Jobs |-> 0]
    /\ drawn = [j \in Jobs |-> FALSE]
    /\ wave = [j \in Jobs |-> FALSE]
    /\ faults = 0

Goto(j, l) == pc' = [pc EXCEPT ![j] = l]
Fault == faults < MaxFaults /\ faults' = faults + 1
NoFault == UNCHANGED faults
Hold(j, e) == held' = [held EXCEPT ![j] = @ \cup {e}]
Long(j) == req[j].form = "long"

Cancel(j) ==
    /\ pc[j] \notin Ended /\ ~cancelled[j]
    /\ cancelled' = [cancelled EXCEPT ![j] = TRUE]
    /\ UNCHANGED <<modelVars, owner, pc, req, held, tokens, completed, reported, drawn, wave,
                   faults>>

-----------------------------------------------------------------------------
\* validate_request and what generate resolves before the lease.
Validate(j) ==
    /\ pc[j] = "new"
    /\ Goto(j, IF req[j].valid THEN "waiting" ELSE "failed")
    /\ NoFault
    /\ UNCHANGED <<modelVars, owner, jobVars>>

\* acquire_runtime with cancel_requested as its checkpoint.
Acquire(j) ==
    /\ pc[j] = "waiting" /\ owner = NoJob
    /\ owner' = j
    /\ cached' = cached \cup {req[j].form}
    /\ IF req[j].form = "long" /\ "long" \notin cached
       THEN callback' = NoJob /\ params' = NoJob
       ELSE UNCHANGED <<callback, params>>
    /\ Goto(j, "leased") /\ NoFault
    /\ UNCHANGED <<rng, jobVars>>

CancelledWhileWaiting(j) ==
    /\ pc[j] = "waiting" /\ cancelled[j]
    /\ Goto(j, "cancelled") /\ NoFault
    /\ UNCHANGED <<modelVars, owner, jobVars>>

\* _safe_cancel_requested: never raises.
SafeCancelRequested(j, clear, late) ==
    \/ ~cancelled[j] /\ Goto(j, clear) /\ NoFault /\ UNCHANGED held
    \/ cancelled[j] /\ Goto(j, late) /\ NoFault /\ Hold(j, "cancel")
    \/ Goto(j, late) /\ Fault /\ Hold(j, "probe")

ProbeBefore(j) ==
    /\ pc[j] = "leased"
    /\ SafeCancelRequested(j, "prepared", "exit")
    /\ UNCHANGED <<modelVars, owner, req, cancelled, tokens, completed, reported, drawn, wave>>

\* The finally clauses: the callback is taken off the model and the global
\* generator gets its state back, whether generate() returned or raised.
TearDown(j, returned) == callback' = NoJob /\ rng' = NoJob

\* An exception leaves the lease and the runtime is marked invalid.
RaiseInLease(j, end) ==
    /\ cached' = cached \ {req[j].form}
    /\ owner' = NoJob
    /\ Goto(j, end)

\* set_generation_params.
SetParams(j) == params' = IF Long(j) THEN j ELSE params

\* Inputs are prepared, parameters, callback and seed set; generate() starts.
StartGenerate(j) ==
    /\ pc[j] = "prepared" /\ req[j].raises # "prepared"
    /\ SetParams(j)
    /\ callback' = IF Long(j) THEN j ELSE callback
    /\ rng' = IF req[j].seeded THEN j ELSE rng
    /\ Goto(j, "generating") /\ NoFault
    /\ UNCHANGED <<cached, owner, jobVars>>

\* A melody reference that cannot be read, or a processor that fails.
PreparationFails(j) ==
    /\ pc[j] = "prepared" /\ req[j].raises = "prepared" /\ NoFault
    /\ RaiseInLease(j, "failed")
    /\ UNCHANGED <<callback, params, rng, req, cancelled, held, tokens, completed, reported,
                   drawn, wave>>

-----------------------------------------------------------------------------
\* 1 + ceil(max(0, duration - max_duration) / stride).
SegmentCount(j) ==
    LET over == IF req[j].duration > MaxDuration THEN req[j].duration - MaxDuration ELSE 0
    IN 1 + (over + req[j].stride - 1) \div req[j].stride

\* Where segment i + 1 ends, in tokens.
Boundary(j, i) ==
    LET seconds == MaxDuration + i * req[j].stride
    IN FrameRate * (IF seconds < req[j].duration THEN seconds ELSE req[j].duration)

\* The condition of the callback's loop, within one token of the boundary.
AtBoundary(j) ==
    /\ completed[j] < SegmentCount(j)
    /\ tokens[j] + 1 >= Boundary(j, completed[j])

\* The model goes on: the next call of the callback has more tokens to report,
\* usually in steps smaller than a segment.
Draw(j) ==
    /\ pc[j] = "generating" /\ Long(j)
    /\ ~AtBoundary(j)
    /\ tokens[j] < FrameRate * req[j].duration
    /\ \E n \in {FrameRate, 2 * FrameRate} :
         tokens' = [tokens EXCEPT ![j] =
            IF @ + n < FrameRate * req[j].duration THEN @ + n
            ELSE FrameRate * req[j].duration]
    /\ NoFault
    /\ UNCHANGED <<modelVars, owner, pc, req, cancelled, held, completed, reported, drawn, wave>>

\* The probe of one pass: an error is recorded, a cancellation raised.
SegmentProbe(j) ==
    \/ ~cancelled[j] /\ NoFault
         /\ UNCHANGED <<held, pc, owner, cached, callback, rng>>
    \/ Fault /\ Hold(j, "probe")
         /\ UNCHANGED <<pc, owner, cached, callback, rng>>
    \/ cancelled[j] /\ NoFault
         /\ RaiseInLease(j, "cancelled") /\ TearDown(j, FALSE)
         /\ UNCHANGED held

\* One pass of the loop in report_token_progress: count, publish, probe.
Segment(j) ==
    /\ pc[j] = "generating" /\ Long(j) /\ callback = j
    /\ AtBoundary(j)
    /\ completed' = [completed EXCEPT ![j] = @ + 1]
    /\ reported' = [reported EXCEPT ![j] = completed[j] + 1]
    /\ SegmentProbe(j)
    /\ UNCHANGED <<params, req, cancelled, tokens, drawn, wave>>

\* ... with a publication that raises, which is recorded.
SegmentUnpublished(j) ==
    /\ pc[j] = "generating" /\ Long(j) /\ callback = j
    /\ AtBoundary(j) /\ Fault
    /\ completed' = [completed EXCEPT ![j] = @ + 1]
    /\ IF cancelled[j]
       THEN RaiseInLease(j, "cancelled") /\ TearDown(j, FALSE) /\ UNCHANGED held
       ELSE /\ Hold(j, "progress") \/ held' = [held EXCEPT ![j] = @ \cup {"progress", "probe"}]
            /\ UNCHANGED <<pc, owner, cached, callback, rng>>
    /\ UNCHANGED <<params, req, cancelled, tokens, reported, drawn, wave>>

\* generate() returns; the model may stop a token early, so the callback need
\* not have seen the last boundary.
GenerateReturns(j) ==
    /\ pc[j] = "generating" /\ req[j].raises # "generating"
    /\ Long(j) => ~AtBoundary(j) /\ tokens[j] >= FrameRate * (req[j].duration - 1)
    /\ drawn' = [drawn EXCEPT ![j] = /\ (Long(j) => params = j)
                                     /\ rng = (IF req[j].seeded THEN j ELSE NoJob)]
    /\ TearDown(j, TRUE)
    /\ Goto(j, "late") /\ NoFault
    /\ UNCHANGED <<cached, params, owner, req, cancelled, held, tokens, completed, reported, wave>>

GenerateRaises(j) ==
    /\ pc[j] = "generating" /\ req[j].raises = "generating" /\ NoFault
    /\ RaiseInLease(j, "failed")
    /\ TearDown(j, FALSE)
    /\ UNCHANGED <<params, req, cancelled, held, tokens, completed, reported, drawn, wave>>

ProbeAfter(j) ==
    /\ pc[j] = "late"
    /\ SafeCancelRequested(j, "exit", "exit")
    /\ UNCHANGED <<modelVars, owner, req, cancelled, tokens, completed, reported, drawn, wave>>

-----------------------------------------------------------------------------
\* Mutant: a report that failed half way is forgiven.
OutcomeLax(j) ==
    IF "probe" \in held[j] THEN "failed"
    ELSE IF "cancel" \in held[j] THEN "cancelled" ELSE "publishing"

\* What is raised after the lease, in this order.
Outcome(j) ==
    IF "probe" \in held[j] THEN "failed"
    ELSE IF "cancel" \in held[j] THEN "cancelled"
    ELSE IF "progress" \in held[j] THEN "failed" ELSE "publishing"

ExitLease(j) ==
    /\ pc[j] = "exit"
    /\ owner' = NoJob
    /\ Goto(j, Outcome(j)) /\ NoFault
    /\ UNCHANGED <<modelVars, jobVars>>

\* The last report, the finite check, post-processing, the WAV file and its
\* quality report; whatever raises after the file was written leaves it.
Publish(j) ==
    /\ pc[j] = "publishing"
    /\ \/ /\ Goto(j, "succeeded") /\ NoFault
          /\ wave' = [wave EXCEPT ![j] = TRUE]
          /\ reported' = [reported EXCEPT ![j] =
                IF Long(j) /\ completed[j] < SegmentCount(j) THEN SegmentCount(j) ELSE @]
       \/ /\ Goto(j, "failed") /\ Fault
          /\ wave' \in {wave, [wave EXCEPT ![j] = TRUE]}
          /\ UNCHANGED reported
    /\ UNCHANGED <<modelVars, owner, req, cancelled, held, tokens, completed, drawn>>

Work(j) ==
    \/ Validate(j) \/ Acquire(j) \/ CancelledWhileWaiting(j) \/ ProbeBefore(j)
    \/ StartGenerate(j) \/ PreparationFails(j)
    \/ Draw(j) \/ Segment(j) \/ SegmentUnpublished(j)
    \/ GenerateReturns(j) \/ GenerateRaises(j) \/ ProbeAfter(j) \/ ExitLease(j) \/ Publish(j)

AllEnded == (\A j \in Jobs : pc[j] \in Ended) /\ UNCHANGED vars

Next == (\E j \in Jobs : Cancel(j) \/ Work(j)) \/ AllEnded

Spec == Init /\ [][Next]_vars /\ \A j \in Jobs : WF_vars(Work(j))

-----------------------------------------------------------------------------
(* The callback on the long model belongs to the job that holds the lease;   *)
(* a model in the cache carries none, and torch's global generator is back   *)
(* on its own state, however the last job ended (generator.py:714-723, 890). *)
NothingLeftOnModel ==
    /\ callback \in {NoJob, owner} \/ "long" \notin cached
    /\ (owner = NoJob /\ "long" \in cached) => callback = NoJob
    /\ owner = NoJob => rng = NoJob

(* A job that publishes drew with its own parameters, not with those of the  *)
(* job before it, and on its own seed (generator.py:636-645, 716).           *)
DrawnAsAsked == \A j \in Jobs : pc[j] = "succeeded" => drawn[j]

(* "only an interruption we cannot avoid invalidates, and a broken           *)
(* bookkeeping read is never allowed to become one" (generator.py:612-614):  *)
(* a lease costs the runtime exactly when the model raised, or when the      *)
(* callback found its long job cancelled.                                    *)
DroppedForCause ==
    \A j \in Jobs : owner = j /\ owner' # j =>
        (req[j].form \notin cached' <=>
            \/ pc[j] = req[j].raises
            \/ pc[j] = "generating" /\ cancelled[j] /\ Long(j))

(* Segments are reported in order and none twice or beyond the last; a job   *)
(* that succeeds has reported all of them (generator.py:663-682, 760).       *)
SegmentsReportedInOrder ==
    /\ \A j \in Jobs : reported[j] <= SegmentCount(j)
    /\ \A j \in Jobs : (pc[j] = "succeeded" /\ Long(j)) => reported[j] = SegmentCount(j)

-----------------------------------------------------------------------------

(* What these rest on: whose the lease is and that its model is cached, a    *)
(* callback and a seed belong to the job that generates, and what was        *)
(* counted is what was reported.                                             *)
InLease == {"leased", "prepared", "generating", "late", "exit"}
Labels == Ended \cup InLease \cup {"new", "waiting", "publishing"}

TypeOK ==
    /\ owner \in Jobs \cup {NoJob} /\ callback \in Jobs \cup {NoJob}
    /\ params \in Jobs \cup {NoJob} /\ rng \in Jobs \cup {NoJob}
    /\ cached \subseteq {"long", "short"}
    /\ pc \in [Jobs -> Labels] /\ req \in [Jobs -> Requests]
    /\ held \in [Jobs -> SUBSET {"probe", "cancel", "progress"}]
    /\ completed \in [Jobs -> Nat] /\ reported \in [Jobs -> Nat]
    /\ drawn \in [Jobs -> BOOLEAN]

OwnerIsInLease == \A j \in Jobs : pc[j] \in InLease <=> owner = j

LeasedIsCached == owner # NoJob => req[owner].form \in cached

ModelIsOnLoan ==
    /\ callback # NoJob => /\ owner = callback /\ pc[callback] = "generating"
                           /\ Long(callback)
    /\ rng # NoJob => /\ owner = rng /\ pc[rng] = "generating"
                      /\ req[rng].seeded

DrawnWithOwn(j) ==
    /\ pc[j] = "generating" => /\ Long(j) => params = j /\ callback = j
                               /\ rng = (IF req[j].seeded THEN j ELSE NoJob)
    /\ pc[j] \in {"late", "publishing", "succeeded"} => drawn[j]
    /\ (pc[j] = "exit" /\ held[j] = {}) => drawn[j]

ReportsFollowCount(j) ==
    /\ completed[j] <= SegmentCount(j)
    /\ reported[j] <= SegmentCount(j)
    /\ reported[j] <= completed[j] \/ pc[j] \in Ended
    /\ (pc[j] \notin Ended /\ "progress" \notin held[j]) => reported[j] = completed[j]
    /\ pc[j] = "publishing" => held[j] = {}
    /\ (pc[j] = "succeeded" /\ Long(j)) => reported[j] = SegmentCount(j)

IsAccounted(j) == DrawnWithOwn(j) /\ ReportsFollowCount(j)

JobsInv == TypeOK /\ OwnerIsInLease /\ ModelIsOnLoan /\ \A j \in Jobs : IsAccounted(j)

MusicInv == JobsInv /\ LeasedIsCached
===============================================================================
