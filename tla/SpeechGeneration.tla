--------------------------- MODULE SpeechGeneration ---------------------------
(***************************************************************************)
(* SpeechGenerator.generate (generators/audio/speech.py): one narration    *)
(* job on a cached speech runtime.                                         *)
(*                                                                         *)
(* Two estimates, in seconds and in samples, refuse a narration that would *)
(* be too long before the model works for it; the samples that really      *)
(* arrive are counted again.  Numbers are those of the code: seconds,      *)
(* samples, hertz; gaps in milliseconds, speed in tenths.  The pieces of   *)
(* the text are those of module SpeechChunks.                              *)
(***************************************************************************)
EXTENDS Integers

CONSTANTS
    Requests,       \* [chars, chunks, gap, speed, sound]
    Advertised,     \* sample rates a runtime may advertise; 0 for none
    Rates,          \* sample rates a chunk may come back with
    Lengths,        \* seconds of audio a chunk may come back with
    MaxFaults       \* bound: probes that raise

MaxOutputSeconds == 600
MaxSampleRate == 96000
MaxChunks == 128
CharactersPerSecond == 6

VARIABLES
    req, pc,
    advertised, \* runtime_obj["sample_rate"]
    cached,     \* the runtime is in the cache and valid
    blame,      \* what an exception out of the lease was about
    cancelled,
    held,       \* errors recorded inside the lease
    calls,      \* chunks synthesized
    rate,       \* their common sample rate; 0 before the first
    samples,    \* received_samples
    published,  \* a WAV file was written
    faults

vars == <<req, pc, advertised, cached, blame, cancelled, held, calls, rate, samples,
          published, faults>>
job == <<req, advertised>>

Ended == {"succeeded", "failed", "cancelled"}

Init ==
    /\ req \in Requests
    /\ advertised \in Advertised
    /\ pc = "new"
    /\ cached = TRUE /\ blame = "nobody"
    /\ cancelled = FALSE /\ held = {}
    /\ calls = 0 /\ rate = 0 /\ samples = 0
    /\ published = FALSE /\ faults = 0

Fault == faults < MaxFaults /\ faults' = faults + 1

Cancel ==
    /\ pc \notin Ended /\ ~cancelled
    /\ cancelled' = TRUE
    /\ UNCHANGED <<job, pc, cached, blame, held, calls, rate, samples, published, faults>>

-----------------------------------------------------------------------------
\* Rounding to the nearest integer, halves to the even one, of a / b.
RoundDiv(a, b) ==
    LET q == a \div b r == a % b IN
    IF 2 * r > b \/ (2 * r = b /\ q % 2 = 1) THEN q + 1 ELSE q

CeilDiv(a, b) == (a + b - 1) \div b

Gaps == IF req.chunks = 0 THEN 0 ELSE req.chunks - 1
GapSamples(r) == RoundDiv(req.gap * r, 1000)

\* _validate_estimated_duration_budget, over a common denominator.
DurationOver ==
    req.chars * 10000 + req.gap * Gaps * CharactersPerSecond * req.speed
        > MaxOutputSeconds * CharactersPerSecond * req.speed * 1000

\* _estimate_joined_samples.
EstimatedSamples(r) ==
    CeilDiv(req.chars * 10 * r, CharactersPerSecond * req.speed) + GapSamples(r) * Gaps

\* _validate_estimated_sample_budget.
SampleBudgetOver(r) == DurationOver \/ EstimatedSamples(r) > r * MaxOutputSeconds

\* _coerce_sample_rate accepts it.
RateIsValid(r) == r \in 1..MaxSampleRate

-----------------------------------------------------------------------------
\* The chunks are made and counted before a runtime is asked for.
Preflight ==
    /\ pc = "new"
    /\ pc' = IF req.chunks \in 1..MaxChunks THEN "waiting" ELSE "failed"
    /\ UNCHANGED <<job, cached, blame, cancelled, held, calls, rate, samples, published,
                   faults>>

Acquire ==
    /\ pc = "waiting"
    /\ pc' \in {"leased"} \cup (IF cancelled THEN {"cancelled"} ELSE {})
    /\ UNCHANGED <<job, cached, blame, cancelled, held, calls, rate, samples, published,
                   faults>>

\* safe_is_cancelled, before and after the use of the runtime.
Probe(clear) ==
    /\ \/ ~cancelled /\ pc' = clear /\ UNCHANGED <<held, faults>>
       \/ cancelled /\ pc' = "exit" /\ held' = held \cup {"cancel"} /\ UNCHANGED faults
       \/ Fault /\ pc' = "exit" /\ held' = held \cup {"probe"}
    /\ UNCHANGED <<job, cached, blame, cancelled, calls, rate, samples, published>>

ProbeBefore == pc = "leased" /\ Probe("checking")

RaiseInLease(about) ==
    /\ cached' = FALSE
    /\ blame' = about
    /\ pc' = "failed"

\* Speed, pitch and chunk controls and the estimate in seconds: refusals are
\* kept until the lease has ended.
CheckControls ==
    /\ pc = "checking"
    /\ IF ~req.sound \/ DurationOver
       THEN pc' = "exit" /\ held' = held \cup {"validation"}
       ELSE pc' = "budget" /\ UNCHANGED held
    /\ UNCHANGED <<job, cached, blame, cancelled, calls, rate, samples, published, faults>>

\* The estimate in samples, when the runtime says how many a second has.
CheckBudget ==
    /\ pc = "budget"
    /\ IF advertised # 0 /\ ~RateIsValid(advertised) THEN RaiseInLease("model")
       ELSE IF advertised # 0 /\ SampleBudgetOver(advertised) THEN RaiseInLease("request")
       ELSE pc' = "synthesizing" /\ UNCHANGED <<cached, blame>>
    /\ UNCHANGED <<job, cancelled, held, calls, rate, samples, published, faults>>

-----------------------------------------------------------------------------
\* Mutant: the gaps are added only when everything has arrived.
TooMuchNoGaps(n, r) == samples + n > r * MaxOutputSeconds

\* received_samples with all the gaps to come is over the limit.
TooMuch(n, r) == samples + n + GapSamples(r) * Gaps > r * MaxOutputSeconds

\* The runtime returns n samples at r hertz for the next chunk.
SynthesizeChunk(n, r) ==
    /\ pc = "synthesizing" /\ calls < req.chunks
    /\ IF \/ ~RateIsValid(r) \/ n > r * MaxOutputSeconds \/ n = 0
          \/ rate \notin {0, r}
       THEN RaiseInLease("model") /\ UNCHANGED <<calls, rate, samples>>
       ELSE IF rate = 0 /\ SampleBudgetOver(r)
       THEN RaiseInLease("request") /\ UNCHANGED <<calls, rate, samples>>
       ELSE IF TooMuch(n, r)
       THEN RaiseInLease("model") /\ UNCHANGED <<calls, rate, samples>>
       ELSE /\ calls' = calls + 1 /\ rate' = r /\ samples' = samples + n
            /\ pc' = IF calls + 1 = req.chunks THEN "late" ELSE "synthesizing"
            /\ UNCHANGED <<cached, blame>>
    /\ UNCHANGED <<job, cancelled, held, published, faults>>

\* synthesize() raises, or its samples are not finite or not mono.
SynthesisFails ==
    /\ pc = "synthesizing"
    /\ RaiseInLease("model")
    /\ UNCHANGED <<job, cancelled, held, calls, rate, samples, published, faults>>

ProbeAfter == pc = "late" /\ Probe("exit")

\* What is raised after the lease.
Outcome ==
    IF "probe" \in held THEN "failed"
    ELSE IF "cancel" \in held THEN "cancelled"
    ELSE IF "validation" \in held THEN "failed" ELSE "joining"

ExitLease ==
    /\ pc = "exit"
    /\ pc' = Outcome
    /\ UNCHANGED <<job, cached, blame, cancelled, held, calls, rate, samples, published,
                   faults>>

\* _concatenate_with_gaps, post-processing, _write_wave_file, the quality
\* report; a report that raises leaves the file.
Publish ==
    /\ pc = "joining"
    /\ IF samples + GapSamples(rate) * Gaps > rate * MaxOutputSeconds
       THEN pc' = "failed" /\ UNCHANGED <<published, faults>>
       ELSE /\ published' = TRUE
            /\ \/ pc' = "succeeded" /\ UNCHANGED faults
               \/ pc' = "failed" /\ Fault
    /\ UNCHANGED <<job, cached, blame, cancelled, held, calls, rate, samples>>

Step ==
    \/ Preflight \/ Acquire \/ ProbeBefore \/ CheckControls \/ CheckBudget
    \/ (\E r \in Rates, s \in Lengths : SynthesizeChunk(s * (IF r < 0 THEN 1 ELSE r), r))
    \/ SynthesisFails \/ ProbeAfter \/ ExitLease \/ Publish

Done == pc \in Ended /\ UNCHANGED vars

Next == Cancel \/ Step \/ Done

Spec == Init /\ [][Next]_vars /\ WF_vars(Step)

-----------------------------------------------------------------------------
(* What has arrived, with all the gaps, never exceeds 600 seconds while the  *)
(* model is still being called, and a published narration has all its chunks *)
(* (speech.py:507-517, 831-841).                                             *)
OutputWithinLimit ==
    /\ calls > 0 => samples + GapSamples(rate) * Gaps <= rate * MaxOutputSeconds
    /\ published => calls = req.chunks

(* A narration estimated to be too long keeps the model busy for at most one *)
(* chunk, the one that shows the sample rate of a runtime that advertises    *)
(* none (speech.py:279-289, 493-500).                                        *)
EstimateStopsEarly ==
    calls > 0 => ~DurationOver /\ EstimatedSamples(rate) <= rate * MaxOutputSeconds

(* The refusals that do drop the runtime are those of the sample estimate:   *)
(* controls out of range and narrations too long in seconds never do.        *)
RefusedControlsKeepRuntime == blame = "request" => req.sound /\ ~DurationOver

(* A job whose cancellation was seen, or whose probe failed, publishes       *)
(* nothing.                                                                  *)
NothingPublishedAfterRefusal == published => held = {}

-----------------------------------------------------------------------------

(* What these rest on: which work had been admitted when the model was       *)
(* called, and what is counted at each place of the program.                 *)
Labels == Ended \cup {"new", "waiting", "leased", "checking", "budget", "synthesizing", "late",
                      "exit", "joining"}

TypeOK ==
    /\ req \in Requests /\ advertised \in Advertised
    /\ pc \in Labels
    /\ blame \in {"nobody", "model", "request"}
    /\ held \subseteq {"probe", "cancel", "validation"}
    /\ calls \in Nat /\ rate \in Int /\ samples \in Int

WorkIsAdmitted ==
    \/ req.sound /\ ~DurationOver
    \/ /\ calls = 0 /\ blame # "request"
       /\ pc \notin {"budget", "synthesizing", "late", "joining"}
       /\ ~(pc = "exit" /\ held = {})

CountsFollowChunks ==
    /\ rate = 0 <=> calls = 0
    /\ calls > 0 => /\ samples + GapSamples(rate) * Gaps <= rate * MaxOutputSeconds
                    /\ EstimatedSamples(rate) <= rate * MaxOutputSeconds

ChunksAreComplete ==
    /\ pc \in {"late", "joining"} => calls = req.chunks
    /\ (pc = "exit" /\ held = {}) => calls = req.chunks
    /\ pc = "joining" => held = {}
    /\ published => pc \in Ended /\ held = {} /\ calls = req.chunks

SpeechInv == TypeOK /\ WorkIsAdmitted /\ CountsFollowChunks /\ ChunksAreComplete
===============================================================================
