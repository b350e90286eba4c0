--------------------------- MODULE ImageGeneration ---------------------------
(***************************************************************************)
(* ImageGenerator.generate (generators/image/generator.py): image jobs     *)
(* that share one cached diffusers runtime.                                *)
(*                                                                         *)
(* The runtime is leased to one job at a time.  A LoRA is loaded INTO it    *)
(* and stays there for the next job.  An exception that leaves the lease   *)
(* marks the cached runtime invalid (RuntimeHandle.__exit__), which costs  *)
(* a reload of the model; so cancellation and bookkeeping failures are     *)
(* recorded inside the lease and raised after it.  Files are written after *)
(* the lease, with no other job waiting for them.                          *)
(*                                                                         *)
(* Time, pixels and prompts are left out.  A fault is a call that raises:  *)
(* a probe of the job row, a progress report, diffusers, the disk.         *)
(***************************************************************************)
EXTENDS Integers, FiniteSets

CONSTANTS
    Jobs,
    Requests,       \* records [lora, count, valid, stepwise]: stepwise, the pipeline
                    \* accepts callback_on_step_end
    Loras, NoLora,
    MaxFaults,      \* bound: calls that raise
    NoJob

VARIABLES
    \* --- the cached runtime
    cached,     \* none, ready
    owner,      \* the job that holds its execution lock
    active,     \* runtime_obj["active_lora_path"]
    adapters,   \* LoRAs really present in the pipeline
    weights,    \* the LoRA set_adapters selected
    \* --- each job
    pc,
    req,
    cancelled,  \* its row says cancelled
    held,       \* errors recorded inside the lease, raised after it
    index,      \* the loop variable over variations
    images,     \* collected_variations: LoRAs in effect, per variation
    files,      \* files on disk, by variation
    outputs,    \* output_paths
    faults

runtimeVars == <<cached, owner, active, adapters, weights>>
jobVars == <<pc, req, cancelled, held, index, images, files, outputs>>
vars == <<runtimeVars, jobVars, faults>>

Ended == {"succeeded", "failed", "cancelled"}
InLease == {"leased", "inspected", "ready", "inferring", "inferred", "exit"}
Labels == {"new", "waiting", "saving", "saved"} \cup InLease \cup Ended
Count(j) == req[j].count
Variations == 1..4

TypeOK ==
    /\ cached \in {"none", "ready"}
    /\ owner \in Jobs \cup {NoJob}
    /\ active \in Loras \cup {NoLora}
    /\ adapters \subseteq Loras
    /\ weights \in Loras \cup {NoLora}
    /\ pc \in [Jobs -> Labels]
    /\ req \in [Jobs -> Requests]
    /\ cancelled \in [Jobs -> BOOLEAN]
    /\ held \in [Jobs -> SUBSET {"probe", "cancel", "progress", "validation"}]
    /\ index \in [Jobs -> 1..5]
    /\ \A j \in Jobs : DOMAIN images[j] \subseteq Variations
    /\ files \in [Jobs -> SUBSET Variations]
    /\ outputs \in [Jobs -> SUBSET Variations]
    /\ faults \in 0..MaxFaults

Init ==
    /\ cached = "none" /\ owner = NoJob
    /\ active = NoLora /\ adapters = {} /\ weights = NoLora
    /\ pc = [j \in Jobs |-> "new"]
    /\ req \in [Jobs -> Requests]
    /\ \A j, k \in Jobs : req[j].stepwise = req[k].stepwise    \* one pipeline
    /\ cancelled = [j \in Jobs |-> FALSE]
    /\ held = [j \in Jobs |-> {}]
    /\ index = [j \in Jobs |-> 1]
    /\ images = [j \in Jobs |-> <<>>]
    /\ files = [j \in Jobs |-> {}]
    /\ outputs = [j \in Jobs |-> {}]
    /\ faults = 0

Goto(j, l) == pc' = [pc EXCEPT ![j] = l]
Fault == faults < MaxFaults /\ faults' = faults + 1
NoFault == UNCHANGED faults

\* The user cancels a job.
Cancel(j) ==
    /\ pc[j] \notin Ended /\ ~cancelled[j]
    /\ cancelled' = [cancelled EXCEPT ![j] = TRUE]
    /\ UNCHANGED <<runtimeVars, pc, req, held, index, images, files, outputs, faults>>

-----------------------------------------------------------------------------
\* Manifest, parameters, prompt, LoRA path, references: before the lease.
Prepare(j) ==
    /\ pc[j] = "new"
    /\ \/ Goto(j, "waiting") /\ NoFault
       \/ Goto(j, "failed") /\ Fault
    /\ UNCHANGED <<runtimeVars, req, cancelled, held, index, images, files, outputs>>

\* acquire_runtime: waits for the runtime with raise_if_cancelled as its
\* checkpoint, and loads it when none is cached.
Acquire(j) ==
    /\ pc[j] = "waiting"
    /\ owner = NoJob
    /\ owner' = j
    /\ cached' = "ready"
    /\ IF cached = "ready" THEN UNCHANGED <<active, adapters, weights>>
       ELSE active' = NoLora /\ adapters' = {} /\ weights' = NoLora
    /\ Goto(j, "leased")
    /\ NoFault
    /\ UNCHANGED <<req, cancelled, held, index, images, files, outputs>>

CancelledWhileWaiting(j) ==
    /\ pc[j] = "waiting" /\ cancelled[j]
    /\ Goto(j, "cancelled")
    /\ NoFault
    /\ UNCHANGED <<runtimeVars, req, cancelled, held, index, images, files, outputs>>

\* An exception leaves the with-block: RuntimeHandle.__exit__ marks the entry
\* invalid, so that the next job loads the model anew.
RaiseInLease(j, end) ==
    /\ cached' = "none" /\ owner' = NoJob
    /\ Goto(j, end)

\* safe_is_cancelled: what it finds is recorded, and the lease is left in
\* order.
Probe(j, clear) ==
    /\ \/ ~cancelled[j] /\ Goto(j, clear) /\ NoFault /\ UNCHANGED held
       \/ /\ cancelled[j] /\ Goto(j, "exit") /\ NoFault
          /\ held' = [held EXCEPT ![j] = @ \cup {"cancel"}]
       \/ /\ Goto(j, "exit") /\ Fault
          /\ held' = [held EXCEPT ![j] = @ \cup {"probe"}]
    /\ UNCHANGED <<runtimeVars, req, cancelled, index, images, files, outputs>>

ProbeBeforeMutation(j) == pc[j] = "leased" /\ Probe(j, "inspected")

\* The inspection of the runtime (module ImageReferences) sets
\* validation_error; a valid request is probed once more before the LoRA.
Inspect(j) ==
    /\ pc[j] = "inspected"
    /\ \/ /\ ~req[j].valid
          /\ held' = [held EXCEPT ![j] = @ \cup {"validation"}]
          /\ Goto(j, "exit") /\ NoFault
          /\ UNCHANGED <<runtimeVars, req, cancelled, index, images, files, outputs>>
       \/ req[j].valid /\ Probe(j, "ready")

\* Which calls _apply_lora and _reset_lora make for a job that wants l.
LoraSteps(l) ==
    (IF active # NoLora /\ l # active THEN {"reset"} ELSE {})
        \cup (IF l \notin {NoLora, active} THEN {"load"} ELSE {})
        \cup (IF l # NoLora THEN {"select"} ELSE {})

\* _apply_lora succeeds: the claims follow the pipeline.
ApplyLora(j) ==
    LET l == req[j].lora
        kept == IF "reset" \in LoraSteps(l) THEN {} ELSE adapters
    IN
    /\ pc[j] = "ready" /\ index[j] = 1 /\ images[j] = <<>>
    /\ adapters' = IF "load" \in LoraSteps(l) THEN kept \cup {l} ELSE kept
    /\ active' = IF "load" \in LoraSteps(l) THEN l
                 ELSE IF "reset" \in LoraSteps(l) THEN NoLora ELSE active
    /\ weights' = IF "select" \in LoraSteps(l) THEN l
                  ELSE IF "reset" \in LoraSteps(l) THEN NoLora ELSE weights
    /\ Goto(j, "inferred")
    /\ NoFault
    /\ UNCHANGED <<cached, owner, req, cancelled, held, index, images, files, outputs>>

\* Mutant: a failure to change adapters is recorded like a failed probe.
LoraFailureEnds(j) ==
    /\ Goto(j, "exit")
    /\ held' = [held EXCEPT ![j] = @ \cup {"probe"}]
    /\ UNCHANGED <<cached, owner>>

LoraFailure(j) == RaiseInLease(j, "failed") /\ UNCHANGED held

\* One of the calls raises: what was deleted, loaded or claimed until then
\* stays as it is.
ApplyLoraFails(j) ==
    LET l == req[j].lora
        kept == IF "reset" \in LoraSteps(l) THEN {} ELSE adapters
    IN
    /\ pc[j] = "ready" /\ index[j] = 1 /\ images[j] = <<>>
    /\ \/ /\ "reset" \in LoraSteps(l)          \* delete_adapters or unload_lora_weights raised
          /\ adapters' \in {adapters, adapters \ {active}}
          /\ UNCHANGED <<active, weights>>
       \/ /\ "load" \in LoraSteps(l)           \* load_lora_weights raised half way
          /\ adapters' \in {kept, kept \cup {l}}
          /\ active' = IF "reset" \in LoraSteps(l) THEN NoLora ELSE active
          /\ UNCHANGED weights
       \/ /\ "select" \in LoraSteps(l)         \* set_adapters raised
          /\ adapters' = kept \cup {l}
          /\ active' = l
          /\ UNCHANGED weights
    /\ LoraFailure(j)
    /\ Fault
    /\ UNCHANGED <<req, cancelled, index, images, files, outputs>>

-----------------------------------------------------------------------------
\* The loop over variations.  "inferred" is its head: probe, then infer.
ProbeBeforeVariation(j) ==
    /\ pc[j] = "inferred" /\ index[j] <= Count(j)
    /\ Probe(j, "inferring")

\* callback_on_step_end, run by diffusers inside inference: a progress report
\* that raises is recorded, a cancellation raises through the pipeline.
StepEnd(j) ==
    /\ req[j].stepwise /\ pc[j] = "inferring"
    /\ \/ /\ Fault                              \* report_progress raises
          /\ held' = [held EXCEPT ![j] = @ \cup {"progress"}]
          /\ IF cancelled[j] THEN RaiseInLease(j, "cancelled")
                             ELSE UNCHANGED <<pc, cached, owner>>
       \/ /\ cancelled[j] /\ NoFault            \* raise_if_cancelled
          /\ RaiseInLease(j, "cancelled")
          /\ UNCHANGED held
       \/ /\ Fault                              \* the probe itself raises
          /\ RaiseInLease(j, "failed")
          /\ UNCHANGED held
    /\ UNCHANGED <<active, adapters, weights, req, cancelled, index, images, files, outputs>>

\* Diffusers raises.
InferenceFails(j) ==
    /\ pc[j] = "inferring"
    /\ Fault
    /\ RaiseInLease(j, "failed")
    /\ UNCHANGED <<active, adapters, weights, req, cancelled, held, index, images, files,
                   outputs>>

\* What the pipeline draws with: the selected adapter, or whatever is loaded.
InEffect == IF weights = NoLora THEN adapters ELSE {weights} \cap adapters

\* Inference returns: probed again, the image is collected only by a job that
\* may go on, and the loop ends early when a progress report has failed.
InferenceEnds(j) ==
    /\ pc[j] = "inferring"
    /\ \/ /\ cancelled[j] /\ NoFault
          /\ held' = [held EXCEPT ![j] = @ \cup {"cancel"}]
          /\ Goto(j, "exit") /\ UNCHANGED <<index, images>>
       \/ /\ Fault
          /\ held' = [held EXCEPT ![j] = @ \cup {"probe"}]
          /\ Goto(j, "exit") /\ UNCHANGED <<index, images>>
       \/ /\ ~cancelled[j]
          /\ images' = [images EXCEPT ![j] = [v \in 1..index[j] |->
                          IF v = index[j] THEN InEffect ELSE @[v]]]
          /\ index' = [index EXCEPT ![j] = @ + 1]
          /\ \/ NoFault /\ UNCHANGED held
             \/ /\ ~req[j].stepwise /\ Fault       \* report_progress at the boundary
                /\ held' = [held EXCEPT ![j] = @ \cup {"progress"}]
          /\ IF index[j] = Count(j) \/ "progress" \in held'[j]
             THEN Goto(j, "exit") ELSE Goto(j, "inferred")
    /\ UNCHANGED <<runtimeVars, req, cancelled, files, outputs>>

-----------------------------------------------------------------------------
\* What is raised after the lease: a probe's error, then the cancellation,
\* then the progress error, then the refusal of the request.
Outcome(j) ==
    IF "probe" \in held[j] THEN "failed"
    ELSE IF "cancel" \in held[j] THEN "cancelled"
    ELSE IF held[j] # {} THEN "failed" ELSE "saving"

\* The with-block ends in order; the second loop starts over.
ExitLease(j) ==
    /\ pc[j] = "exit"
    /\ owner' = NoJob
    /\ index' = [index EXCEPT ![j] = 1]
    /\ Goto(j, Outcome(j))
    /\ NoFault
    /\ UNCHANGED <<cached, active, adapters, weights, req, cancelled, held, images, files,
                   outputs>>

\* The except clause: unlink what output_paths names, raise again.
Discard(j, end) ==
    /\ Goto(j, end)
    /\ files' = [files EXCEPT ![j] = @ \ outputs[j]]

\* raise_if_cancelled, then image.save and output_paths.append.  A save that
\* raises may leave a file that output_paths does not name.
Save(j) ==
    /\ pc[j] = "saving"
    /\ \/ /\ cancelled[j] /\ NoFault
          /\ Discard(j, "cancelled") /\ UNCHANGED outputs
       \/ Fault /\ Discard(j, "failed") /\ UNCHANGED outputs
       \/ /\ Fault /\ Goto(j, "failed") /\ UNCHANGED outputs
          /\ files' = [files EXCEPT ![j] = (@ \ outputs[j]) \cup {index[j]}]
       \/ /\ ~cancelled[j] /\ NoFault
          /\ files' = [files EXCEPT ![j] = @ \cup {index[j]}]
          /\ outputs' = [outputs EXCEPT ![j] = @ \cup {index[j]}]
          /\ Goto(j, "saved")
    /\ UNCHANGED <<runtimeVars, req, cancelled, held, index, images>>

\* Quality and semantic scores, raise_if_cancelled again; the last variation
\* returns the result.
FinishVariation(j) ==
    /\ pc[j] = "saved"
    /\ \/ cancelled[j] /\ NoFault /\ Discard(j, "cancelled") /\ UNCHANGED index
       \/ Fault /\ Discard(j, "failed") /\ UNCHANGED index
       \/ /\ ~cancelled[j] /\ NoFault
          /\ index' = [index EXCEPT ![j] = @ + 1]
          /\ Goto(j, IF index[j] = Count(j) THEN "succeeded" ELSE "saving")
          /\ UNCHANGED files
    /\ UNCHANGED <<runtimeVars, req, cancelled, held, images, outputs>>

Work(j) ==
    \/ Prepare(j) \/ Acquire(j) \/ CancelledWhileWaiting(j)
    \/ ProbeBeforeMutation(j) \/ Inspect(j)
    \/ ApplyLora(j) \/ ApplyLoraFails(j)
    \/ ProbeBeforeVariation(j) \/ StepEnd(j) \/ InferenceFails(j) \/ InferenceEnds(j)
    \/ ExitLease(j) \/ Save(j) \/ FinishVariation(j)

AllEnded == (\A j \in Jobs : pc[j] \in Ended) /\ UNCHANGED vars

Next == (\E j \in Jobs : Cancel(j) \/ Work(j)) \/ AllEnded

\* Worker threads run until their job ends.
Spec == Init /\ [][Next]_vars /\ \A j \in Jobs : WF_vars(Work(j))

-----------------------------------------------------------------------------
(* Every image of a job was drawn with the LoRA that job asked for, and with *)
(* no LoRA an earlier job left behind in the shared pipeline                 *)
(* (generator.py:1067-1140).                                                 *)
OwnLoraOnly ==
    \A j \in Jobs : \A v \in DOMAIN images[j] :
        images[j][v] = (IF req[j].lora = NoLora THEN {} ELSE {req[j].lora})

(* A runtime nobody is using, kept for the next job, is what it claims to    *)
(* be: its pipeline holds exactly the LoRA active_lora_path names.           *)
CachedRuntimeIsClean ==
    (cached = "ready" /\ owner = NoJob) =>
        adapters = (IF active = NoLora THEN {} ELSE {active})

(* Cancellation and bookkeeping failures do not cost a reload: a runtime is  *)
(* dropped only by a job whose LoRA change or inference it interrupted       *)
(* (generator.py:183-230, 394-416).                                          *)
HealthyRuntimeKept ==
    (cached = "ready" /\ cached' = "none")
         => \E j \in Jobs : owner = j /\ pc[j] \in {"ready", "inferring"}

(* A job that did not succeed leaves none of its files behind, apart from    *)
(* one whose own save raised (generator.py:578-651).                         *)
NoStrayFiles ==
    \A j \in Jobs : pc[j] \in {"failed", "cancelled"} =>
        files[j] \cap outputs[j] = {} /\ Cardinality(files[j]) <= 1

(* A job that succeeds delivers every variation it was asked for, and was    *)
(* not cancelled before its last image was scored; a validation or progress  *)
(* error it recorded on the way never ends in a success.                     *)
SuccessIsComplete ==
    \A j \in Jobs : (pc[j] # "succeeded" /\ pc'[j] = "succeeded") =>
          /\ outputs[j] = 1..Count(j) /\ files[j] = outputs[j]
          /\ ~cancelled[j] /\ held[j] = {}

-----------------------------------------------------------------------------

(* What these rest on: the lease, what its holder has put into the pipeline, *)
(* and how far each job's loops over its variations have come.               *)
OwnerIsInLease ==
    /\ \A j \in Jobs : pc[j] \in InLease <=> owner = j
    /\ owner # NoJob => cached = "ready"

PipelineIsAsClaimed ==
    cached = "ready" => adapters = (IF active = NoLora THEN {} ELSE {active})

OwnLora(j) == IF req[j].lora = NoLora THEN {} ELSE {req[j].lora}

DrawsWithOwn(j) ==
    pc[j] \in {"inferred", "inferring"} =>
        /\ adapters = OwnLora(j)
        /\ req[j].lora # NoLora => weights = req[j].lora

VariationsInOrder(j) ==
    /\ pc[j] \in {"new", "waiting", "leased", "inspected", "ready"} =>
         index[j] = 1 /\ DOMAIN images[j] = {}
    /\ pc[j] \in {"inferred", "inferring"} =>
         index[j] <= Count(j) /\ DOMAIN images[j] = 1..(index[j] - 1)
    /\ pc[j] \in {"saving", "saved"} => index[j] <= Count(j)
    /\ \A v \in DOMAIN images[j] : images[j][v] = OwnLora(j)

FilesAreNamed(j) ==
    /\ pc[j] \in {"new", "waiting"} \cup InLease => files[j] = {} /\ outputs[j] = {}
    /\ pc[j] = "saving" => files[j] = 1..(index[j] - 1) /\ outputs[j] = 1..(index[j] - 1)
    /\ pc[j] = "saved" => files[j] = 1..index[j] /\ outputs[j] = 1..index[j]
    /\ pc[j] \in {"failed", "cancelled"} =>
         files[j] \cap outputs[j] = {} /\ \E v \in Variations : files[j] \subseteq {v}
    /\ pc[j] \in {"saving", "saved"} => held[j] = {}

IsAccounted(j) == DrawsWithOwn(j) /\ VariationsInOrder(j) /\ FilesAreNamed(j)

ImageInv ==
    /\ TypeOK /\ DOMAIN images = Jobs
    /\ OwnerIsInLease /\ PipelineIsAsClaimed
    /\ \A j \in Jobs : IsAccounted(j)
=============================================================================
