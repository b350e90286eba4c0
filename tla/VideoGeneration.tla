---------------------------- MODULE VideoGeneration ----------------------------
(***************************************************************************)
(* VideoGenerator.generate (generators/video/generator.py) with its two    *)
(* runtimes (generators/video/runtime.py): procedural storyboards drawn    *)
(* frame by frame, and a learned model behind an opaque callable.          *)
(*                                                                         *)
(* A renderer returns frames that are encoded after the lease, or files it *)
(* has written itself, unless it raises, which its request decides.  What  *)
(* goes wrong in the bookkeeping around it is handed back and raised after *)
(* the lease.                                                              *)
(***************************************************************************)
EXTENDS Naturals

CONSTANTS
    Jobs, NoJob,
    NumFrames,      \* frames of a storyboard
    MaxFaults       \* bound: calls that raise

Kinds == {"procedural", "learned"}

VARIABLES
    kind,       \* the runtime each job asks for
    controls,   \* its numeric parameters: "sound", "malformed" or "infinite"
    raises,     \* where the renderer raises for its request: a place, or "never"
    cached,     \* the kinds with a valid runtime in the cache
    owner,      \* the job with the lease
    pc, cancelled,
    when,       \* where the job was when it was cancelled
    held,       \* errors recorded inside the lease
    frames,     \* storyboard frames drawn
    invoked,    \* the learned callable was called
    returned,   \* what render() returned: "none", "frames", "files"
    files,      \* request-owned files on disk
    named,      \* the files render_result names
    faults

request == <<kind, controls, raises>>
model == <<cached, owner>>
vars == <<request, model, pc, cancelled, when, held, frames, invoked, returned, files, named,
          faults>>

Ended == {"succeeded", "failed", "cancelled"}
Labels == Ended \cup {"new", "waiting", "leased", "checking", "building", "invoking", "drawing",
                      "late", "exit", "encoding", "encoded", "judging"}

TypeOK ==
    /\ kind \in [Jobs -> Kinds] /\ controls \in [Jobs -> {"sound", "malformed", "infinite"}]
    /\ raises \in [Jobs -> {"never", "building", "invoking", "drawing"}]
    /\ cached \subseteq Kinds /\ owner \in Jobs \cup {NoJob}
    /\ pc \in [Jobs -> Labels] /\ when \in [Jobs -> Labels \cup {"never"}]
    /\ cancelled \in [Jobs -> BOOLEAN] /\ invoked \in [Jobs -> BOOLEAN]
    /\ held \in [Jobs -> SUBSET {"params", "probe", "cancel", "progress"}]
    /\ frames \in [Jobs -> 0..NumFrames]
    /\ returned \in [Jobs -> {"none", "frames", "files"}]
    /\ files \in [Jobs -> SUBSET {"output", "preview"}]
    /\ named \in [Jobs -> SUBSET {"output", "preview"}]
    /\ faults \in 0..MaxFaults

\* The learned runtime coerces nothing; each renderer has its own places to raise,
\* and a storyboard whose controls are not sound is never drawn.
Init ==
    /\ kind \in [Jobs -> Kinds] /\ controls \in [Jobs -> {"sound", "malformed", "infinite"}]
    /\ raises \in [Jobs -> {"never", "building", "invoking", "drawing"}]
    /\ \A j \in Jobs :
         IF kind[j] = "learned" THEN controls[j] = "sound" /\ raises[j] # "drawing"
         ELSE raises[j] = "never" \/ (raises[j] = "drawing" /\ controls[j] = "sound")
    /\ cached = {} /\ owner = NoJob
    /\ pc = [j \in Jobs |-> "new"]
    /\ cancelled = [j \in Jobs |-> FALSE] /\ when = [j \in Jobs |-> "never"]
    /\ held = [j \in Jobs |-> {}] /\ frames = [j \in Jobs |-> 0]
    /\ invoked = [j \in Jobs |-> FALSE] /\ returned = [j \in Jobs |-> "none"]
    /\ files = [j \in Jobs |-> {}] /\ named = [j \in Jobs |-> {}]
    /\ faults = 0

Goto(j, l) == pc' = [pc EXCEPT ![j] = l]
Fault == faults < MaxFaults /\ faults' = faults + 1
NoFault == UNCHANGED faults
Hold(j, e) == held' = [held EXCEPT ![j] = @ \cup {e}]

Cancel(j) ==
    /\ pc[j] \notin Ended /\ ~cancelled[j]
    /\ cancelled' = [cancelled EXCEPT ![j] = TRUE]
    /\ when' = [when EXCEPT ![j] = pc[j]]
    /\ UNCHANGED <<request, model, pc, held, frames, invoked, returned, files, named, faults>>

-----------------------------------------------------------------------------
\* validate_request.
Validate(j) ==
    /\ pc[j] = "new"
    /\ \E ok \in BOOLEAN : Goto(j, IF ok THEN "waiting" ELSE "failed")
    /\ NoFault
    /\ UNCHANGED <<request, model, cancelled, when, held, frames, invoked, returned, files,
                   named>>

\* _acquire_runtime, with raise_if_cancelled as its checkpoint.
Acquire(j) ==
    /\ pc[j] = "waiting"
    /\ \/ owner = NoJob /\ owner' = j /\ cached' = cached \cup {kind[j]} /\ Goto(j, "leased")
       \/ cancelled[j] /\ Goto(j, "cancelled") /\ UNCHANGED <<owner, cached>>
    /\ NoFault
    /\ UNCHANGED <<request, cancelled, when, held, frames, invoked, returned, files, named>>

\* An exception leaves the lease: the runtime is marked invalid.
RaiseInLease(j, end) ==
    /\ cached' = cached \ {kind[j]} /\ owner' = NoJob
    /\ Goto(j, end)

\* coerce_procedural_render_params, before render() is called: a ValueError or
\* a TypeError is held, the OverflowError of int(float("inf")) is not.
CoerceParams(j) ==
    /\ pc[j] = "leased" /\ NoFault
    /\ \/ kind[j] = "procedural" /\ controls[j] = "infinite"
            /\ RaiseInLease(j, "failed") /\ UNCHANGED held
       \/ kind[j] = "procedural" /\ controls[j] = "malformed"
            /\ Hold(j, "params") /\ Goto(j, "exit") /\ UNCHANGED model
       \/ (kind[j] = "learned" \/ controls[j] = "sound")
            /\ Goto(j, "checking") /\ UNCHANGED <<held, model>>
    /\ UNCHANGED <<request, cancelled, when, frames, invoked, returned, files, named>>

\* safe_is_cancelled: what it finds or fails with is recorded.
Probe(j, clear) ==
    /\ \/ ~cancelled[j] /\ Goto(j, clear) /\ NoFault /\ UNCHANGED held
       \/ cancelled[j] /\ Goto(j, "exit") /\ NoFault /\ Hold(j, "cancel")
       \/ Fault /\ Goto(j, "exit") /\ Hold(j, "probe")
    /\ UNCHANGED <<request, model, cancelled, when, frames, invoked, returned, files, named>>

ProbeBeforeRender(j) ==
    pc[j] = "checking" /\ Probe(j, IF kind[j] = "learned" THEN "building" ELSE "drawing")

\* LearnedVideoRuntime.render asks once more before the expensive call.
ProbeBeforeInvocation(j) ==
    pc[j] = "building" /\ raises[j] # "building" /\ Probe(j, "invoking")

\* load_error, a runtime without a callable.
Unavailable(j) ==
    /\ pc[j] = "building" /\ raises[j] = "building" /\ NoFault
    /\ RaiseInLease(j, "failed")
    /\ UNCHANGED <<request, cancelled, when, held, frames, invoked, returned, files, named>>

\* The callable returns frames, or files with or without a preview.
InvocationReturns(j) ==
    /\ pc[j] = "invoking" /\ raises[j] # "invoking"
    /\ invoked' = [invoked EXCEPT ![j] = TRUE]
    /\ \/ returned' = [returned EXCEPT ![j] = "frames"] /\ UNCHANGED <<files, named>>
       \/ \E written \in {{"output"}, {"output", "preview"}} :
            /\ returned' = [returned EXCEPT ![j] = "files"]
            /\ files' = [files EXCEPT ![j] = written]
            /\ named' = [named EXCEPT ![j] = written]
    /\ Goto(j, "late") /\ NoFault
    /\ UNCHANGED <<request, model, cancelled, when, held, frames>>

\* It raises, on its own or through raise_if_cancelled, or returns a payload
\* that _normalize_generated_output refuses: nobody knows, and nobody discards,
\* what it had written by then.
InvocationRaises(j) ==
    /\ pc[j] = "invoking" /\ NoFault
    /\ invoked' = [invoked EXCEPT ![j] = TRUE]
    /\ \/ raises[j] = "invoking" /\ RaiseInLease(j, "failed")
       \/ cancelled[j] /\ RaiseInLease(j, "cancelled")
    /\ \E written \in {{}, {"output"}, {"output", "preview"}} :
         files' = [files EXCEPT ![j] = written]
    /\ UNCHANGED <<request, cancelled, when, held, frames, returned, named>>

\* Mutant: a probe that raises leaves render() as an exception.
FrameProbeFailsRaises(j) == Fault /\ RaiseInLease(j, "failed") /\ UNCHANGED held

\* A probe that raises is handed back as probe_error.
FrameProbeFails(j) == Fault /\ Goto(j, "exit") /\ Hold(j, "probe") /\ UNCHANGED model

\* One turn of ProceduralStoryboardRuntime.render: probe, draw, report.
DrawFrame(j) ==
    /\ pc[j] = "drawing" /\ frames[j] < NumFrames
    /\ \/ /\ ~cancelled[j]
          /\ frames' = [frames EXCEPT ![j] = @ + 1]
          /\ \/ NoFault /\ UNCHANGED held
             \/ Fault /\ Hold(j, "progress")
          /\ UNCHANGED <<pc, model>>
       \/ cancelled[j] /\ NoFault /\ RaiseInLease(j, "cancelled")
            /\ UNCHANGED <<frames, held>>
       \/ FrameProbeFails(j) /\ UNCHANGED frames
    /\ UNCHANGED <<request, cancelled, when, invoked, returned, files, named>>

\* A defect of the runtime, such as a malformed palette, shows in some frame.
DrawingRaises(j) ==
    /\ pc[j] = "drawing" /\ raises[j] = "drawing" /\ NoFault
    /\ RaiseInLease(j, "failed")
    /\ UNCHANGED <<request, cancelled, when, held, frames, invoked, returned, files, named>>

DrawingReturns(j) ==
    /\ pc[j] = "drawing" /\ frames[j] = NumFrames /\ raises[j] # "drawing"
    /\ returned' = [returned EXCEPT ![j] = "frames"]
    /\ Goto(j, "late") /\ NoFault
    /\ UNCHANGED <<request, model, cancelled, when, held, frames, invoked, files, named>>

ProbeAfterRender(j) == pc[j] = "late" /\ Probe(j, "exit")

-----------------------------------------------------------------------------
\* What is raised after the lease, in this order.
Outcome(j) ==
    IF "probe" \in held[j] THEN "failed"
    ELSE IF "cancel" \in held[j] THEN "cancelled"
    ELSE IF held[j] # {} THEN "failed"
    ELSE IF returned[j] = "frames" THEN "encoding" ELSE "judging"

\* _discard_render_artifacts.
Discard(j) == files' = [files EXCEPT ![j] = @ \ named[j]]

\* The lease ends; a render that is not wanted any more is discarded.
ExitLease(j) ==
    /\ pc[j] = "exit"
    /\ owner' = NoJob
    /\ Goto(j, Outcome(j)) /\ NoFault
    /\ IF held[j] \cap {"probe", "cancel"} # {} THEN Discard(j) ELSE UNCHANGED files
    /\ UNCHANGED <<request, cached, cancelled, when, held, frames, invoked, returned, named>>

\* encode_frames_as_gif, from frames only the lease had; fps may be bad, and
\* a write that fails leaves what it wrote.
EncodeFrames(j) ==
    /\ pc[j] = "encoding"
    /\ \/ /\ Goto(j, "encoded") /\ NoFault
          /\ files' = [files EXCEPT ![j] = {"output"}]
          /\ named' = [named EXCEPT ![j] = {"output"}]
       \/ /\ Goto(j, "failed") /\ Fault
          /\ files' \in {files, [files EXCEPT ![j] = {"output"}]}
          /\ UNCHANGED named
    /\ UNCHANGED <<request, model, cancelled, when, held, frames, invoked, returned>>

\* Encoding takes long: the job is asked about once more.
ProbeAfterEncoding(j) ==
    /\ pc[j] = "encoded"
    /\ \/ ~cancelled[j] /\ Goto(j, "judging") /\ NoFault /\ UNCHANGED files
       \/ cancelled[j] /\ Goto(j, "cancelled") /\ NoFault /\ Discard(j)
       \/ Goto(j, "failed") /\ Fault /\ Discard(j)
    /\ UNCHANGED <<request, model, cancelled, when, held, frames, invoked, returned, named>>

\* The quality reports, then the result; a report that raises leaves the file.
Judge(j) ==
    /\ pc[j] = "judging"
    /\ \/ Goto(j, "succeeded") /\ NoFault
       \/ Goto(j, "failed") /\ Fault
    /\ UNCHANGED <<request, model, cancelled, when, held, frames, invoked, returned, files,
                   named>>

Work(j) ==
    \/ Validate(j) \/ Acquire(j) \/ CoerceParams(j) \/ ProbeBeforeRender(j)
    \/ ProbeBeforeInvocation(j) \/ Unavailable(j) \/ InvocationReturns(j) \/ InvocationRaises(j)
    \/ DrawFrame(j) \/ DrawingRaises(j) \/ DrawingReturns(j) \/ ProbeAfterRender(j)
    \/ ExitLease(j) \/ EncodeFrames(j) \/ ProbeAfterEncoding(j) \/ Judge(j)

AllEnded == (\A j \in Jobs : pc[j] \in Ended) /\ UNCHANGED vars

Next == (\E j \in Jobs : Cancel(j) \/ Work(j)) \/ AllEnded

Spec == Init /\ [][Next]_vars /\ \A j \in Jobs : WF_vars(Work(j))

-----------------------------------------------------------------------------
(* A lease costs the runtime exactly when the renderer raised, when the job  *)
(* was cancelled in the middle of its work, or when a control was infinite:  *)
(* no other control of the request and no failing read or write of the job's *)
(* row ends it with an exception (generator.py:108-139, runtime.py:182-193). *)
DroppedForCause ==
    \A j \in Jobs : owner = j /\ owner' # j =>
        (kind[j] \notin cached' <=>
            \/ kind[j] = "procedural" /\ controls[j] = "infinite" /\ pc[j] = "leased"
            \/ raises[j] = pc[j]
            \/ pc[j] \in {"invoking", "drawing"} /\ when[j] = pc[j])

(* A job cancelled before its learned model was called does not call it: not *)
(* even in the window between the two looks (runtime.py:437-444).            *)
NoCallAfterCancellation ==
    \A j \in Jobs : when[j] \in {"new", "waiting", "leased", "checking", "building"} => ~invoked[j]

(* A job that ends cancelled or because a probe in the lease failed leaves   *)
(* no file, output or preview, unless its callable was interrupted before it *)
(* could say what it had written (generator.py:397-424).                     *)
Interrupted(j) == when[j] = "invoking" /\ returned[j] = "none"

CancelledLeavesNothing ==
    \A j \in Jobs :
        (pc[j] = "cancelled" \/ (pc[j] = "failed" /\ "probe" \in held[j])) =>
            files[j] = {} \/ Interrupted(j)

(* A job that was cancelled before the last look at its row does not succeed *)
(* and its cancellation is not reported as a failure to publish progress.    *)
CancellationWins ==
    \A j \in Jobs :
        /\ pc[j] = "succeeded" =>
             when[j] \in {"never", "judging"} \cup (IF returned[j] = "files" THEN {"exit"} ELSE {})
        /\ "cancel" \in held[j] /\ "probe" \notin held[j] =>
             pc[j] \in {"exit", "cancelled"}

-----------------------------------------------------------------------------

(* What these rest on: whose the lease is and that its runtime is cached,    *)
(* how far a job got that was cancelled early, which files exist at each     *)
(* place of the program, and what a clean exit means.                        *)
InLease == {"leased", "checking", "building", "invoking", "drawing", "late", "exit"}

LeaseIsHeld ==
    /\ \A j \in Jobs : pc[j] \in InLease <=> owner = j
    /\ owner # NoJob => kind[owner] \in cached

BeforeCall == {"new", "waiting", "leased", "checking", "building"}

CancelledInTime(j) ==
    /\ when[j] = "never" <=> ~cancelled[j]
    /\ pc[j] \in BeforeCall \cup {"invoking"} => ~invoked[j]
    /\ when[j] \in BeforeCall => /\ pc[j] \in BeforeCall \cup {"exit", "failed", "cancelled"}
                                 /\ ~invoked[j]
    /\ (when[j] \in BeforeCall /\ pc[j] = "exit") => held[j] # {}
    /\ pc[j] \in {"invoking", "drawing"} => when[j] \in {"never", pc[j]}
    /\ pc[j] \in BeforeCall \cup {"invoking", "drawing"} => returned[j] = "none"

FilesAreNamed(j) ==
    /\ pc[j] \in BeforeCall \cup {"invoking", "drawing"} => files[j] = {} /\ named[j] = {}
    /\ (pc[j] = "cancelled" \/ (pc[j] = "failed" /\ "probe" \in held[j])) =>
         files[j] = {} \/ Interrupted(j)
    /\ pc[j] \in {"late", "exit", "encoded"} => files[j] = named[j]

ExitIsExplained(j) ==
    /\ pc[j] = "late" => returned[j] # "none"
    /\ "probe" \in held[j] => pc[j] \in {"exit", "failed"}
    /\ (pc[j] = "exit" /\ held[j] = {}) => returned[j] # "none" /\ when[j] \in {"never", "exit"}
    /\ pc[j] \in {"judging", "succeeded"} =>
         when[j] \in {"never", "judging"} \cup (IF returned[j] = "files" THEN {"exit"} ELSE {})
    /\ ("cancel" \in held[j] /\ "probe" \notin held[j]) => pc[j] \in {"exit", "cancelled"}

IsAccounted(j) == CancelledInTime(j) /\ FilesAreNamed(j) /\ ExitIsExplained(j)

JobsInv == TypeOK /\ \A j \in Jobs : IsAccounted(j)

VideoInv == JobsInv /\ LeaseIsHeld
================================================================================
