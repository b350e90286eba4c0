----------------------------- MODULE Generators -----------------------------
(***************************************************************************)
(* The generators side by side: in each behaviour one medium is at work,   *)
(* and what every generator owes to its shared model, to a cancelled job   *)
(* and to the files it leaves is stated once for all of them.  What the    *)
(* media share in the code is the runtime cache, the business of module    *)
(* RuntimeLeases; beyond it one medium at a time loses nothing.            *)
(***************************************************************************)
EXTENDS Integers, FiniteSets

CONSTANTS
    Jobs, NoJob,
    \* --- requests of the jobs on a shared model, and how many calls may raise
    Pictures, Loras, NoLora, PictureFaults,
    Songs, FrameRate, MaxDuration, SongFaults,
    TextFaults,
    NumFrames, VideoFaults,
    \* --- SpeechGeneration
    Narrations, SpeechAdvertised, SpeechRates, SpeechLengths, SpeechFaults,
    \* --- ProviderCall
    MaxRetries, Base, Multiplier, Cap, TransportErrors, Secret,
    \* --- VideoAssembly
    Durations, TimelineRates, MaxScenes, MaxTotal, MaxFps, MaxFrames,
    \* --- ImageReferences
    Assets, Projects, NoAsset, References, Capability, NoCapability, MaxSteps

VARIABLES
    medium,
    \* --- of several generators
    pc, cancelled, held, faults, cached, owner, blame, raises, req, files, rate,
    \* --- ImageGeneration
    active, adapters, weights, index, images, outputs,
    \* --- MusicGeneration
    callback, params, rng, tokens, completed, reported, drawn, wave,
    \* --- SpeechGeneration
    advertised, calls, samples, published,
    \* --- TextGeneration
    attempt, shown, raw, accepted, seen, stood,
    \* --- VideoGeneration
    kind, controls, when, frames, invoked, returned, named,
    \* --- ProviderCall
    call, thread, error, current, slept, verdicts, answer, raised, disclosed,
    \* --- VideoAssembly
    scenes, readable, audio, phase, reason, framesOut, staging, partial, preview, output,
    \* --- ImageReferences
    job, bible, store, primary, chosenAs, applied, denoise

imageVars == <<active, adapters, weights, index, images, outputs>>
musicVars == <<callback, params, rng, tokens, completed, reported, drawn, wave>>
speechVars == <<advertised, calls, samples, published>>
textVars == <<attempt, shown, raw, accepted, seen, stood>>
videoVars == <<kind, controls, when, frames, invoked, returned, named>>
providerVars == <<call, thread, error, current, slept, verdicts, answer, raised, disclosed>>
assemblyVars == <<scenes, readable, audio, phase, reason, framesOut, staging, partial,
                  preview, output>>
referenceVars == <<job, bible, store, primary, chosenAs, applied, denoise>>
jobVars == <<cancelled, held, faults, cached>>
vars == <<medium, pc, jobVars, owner, blame, raises, req, files, rate, imageVars, musicVars,
          speechVars, textVars, videoVars, providerVars, assemblyVars, referenceVars>>

Image == INSTANCE ImageGeneration WITH Requests <- Pictures, MaxFaults <- PictureFaults
Music == INSTANCE MusicGeneration WITH Requests <- Songs, MaxFaults <- SongFaults
Speech == INSTANCE SpeechGeneration WITH
    Requests <- Narrations, Advertised <- SpeechAdvertised, Rates <- SpeechRates,
    Lengths <- SpeechLengths, MaxFaults <- SpeechFaults
Text == INSTANCE TextGeneration WITH MaxFaults <- TextFaults
Video == INSTANCE VideoGeneration WITH MaxFaults <- VideoFaults
Provider == INSTANCE ProviderCall WITH Errors <- TransportErrors
Assembly == INSTANCE VideoAssembly WITH Rates <- TimelineRates
Refs == INSTANCE ImageReferences WITH Inputs <- References

-----------------------------------------------------------------------------
(* Assumptions.                                                            *)

\* What ImageGenerator._resolve_variation_count and the manifests admit.
ASSUME JobsAssumption ==
    /\ NoJob \notin Jobs
    /\ PictureFaults \in Nat /\ SongFaults \in Nat /\ TextFaults \in Nat /\ VideoFaults \in Nat

ASSUME PicturesAssumption ==
    /\ NoLora \notin Loras
    /\ Pictures \subseteq [lora : Loras \cup {NoLora}, count : 1..4, valid : BOOLEAN,
                           stepwise : BOOLEAN]

ASSUME SongsAssumption ==
    /\ FrameRate \in Nat /\ MaxDuration \in Nat
    /\ Songs \subseteq [form : {"long", "short"}, valid : BOOLEAN, duration : Nat,
                        stride : Nat \ {0}, seeded : BOOLEAN,
                        raises : {"never", "prepared", "generating"}]

ASSUME FramesAssumption == NumFrames \in Nat

ASSUME NarrationsAssumption ==
    /\ SpeechAdvertised \subseteq Int /\ SpeechRates \subseteq Int
    /\ SpeechLengths \subseteq Nat /\ SpeechFaults \in Nat
    /\ Narrations \subseteq [chars : Nat, chunks : Nat, gap : Nat, speed : Nat \ {0},
                             sound : BOOLEAN]

\* What a transport may raise: a category, two texts, a Retry-After header or none.
IsError(e) ==
    /\ e = [category |-> e.category, words |-> e.words, id |-> e.id, after |-> e.after]
    /\ e.category \in Provider!Categories \cup {"foreign", "interrupt"}
    /\ e.after \subseteq Int

\* ImageProviderRetryPolicy.__post_init__: no negative backoff, a multiplier of
\* at least one.  That the powers are then whole numbers is said outright.
ASSUME PolicyAssumption ==
    /\ MaxRetries \in Nat /\ Cap \in Nat
    /\ \A n \in 0..MaxRetries : Base * Multiplier^n \in Nat
    /\ \A e \in TransportErrors : IsError(e)

ASSUME TimelineAssumption ==
    /\ Durations \subseteq Nat /\ TimelineRates \subseteq Int
    /\ MaxScenes \in Nat /\ MaxTotal \in Nat /\ MaxFps \in Nat /\ MaxFrames \in Nat

\* ReferenceImageInput: a strength is within [0, 1].
ASSUME ReferencesAssumption ==
    /\ MaxSteps \in Nat
    /\ References \subseteq [asset : Assets, role : STRING, strength : 0..10, prep : STRING]

-----------------------------------------------------------------------------
(* One medium at work; the variables of the others stay blank.             *)

NoImage == active = 0 /\ adapters = 0 /\ weights = 0 /\ index = 0 /\ images = 0 /\ outputs = 0
NoMusic == /\ callback = 0 /\ params = 0 /\ rng = 0 /\ tokens = 0 /\ completed = 0
           /\ reported = 0 /\ drawn = 0 /\ wave = 0
NoSpeech == advertised = 0 /\ calls = 0 /\ samples = 0 /\ published = 0
NoText == attempt = 0 /\ shown = 0 /\ raw = 0 /\ accepted = 0 /\ seen = 0 /\ stood = 0
NoVideo == /\ kind = 0 /\ controls = 0 /\ when = 0 /\ frames = 0 /\ invoked = 0 /\ returned = 0
           /\ named = 0
NoProvider == /\ call = 0 /\ thread = 0 /\ error = 0 /\ current = 0 /\ slept = 0 /\ verdicts = 0
              /\ answer = 0 /\ raised = 0 /\ disclosed = 0
NoAssembly == /\ scenes = 0 /\ readable = 0 /\ audio = 0 /\ phase = 0 /\ reason = 0
              /\ framesOut = 0 /\ staging = 0 /\ partial = 0 /\ preview = 0 /\ output = 0
NoRefs == /\ job = 0 /\ bible = 0 /\ store = 0 /\ primary = 0 /\ chosenAs = 0 /\ applied = 0
          /\ denoise = 0
NoJobs == cancelled = 0 /\ held = 0 /\ faults = 0 /\ cached = 0

Init ==
    \/ /\ medium = "image" /\ Image!Init /\ blame = 0 /\ raises = 0 /\ rate = 0
       /\ NoMusic /\ NoSpeech /\ NoText /\ NoVideo /\ NoProvider /\ NoAssembly /\ NoRefs
    \/ /\ medium = "music" /\ Music!Init /\ blame = 0 /\ raises = 0 /\ files = 0 /\ rate = 0
       /\ NoImage /\ NoSpeech /\ NoText /\ NoVideo /\ NoProvider /\ NoAssembly /\ NoRefs
    \/ /\ medium = "speech" /\ Speech!Init /\ owner = 0 /\ raises = 0 /\ files = 0
       /\ NoImage /\ NoMusic /\ NoText /\ NoVideo /\ NoProvider /\ NoAssembly /\ NoRefs
    \/ /\ medium = "text" /\ Text!Init /\ blame = 0 /\ req = 0 /\ rate = 0
       /\ NoImage /\ NoMusic /\ NoSpeech /\ NoVideo /\ NoProvider /\ NoAssembly /\ NoRefs
    \/ /\ medium = "video" /\ Video!Init /\ blame = 0 /\ req = 0 /\ rate = 0
       /\ NoImage /\ NoMusic /\ NoSpeech /\ NoText /\ NoProvider /\ NoAssembly /\ NoRefs
    \/ /\ medium = "remote" /\ Provider!Init /\ NoJobs
       /\ owner = 0 /\ blame = 0 /\ raises = 0 /\ req = 0 /\ files = 0 /\ rate = 0
       /\ NoImage /\ NoMusic /\ NoSpeech /\ NoText /\ NoVideo /\ NoAssembly /\ NoRefs
    \/ /\ medium = "assembly" /\ Assembly!Init /\ NoJobs
       /\ pc = 0 /\ owner = 0 /\ blame = 0 /\ raises = 0 /\ req = 0 /\ files = 0
       /\ NoImage /\ NoMusic /\ NoSpeech /\ NoText /\ NoVideo /\ NoProvider /\ NoRefs
    \/ /\ medium = "references" /\ Refs!Init /\ NoJobs
       /\ owner = 0 /\ blame = 0 /\ raises = 0 /\ req = 0 /\ files = 0 /\ rate = 0
       /\ NoImage /\ NoMusic /\ NoSpeech /\ NoText /\ NoVideo /\ NoProvider /\ NoAssembly

Only(m) ==
    /\ medium = m /\ UNCHANGED medium
    /\ m # "image" => UNCHANGED imageVars
    /\ m # "music" => UNCHANGED musicVars
    /\ m # "speech" => UNCHANGED speechVars
    /\ m # "text" => UNCHANGED textVars
    /\ m # "video" => UNCHANGED videoVars
    /\ m # "remote" => UNCHANGED providerVars
    /\ m # "assembly" => UNCHANGED assemblyVars
    /\ m # "references" => UNCHANGED referenceVars
    /\ m \in {"remote", "assembly", "references"} => UNCHANGED jobVars
    /\ m = "assembly" => UNCHANGED pc
    /\ m \in {"speech", "remote", "assembly", "references"} => UNCHANGED owner
    /\ m # "speech" => UNCHANGED blame
    /\ m \notin {"text", "video"} => UNCHANGED raises
    /\ m \in {"text", "video", "remote", "assembly", "references"} => UNCHANGED req
    /\ m \in {"music", "speech", "remote", "assembly", "references"} => UNCHANGED files
    /\ m \notin {"speech", "assembly"} => UNCHANGED rate

Work(j) ==
    \/ Only("image") /\ Image!Work(j)
    \/ Only("music") /\ Music!Work(j)
    \/ Only("text") /\ Text!Work(j)
    \/ Only("video") /\ Video!Work(j)

Cancel(j) ==
    \/ Only("image") /\ Image!Cancel(j)
    \/ Only("music") /\ Music!Cancel(j)
    \/ Only("text") /\ Text!Cancel(j)
    \/ Only("video") /\ Video!Cancel(j)

Speak == Only("speech") /\ Speech!Step
CancelSpeech == Only("speech") /\ Speech!Cancel
CallProvider == Only("remote") /\ Provider!Caller
Transport == Only("remote") /\ \E a \in Provider!Attempts :
    Provider!TransportAnswers(a) \/ Provider!TransportRaises(a)
Assemble == Only("assembly") /\ Assembly!Straight
Encoder == Only("assembly") /\ (Assembly!RenderFails \/ Assembly!FfmpegEnds)
Condition == Only("references") /\ Refs!Serve
EditReferences == Only("references") /\ Refs!Edit
MuxFails == Only("assembly") /\ Assembly!MuxFails

Over ==
    CASE medium \in {"image", "music", "text", "video"} -> \A j \in Jobs : pc[j] \in Image!Ended
      [] medium = "speech" -> pc \in Speech!Ended
      [] medium = "remote" -> pc \in Provider!Ends
      [] medium = "assembly" -> phase \in {"done", "refused", "failed"}
      [] medium = "references" -> pc \in {"refused", "generating"}

Rest == Over /\ UNCHANGED vars

Next ==
    \/ \E j \in Jobs : Work(j) \/ Cancel(j)
    \/ Speak \/ CancelSpeech \/ CallProvider \/ Transport \/ Assemble \/ Encoder \/ MuxFails
    \/ Condition \/ EditReferences
    \/ Rest

\* Threads run on; a transport or an encoder may hang, but their time limits pass.
Spec ==
    /\ Init /\ [][Next]_vars
    /\ \A j \in Jobs : WF_vars(Work(j))
    /\ WF_vars(Speak \/ CallProvider \/ Assemble \/ Condition) /\ WF_vars(MuxFails)

-----------------------------------------------------------------------------
(* Shared models.                                                          *)

(* A job draws on the shared model with its own LoRA, parameters, callback   *)
(* and seed, never with those the job before it left there, and a model      *)
(* nobody uses is what its bookkeeping says it is. A lease costs a reload of *)
(* the model for a fault of the model or an interruption nobody could avoid, *)
(* and for nothing else: a cancellation found by a probe, a row that cannot  *)
(* be read, a failing progress report, output that fails its schema or a     *)
(* control out of range leaves the cached runtime valid. The one exception   *)
(* is an infinite control of a storyboard                                    *)
(* (image/generator.py:183-230 and _apply_lora, text/generator.py:211-254,   *)
(* video/generator.py:108-181, audio/generator.py:612-645, 714-723,          *)
(* audio/speech.py:218-226).                                                 *)
SharedModelsStayHealthy ==
    [][ /\ medium = "image" =>
              Image!HealthyRuntimeKept /\ (Image!OwnLoraOnly /\ Image!CachedRuntimeIsClean)'
        /\ medium = "music" =>
              Music!DroppedForCause /\ (Music!NothingLeftOnModel /\ Music!DrawnAsAsked)'
        /\ medium = "text" => Text!DroppedForCause
        /\ medium = "video" => Video!DroppedForCause
        /\ medium = "speech" => Speech!RefusedControlsKeepRuntime' ]_vars

-----------------------------------------------------------------------------
(* Files and cancellation.                                                 *)

(* A job that did not succeed leaves no output behind that its generator     *)
(* promises to remove or not to write: images, the video files a renderer    *)
(* has returned, the response of a cancelled text job, a narration after a   *)
(* refusal, and every file of an assembly that failed, by timeout too. What  *)
(* a learned video model wrote before its own call was interrupted stays:    *)
(* nobody is told of it. A cancellation that stands when a probe is due      *)
(* stops the next model call, and a job cancelled before its last probe      *)
(* never ends as a success (image/generator.py:578-651,                      *)
(* text/generator.py:319-324, 462-467, video/generator.py:187-194, 397-424,  *)
(* assembly.py:460-465, 1131-1132).                                          *)
StoppedWorkLeavesNothing ==
    /\ medium = "image" => Image!NoStrayFiles
    /\ medium = "text" => Text!CancellationLeavesNothing /\ Text!NoRepairAfterCancellation
    /\ medium = "video" => /\ Video!CancelledLeavesNothing
                           /\ Video!NoCallAfterCancellation /\ Video!CancellationWins
    /\ medium = "speech" => Speech!NothingPublishedAfterRefusal
    /\ medium = "assembly" => Assembly!FailedLeavesNothing

(* A success is whole: every variation asked for, both files of the response *)
(* that was accepted, all segments reported, and a delivery that was moved   *)
(* into place only when ffmpeg had finished it (image/generator.py:578-651,  *)
(* text/generator.py, audio/generator.py:663-682, assembly.py:1121-1124).    *)
SuccessIsWhole ==
    [][ /\ medium = "image" => Image!SuccessIsComplete
        /\ medium = "text" =>
              Text!EvidenceIsTheLastResponse' /\ Text!RepairShowsTheResponse'
        /\ medium = "music" => Music!SegmentsReportedInOrder'
        /\ medium = "assembly" => Assembly!DeliveryIsWhole' ]_vars

(* What a check counted before the work holds during the work: a narration   *)
(* never exceeds 600 seconds with its gaps and one estimated to be too long  *)
(* is stopped after a chunk at most; the frames rendered stay within the     *)
(* budget validate_request counted; no backoff exceeds its cap; every field  *)
(* of a job, a request or a delivery keeps its type                          *)
(* (speech.py:279-289, 507-517, assembly.py:324-336, image/providers.py).    *)
WithinLimits ==
    /\ medium = "image" => Image!TypeOK
    /\ medium = "text" => Text!TypeOK
    /\ medium = "video" => Video!TypeOK
    /\ medium = "references" => Refs!TypeOK
    /\ medium = "speech" => Speech!OutputWithinLimit /\ Speech!EstimateStopsEarly
    /\ medium = "assembly" => Assembly!TypeOK /\ Assembly!FramesWithinBudget
    /\ medium = "remote" => Provider!TypeOK /\ Provider!BackoffIsBounded

(* A remote request is sent with consent only, sent again only after         *)
(* failures worth a retry, and answered by the attempt the caller waits for, *)
(* never by the late thread of one given up; what the audio adapter raises   *)
(* carries no credential (image/providers.py:606-623, 822-879,               *)
(* audio/providers.py:374-376, example_provider.py:113).                     *)
ProviderRetriesAreSound ==
    [][ medium = "remote" =>
          /\ Provider!NoLateAnswer' /\ Provider!RetriesAreJustified
          /\ Provider!ConsentBeforeSending' /\ Provider!AudioErrorsAreClean' ]_vars

(* A reference image the job asks for is never dropped silently: it          *)
(* conditions the result, as an image that was the job's own when the worker *)
(* resolved it, or the job is refused, whatever is edited while it waits and *)
(* whatever the leased runtime can do (image/generator.py:268-392, 927-1026).*)
ReferencesAreApplied ==
    medium = "references" =>
        Refs!NeverSilentlyDropped /\ Refs!OnlyOwnImagesApplied /\ Refs!ConditioningIsSound

(* Every job, remote request and assembly ends, however long a transport or  *)
(* an encoder hangs; only a local image provider is called without a limit.  *)
WorkEnds == <>(Over \/ (medium = "remote" /\ call.local))
=============================================================================
