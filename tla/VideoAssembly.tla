----------------------------- MODULE VideoAssembly -----------------------------
(***************************************************************************)
(* One delivery of the assembly generator (generators/video/assembly.py):  *)
(* the budgets checked by validate_request, then the render into a staging *)
(* directory, the audio mix, the mux through a partial file under a        *)
(* timeout, the quality report, and the clean-up of a failure at any of    *)
(* these steps.                                                            *)
(*                                                                         *)
(* Durations are in hundredths of a second and the frame rate in tenths.   *)
(* The budgets are constants, so that a small instance reaches them.       *)
(***************************************************************************)
EXTENDS Integers, FiniteSets, Sequences, SequencesExt

CONSTANTS
    Durations,      \* duration_seconds of a scene, in hundredths; may be 0
    Rates,          \* fps of a timeline, in tenths
    MaxScenes,      \* _MAX_SCENES
    MaxTotal,       \* _MAX_TOTAL_DURATION_SECONDS, in hundredths
    MaxFps,         \* _MAX_FPS, in tenths
    MaxFrames       \* _MAX_FRAME_COUNT

VARIABLES
    scenes, rate,   \* the timeline
    readable,       \* every scene resolves to a visual file
    audio,          \* no entries, entries that mix to silence, or sound
    phase,
    reason,         \* what a refusal was about
    framesOut,      \* frames given to the writer
    staging,        \* files of the temporary directory; "gone" without it
    partial,        \* the file ffmpeg writes: none, partly or complete
    preview, output \* the files of the delivery

timeline == <<scenes, rate, readable, audio>>
vars == <<timeline, phase, reason, framesOut, staging, partial, preview, output>>

Init ==
    /\ scenes \in UNION {[1..n -> Durations] : n \in 1..MaxScenes + 1}
    /\ rate \in Rates
    /\ readable \in BOOLEAN
    /\ audio \in {"absent", "silent", "sound"}
    /\ phase = "validate" /\ reason = "none" /\ framesOut = 0
    /\ staging = {"gone"} /\ partial = "none" /\ preview = "none" /\ output = "none"

-----------------------------------------------------------------------------
Total(s) == FoldSeq(LAMBDA d, sum : d + sum, 0, s)

\* fps = max(1, int(fps_value)).
Fps(r) == IF r < 10 THEN 1 ELSE r \div 10

\* round(duration * fps), halves to the even number.
Rounded(d, fps) ==
    LET n == d * fps  q == n \div 100  m == n % 100
    IN IF m > 50 \/ (m = 50 /\ q % 2 = 1) THEN q + 1 ELSE q

\* frame_count = max(1, ...) of a scene.
SceneFrames(d, fps) == IF Rounded(d, fps) < 1 THEN 1 ELSE Rounded(d, fps)

\* The frames of these scenes, each as its scene and its place in it.
FramesOf(S) == UNION {{i} \X (1..SceneFrames(scenes[i], Fps(rate))) : i \in S}

\* frame_count of validate_request: scenes without a duration count nothing.
FrameTotal == Cardinality(FramesOf({i \in DOMAIN scenes : scenes[i] > 0}))

WithinBudget ==
    /\ rate > 0 /\ rate <= MaxFps
    /\ Len(scenes) <= MaxScenes
    /\ Total(scenes) > 0 /\ Total(scenes) <= MaxTotal
    /\ FrameTotal <= MaxFrames

Validate ==
    /\ phase = "validate"
    /\ IF WithinBudget THEN phase' = "clips" /\ UNCHANGED reason
       ELSE phase' = "refused" /\ reason' = "budget"
    /\ UNCHANGED <<timeline, framesOut, staging, partial, preview, output>>

\* _build_clips names the scenes that cannot be rendered before anything is
\* written.
BuildClips ==
    /\ phase = "clips"
    /\ IF readable /\ \A i \in DOMAIN scenes : scenes[i] > 0
       THEN phase' = "render" /\ staging' = {} /\ UNCHANGED reason
       ELSE phase' = "refused" /\ reason' = "scenes" /\ UNCHANGED staging
    /\ UNCHANGED <<timeline, framesOut, partial, preview, output>>

-----------------------------------------------------------------------------
\* The temporary directory cleans itself on every exit from its block.
LeaveStaging == staging' = {"gone"}

\* except Exception: neither a preview nor a delivery stays behind.
CleanUp == preview' = "none" /\ output' = "none"

\* Any step inside the try block may raise.
Raise(why) ==
    /\ phase' = "failed" /\ reason' = why
    /\ LeaveStaging /\ CleanUp

\* frame_total, the frames of all clips.
FrameCountOfClips == Cardinality(FramesOf(DOMAIN scenes))

RenderFrame ==
    /\ phase = "render" /\ framesOut < FrameCountOfClips
    /\ framesOut' = framesOut + 1
    /\ preview' = IF framesOut = 0 THEN "complete" ELSE preview
    /\ staging' = {"video part"}
    /\ UNCHANGED <<timeline, phase, reason, partial, output>>

\* A source that cannot be decoded, the writer or the preview fails.
RenderFails ==
    /\ phase = "render" /\ Raise("render")
    /\ UNCHANGED <<timeline, framesOut, partial>>

RenderEnds ==
    /\ phase = "render" /\ framesOut = FrameCountOfClips
    /\ staging' = {"video"} /\ phase' = "mix"
    /\ UNCHANGED <<timeline, reason, framesOut, partial, preview, output>>

\* _build_audio_mix: duration_rendered is frame_total / fps, compared with the
\* budget of the sum of durations.
MixOverBudget == 100 * framesOut > MaxTotal * Fps(rate)

BuildAudioMix ==
    /\ phase = "mix"
    /\ \/ MixOverBudget /\ Raise("budget")
       \/ ~MixOverBudget /\ audio # "absent" /\ Raise("mix")
       \/ /\ ~MixOverBudget /\ phase' = "mux"
          /\ staging' = IF audio = "sound" THEN staging \cup {"audio"} ELSE staging
          /\ UNCHANGED <<reason, preview, output>>
    /\ UNCHANGED <<timeline, framesOut, partial>>

\* subprocess.run: ffmpeg begins to write.
FfmpegWrites ==
    /\ phase = "mux" /\ partial = "none"
    /\ partial' = "partly"
    /\ UNCHANGED <<timeline, phase, reason, framesOut, staging, preview, output>>

\* It writes on to the end; it may also hang, so that only the timeout ends it.
FfmpegEnds ==
    /\ phase = "mux" /\ partial = "partly"
    /\ partial' = "complete"
    /\ UNCHANGED <<timeline, phase, reason, framesOut, staging, preview, output>>

\* finally: partial_path.unlink, after a replace that moved it as well.
UnlinkPartial == partial' = "none"

\* Mutant: the partial file is removed only when ffmpeg reports its failure.
MuxFailsTimeoutKeeps ==
    /\ phase = "mux"
    /\ \/ Raise("mux") /\ UnlinkPartial
       \/ Raise("timeout") /\ UNCHANGED partial
    /\ UNCHANGED <<timeline, framesOut>>

\* A return code, a missing file, or the timeout: the process is killed at any
\* point of its writing.
MuxFails ==
    /\ phase = "mux"
    /\ \E why \in {"mux", "timeout"} : Raise(why)
    /\ UnlinkPartial
    /\ UNCHANGED <<timeline, framesOut>>

\* partial_path.replace(output_path), and the end of the staging directory.
Replace ==
    /\ phase = "mux" /\ partial = "complete"
    /\ output' = "complete" /\ UnlinkPartial
    /\ phase' = "evaluate" /\ LeaveStaging
    /\ UNCHANGED <<timeline, reason, framesOut, preview>>

\* evaluate_video_output stands inside the try block.
Evaluate ==
    /\ phase = "evaluate"
    /\ \/ phase' = "done" /\ UNCHANGED <<reason, staging, preview, output>>
       \/ Raise("quality")
    /\ UNCHANGED <<timeline, framesOut, partial>>

\* The job's own thread; the encoder beside it goes on in FfmpegEnds.
Straight ==
    \/ Validate \/ BuildClips \/ RenderFrame \/ RenderEnds \/ BuildAudioMix
    \/ FfmpegWrites \/ Replace \/ Evaluate

Ended == phase \in {"done", "refused", "failed"} /\ UNCHANGED vars

Next == Straight \/ RenderFails \/ FfmpegEnds \/ MuxFails \/ Ended

\* The code runs straight on and the sources are finite.  Nothing promises
\* that ffmpeg ends by itself; the timeout does.
Fairness == WF_vars(Straight) /\ WF_vars(MuxFails)

Spec == Init /\ [][Next]_vars /\ Fairness

-----------------------------------------------------------------------------
File == {"none", "partly", "complete"}

(* Types; once the job is over its temporary directory is gone.              *)
TypeOK ==
    /\ phase \in {"validate", "clips", "render", "mix", "mux", "evaluate", "done",
                  "refused", "failed"}
    /\ reason \in {"none", "budget", "scenes", "render", "mix", "mux", "timeout", "quality"}
    /\ framesOut \in Nat
    /\ staging = {"gone"} \/ staging \subseteq {"video part", "video", "audio"}
    /\ partial \in File /\ preview \in File /\ output \in File
    /\ phase \in {"done", "refused", "failed"} => staging = {"gone"}

(* A failed job leaves neither a preview, a delivery nor a partial file      *)
(* behind, wherever it failed, the timeout of ffmpeg included                *)
(* (assembly.py:460-465, 1131-1132).                                         *)
FailedLeavesNothing ==
    phase \in {"refused", "failed"} => {partial, preview, output} = {"none"}

(* Readers see a complete delivery or none at all, never the bytes of a      *)
(* running ffmpeg, and a success has its preview and its delivery            *)
(* (assembly.py:1121-1124).                                                  *)
DeliveryIsWhole ==
    /\ output # "partly"
    /\ phase = "done" => preview = "complete" /\ output = "complete" /\ partial = "none"

(* The renderer never writes more frames than the budget that                *)
(* validate_request counted with its own sum (assembly.py:324-336 against    *)
(* _build_clips).                                                            *)
FramesWithinBudget == framesOut <= MaxFrames

-----------------------------------------------------------------------------
(* What these rest on: the timeline that was admitted stays within its       *)
(* budget, and each file exists in the phases that write or show it only.    *)
Working == {"render", "mix", "mux", "evaluate", "done"}

TimelineIsAdmitted ==
    /\ rate \in Rates
    /\ \E n \in 1..MaxScenes + 1 : scenes \in [1..n -> Durations]
    /\ phase \in {"clips"} \cup Working => FrameTotal <= MaxFrames
    /\ phase \in Working => \A i \in DOMAIN scenes : scenes[i] > 0

FilesFollowPhases ==
    /\ phase \in {"validate", "clips", "evaluate"} => staging = {"gone"}
    /\ phase \in {"render", "mix", "mux"} => staging # {"gone"}
    /\ partial # "none" => phase = "mux"
    /\ preview # "none" => phase \in Working
    /\ phase \in {"validate", "clips"} => framesOut = 0
    /\ (phase \in Working /\ framesOut > 0) => preview = "complete"
    /\ phase \in Working \ {"render"} => framesOut > 0
    /\ output = (IF phase \in {"evaluate", "done"} THEN "complete" ELSE "none")

AssemblyInv == TypeOK /\ TimelineIsAdmitted /\ FilesFollowPhases /\ FramesWithinBudget
===============================================================================
