------------------------------- MODULE MCStory -------------------------------
(* The story for TLC: its two halves touch different fields of the document, *)
(* so in each behaviour either media are bound to a scene or texts are       *)
(* written, scenes or chapters, by routes that overlap.                       *)
EXTENDS StoryBinding, Sequences

CONSTANTS w1, loop, none, untitled, t1, t2

VARIABLES
    activity,
    \* --- StoryText
    exists, scenes, chapters, unassigned, sources, state, request, reading, review

textVars == <<exists, scenes, chapters, unassigned, sources, state, request, reading, review>>
allVars == <<activity, vars, textVars>>

TwoJobs == {1, 2}
OneWorker == {w1}

\* Scene lists and scripts.
Writing == INSTANCE StoryText WITH
    Jobs <- {1, 2, 3}, Titles <- {}, Untitled <- untitled, MaxScenes <- 2, MaxChapters <- 1
\* Chapters, which are regenerated, reviewed and applied again.
Editor == INSTANCE StoryText WITH
    Jobs <- {1, 2, 3}, Titles <- {untitled, t1, t2}, Untitled <- untitled,
    MaxScenes <- 0, MaxChapters <- 2

\* What StoryTextProofs assumes of the bounds.
ASSUME TextsAreSound == Writing!TextAssumption /\ Editor!TextAssumption

NoText ==
    /\ exists = 0 /\ scenes = 0 /\ chapters = 0 /\ unassigned = 0 /\ sources = 0
    /\ state = 0 /\ request = 0 /\ reading = 0 /\ review = 0

\* The scene waits for two images while texts are written; jobs of no scene bind
\* nothing.
MCInit ==
    /\ Init
    /\ \/ /\ activity = "binding" /\ NoText
          /\ \A j \in Jobs : target[j] = "none" => outputs[j]
       \/ /\ \/ activity = "writing" /\ Writing!Init
             \/ activity = "editing" /\ Editor!Init
          /\ \A j \in Jobs : target[j] = "here" /\ outputs[j]

Binding == activity = "binding" /\ UNCHANGED <<activity, textVars>>
Texts(a) == activity = a /\ UNCHANGED <<activity, vars>>

Work == Binding /\ Worker(w1)
Retry == Binding /\ RetryLoop
Disturb == Binding /\ (Environment \/ Idle)
Write == Texts("writing") /\ Writing!Next
Edit == Texts("editing") /\ Editor!Next

MCNext == Work \/ Retry \/ Disturb \/ Write \/ Edit

\* As in StoryBinding: a job need not end, but its completion goes on.
MCSpec ==
    /\ MCInit /\ [][MCNext]_allVars
    /\ WF_allVars(Binding /\ (SyncAsset(w1) \/ LiveBind(w1) \/ Step(w1)))
    /\ WF_allVars(Retry)

-----------------------------------------------------------------------------
(* A text job merged into a story that has changed since it was queued, or   *)
(* since the route read it, neither parks dialogue where no route reads it   *)
(* back nor costs a scene its media, and no deleted story comes back. A      *)
(* chapter that continues from prose which is gone is flagged, unless its    *)
(* own text or the acknowledgement of its flag was asked for before that     *)
(* prose was replaced and applied after it (stories.py:648-669,              *)
(* merge.py:116-119, 160-203, 216-268, schemas.py:137-143).                  *)
EditsSurvive ==
    [][ /\ activity = "writing" => Writing!TypeOK'
        /\ activity # "binding" => Writing!LinesNeverParked' /\ Writing!MediaSurvives
        /\ activity = "editing" => (Editor!TypeOK /\ Editor!NoSilentStaleness)' ]_allVars
=============================================================================
