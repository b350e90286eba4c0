------------------------------- MODULE StoryText -------------------------------
(***************************************************************************)
(* The writing stages of a story (apps/api/routes/stories.py, core/story/  *)
(* merge.py): a text job is queued against the story as it then is         *)
(* (expand_story), ends some time later, and is merged into the document   *)
(* as it has become (apply_story_result under the lock of                  *)
(* StoryRepository.mutate); a regenerated chapter flags the later ones as  *)
(* stale until they are rewritten or an editor acknowledges them.          *)
(*                                                                         *)
(* A text is known by the job that wrote it.  Scenes and chapters are      *)
(* identified by their place, as the ids scene_01, chapter_01 are.         *)
(***************************************************************************)
EXTENDS Integers, Sequences, SequencesExt

CONSTANTS
    Jobs,           \* text jobs; 0 is none
    Titles,         \* titles of chapters
    Untitled,       \* the empty title, one of them
    MaxScenes,      \* bound: scenes of a story
    MaxChapters     \* bound: chapters of a story

VARIABLES
    exists,     \* the file of the story
    scenes,     \* [media, dialogue]: the job whose asset is bound, the job of the lines
    chapters,   \* [title, text, stale] and two ghosts, basis and late
    unassigned, \* metadata["unassigned_script_lines"]
    sources,    \* source_job_ids
    state,      \* of a job: new, queued, applied or refused
    request,    \* what a job was asked for, and its result
    reading,    \* for an apply between its checks and the lock: the scenes it saw
    review      \* an editor looking at a flagged chapter

vars == <<exists, scenes, chapters, unassigned, sources, state, request, reading, review>>
doc == <<exists, scenes, chapters, unassigned, sources>>

NoRequest == [task |-> "none"]
NotReading == -1
NoReview == [chapter |-> 0, seen |-> <<>>]

Init ==
    /\ exists = TRUE /\ scenes = <<>> /\ chapters = <<>> /\ unassigned = {} /\ sources = <<>>
    /\ state = [j \in Jobs |-> "new"] /\ request = [j \in Jobs |-> NoRequest]
    /\ reading = [j \in Jobs |-> NotReading] /\ review = NoReview

\* The prose of the chapters before one, or of all of them.
Texts(n) == [k \in 1..n |-> chapters[k].text]

\* That prose is no longer the prose of the story.
Differs(texts) == \E k \in DOMAIN texts : texts[k] # chapters[k].text

-----------------------------------------------------------------------------
\* The place a chapter of that title will take.
Place(title) ==
    LET same == {k \in DOMAIN chapters : title # Untitled /\ chapters[k].title = title}
    IN IF same = {} THEN Len(chapters) + 1 ELSE CHOOSE k \in same : \A l \in same : k <= l

\* _bind_task_to_scene: the scene a script is for, known when it is queued.
ScriptTargets == IF scenes = <<>> THEN {} ELSE DOMAIN scenes

\* expand_story, and POST /generate/text for a script without a scene.  The
\* result is chosen here: a text job is seeded from the story as it is now.
Expand(j) ==
    /\ state[j] = "new" /\ exists
    /\ \E r \in [task : {"scene_list"}, count : 1..MaxScenes]
             \cup [task : {"prose"}, title : Titles, basis : {Texts(Len(chapters))}]
             \cup [task : {"script"}, scene : ScriptTargets \cup {0}, named : 0..MaxScenes]
             \cup [task : {"other"}] :
        request' = [request EXCEPT ![j] = r]
    /\ state' = [state EXCEPT ![j] = "queued"]
    /\ UNCHANGED <<doc, reading, review>>

\* _merge_scene_list carries the media and the dialogue over by place.
MergeSceneList(r) ==
    /\ scenes' = [k \in 1..r.count |->
                    IF k <= Len(scenes) THEN scenes[k] ELSE [media |-> 0, dialogue |-> 0]]
    /\ UNCHANGED <<chapters, unassigned>>

\* Every later chapter may depend on the prose that is replaced.
Flagged(k, place) == k > place

\* The earlier prose that was there when the job was queued.
Basis(r, place) ==
    SubSeq(r.basis, 1, IF place - 1 < Len(r.basis) THEN place - 1 ELSE Len(r.basis))

\* A chapter is new and unflagged.  Its basis, the earlier prose it was written
\* against, and whether that had changed when it came, are ghosts.
NewChapter(j, r, place) ==
    [title |-> r.title, text |-> j, stale |-> 0,
     basis |-> Basis(r, place), late |-> Differs(Basis(r, place))]

\* _merge_prose: a chapter is matched by its title, an untitled one appended.
MergeProse(j, r) ==
    LET place == Place(r.title)
        chapter == NewChapter(j, r, place)
    IN /\ place <= MaxChapters
       /\ chapters' = IF place > Len(chapters) THEN Append(chapters, chapter)
                      ELSE [k \in DOMAIN chapters |->
                              IF k = place THEN chapter
                              ELSE IF Flagged(k, place) THEN [chapters[k] EXCEPT !.stale = place]
                              ELSE chapters[k]]
       /\ UNCHANGED <<scenes, unassigned>>

\* Mutant: the check looks at the document that was read before the lock.
NamesASceneBefore(j, r) == r.named # 0 \/ reading[j] = 1

\* _names_a_scene, on the document read under the lock.
NamesAScene(j, r) == r.named # 0 \/ Len(scenes) = 1

\* The scene of the request replaces whatever the payload names.
ScriptTarget(r) == IF r.scene # 0 THEN r.scene ELSE r.named

\* _merge_script: a named scene, the only one, or none.
MergeScript(j, r) ==
    LET target == IF ScriptTarget(r) = 0 /\ Len(scenes) = 1 THEN 1 ELSE ScriptTarget(r)
    IN /\ IF target = 0 THEN unassigned' = unassigned \cup {j} /\ UNCHANGED scenes
          ELSE scenes' = [scenes EXCEPT ![target].dialogue = j] /\ UNCHANGED unassigned
       /\ UNCHANGED chapters

MergeOther == UNCHANGED <<scenes, chapters, unassigned>>

\* The checks of apply_story_result, on a document read without the lock: a job
\* may be applied again, however long ago it ended.
ApplyRead(j) ==
    /\ exists /\ reading[j] = NotReading /\ state[j] # "new"
    /\ reading' = [reading EXCEPT ![j] = Len(scenes)]
    /\ UNCHANGED <<doc, state, request, review>>

\* Whether the callback raises, with nothing saved.
Refused(j, r) ==
    r.task = "script" /\ \/ r.scene = 0 /\ ~NamesAScene(j, r)
                         \/ ScriptTarget(r) # 0 /\ ScriptTarget(r) > Len(scenes)

Answer(j, result) ==
    /\ state' = [state EXCEPT ![j] = result]
    /\ reading' = [reading EXCEPT ![j] = NotReading]

\* source_job_ids names a job once.
Record(j) == sources' = IF Contains(sources, j) THEN sources ELSE Append(sources, j)

\* mutate with _apply: the document is read again under the lock.
ApplyMutate(j) ==
    LET r == request[j]
    IN /\ reading[j] # NotReading
       /\ \/ ~exists /\ Answer(j, "refused") /\ UNCHANGED doc
          \/ exists /\ Refused(j, r) /\ Answer(j, "refused") /\ UNCHANGED doc
          \/ /\ exists /\ ~Refused(j, r)
             /\ \/ r.task = "scene_list" /\ MergeSceneList(r)
                \/ r.task = "prose" /\ MergeProse(j, r)
                \/ r.task = "script" /\ MergeScript(j, r)
                \/ r.task = "other" /\ MergeOther
             /\ Record(j)
             /\ Answer(j, "applied") /\ UNCHANGED exists
       /\ UNCHANGED <<request, review>>

\* A prose job that would be one chapter too many for the instance.
GiveUp(j) ==
    LET r == request[j]
    IN /\ reading[j] # NotReading /\ exists
       /\ r.task = "prose" /\ Place(r.title) > MaxChapters
       /\ Answer(j, "refused")
       /\ UNCHANGED <<doc, request, review>>

-----------------------------------------------------------------------------
\* An editor reads a flagged chapter together with the ones before it ...
Review ==
    /\ exists /\ review = NoReview
    /\ \E k \in DOMAIN chapters :
        /\ chapters[k].stale # 0
        /\ review' = [chapter |-> k, seen |-> Texts(k - 1)]
    /\ UNCHANGED <<doc, state, request, reading>>

\* ... and acknowledge_stale_chapter clears the flag of that chapter, if it is
\* still there.
AcknowledgeStale ==
    /\ review # NoReview
    /\ chapters' = IF exists /\ chapters[review.chapter].stale # 0
                   THEN [chapters EXCEPT ![review.chapter].stale = 0,
                                         ![review.chapter].basis = review.seen,
                                         ![review.chapter].late = Differs(review.seen)]
                   ELSE chapters
    /\ review' = NoReview
    /\ UNCHANGED <<exists, scenes, unassigned, sources, state, request, reading>>

\* The binder gives a scene its media.
BindMedia ==
    /\ exists
    /\ \E k \in DOMAIN scenes : scenes[k].media = 0 /\ scenes' = [scenes EXCEPT ![k].media = 1]
    /\ UNCHANGED <<exists, chapters, unassigned, sources, state, request, reading, review>>

DeleteStory ==
    /\ exists /\ exists' = FALSE
    /\ scenes' = <<>> /\ chapters' = <<>> /\ unassigned' = {} /\ sources' = <<>>
    /\ UNCHANGED <<state, request, reading, review>>

Rest == (~exists \/ \A j \in Jobs : state[j] # "new") /\ UNCHANGED vars

Next ==
    \/ \E j \in Jobs : Expand(j) \/ ApplyRead(j) \/ ApplyMutate(j) \/ GiveUp(j)
    \/ Review \/ AcknowledgeStale \/ BindMedia \/ DeleteStory \/ Rest

Spec == Init /\ [][Next]_vars

-----------------------------------------------------------------------------
(* Types; a chapter's warning names an earlier chapter, titles are unique,   *)
(* and a job is recorded once however often it is applied (merge.py:54-57,   *)
(* 160-202).                                                                 *)
TypeOK ==
    /\ Len(scenes) <= MaxScenes /\ Len(chapters) <= MaxChapters
    /\ \A k \in DOMAIN chapters :
        /\ chapters[k].stale \in 0..k - 1
        /\ \A l \in DOMAIN chapters :
            chapters[k].title = chapters[l].title /\ k # l => chapters[k].title = Untitled
    /\ IsInjective(sources) /\ ToSet(sources) \subseteq Jobs

(* Dialogue is never parked where no route can read it back: the check of    *)
(* the route and the choice of the merge agree on the document under the     *)
(* lock, whatever was regenerated since the job was queued or the story read *)
(* (stories.py:648-669, merge.py:216-268).                                   *)
LinesNeverParked == unassigned = {}

(* Rewriting text keeps the media of every scene that keeps its place        *)
(* (merge.py:116-119), and a deleted story does not come back.               *)
MediaSurvives ==
    /\ \A k \in DOMAIN scenes : exists' /\ k <= Len(scenes') /\ scenes[k].media # 0
          => scenes'[k].media = scenes[k].media
    /\ exists' => exists

\* An earlier chapter is no longer the one this chapter was written or
\* reviewed against.
Outdated(k) == Differs(chapters[k].basis)

(* A chapter that continues from prose which is gone is flagged, unless its  *)
(* own text, or the acknowledgement that cleared its flag, came late: asked  *)
(* for before that prose was replaced and applied after it.  This is what    *)
(* merge.py:172-203 gives of schemas.py:137-143 for routes that overlap and  *)
(* for results that are applied again or in another order.                   *)
NoSilentStaleness ==
    \A k \in DOMAIN chapters : Outdated(k) => chapters[k].stale # 0 \/ chapters[k].late

-----------------------------------------------------------------------------
(* What these rest on.                                                     *)

TextAssumption == MaxScenes \in Nat /\ MaxChapters \in Nat

Scene == [media : {0, 1}, dialogue : Jobs \cup {0}]
Chapter == [title : Titles, text : Jobs, stale : Nat, basis : Seq(Jobs), late : BOOLEAN]
Wanted ==
    [task : {"scene_list"}, count : 1..MaxScenes]
        \cup [task : {"prose"}, title : Titles, basis : Seq(Jobs)]
        \cup [task : {"script"}, scene : Nat, named : 0..MaxScenes]
        \cup [task : {"other"}]

(* The document is well formed, and whatever happened to it since, a job that *)
(* was queued still says what it was asked for and an editor looks at a      *)
(* chapter that is still there.                                              *)
WellFormed ==
    /\ exists \in BOOLEAN
    /\ scenes \in Seq(Scene) /\ chapters \in Seq(Chapter) /\ sources \in Seq(Jobs)
    /\ state \in [Jobs -> {"new", "queued", "applied", "refused"}]
    /\ request \in [Jobs -> Wanted \cup {NoRequest}] /\ reading \in [Jobs -> Int]
    /\ \A j \in Jobs : state[j] # "new" => request[j] \in Wanted
    /\ \A j \in Jobs : reading[j] # NotReading => state[j] # "new"
    /\ review \in [chapter : Nat, seen : Seq(Jobs)]
    /\ exists /\ review # NoReview => review.chapter \in DOMAIN chapters

TextInv == WellFormed /\ TypeOK /\ LinesNeverParked

\* A chapter depends on earlier ones only.
BasisIsEarlier == \A k \in DOMAIN chapters : Len(chapters[k].basis) <= k - 1

\* What an editor has read are the chapters before.
ReviewIsEarlier == exists /\ review # NoReview => Len(review.seen) <= review.chapter - 1

(* The inductive form of NoSilentStaleness.                                  *)
EditorInv == BasisIsEarlier /\ ReviewIsEarlier /\ NoSilentStaleness
===============================================================================
