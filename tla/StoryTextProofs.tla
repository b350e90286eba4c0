---------------------------- MODULE StoryTextProofs ----------------------------
(***************************************************************************)
(* Proofs about StoryText, for any jobs, titles and sizes of a story.      *)
(*                                                                         *)
(* TextInv is kept by every step (<Action>Keeps), which needs of a merge   *)
(* only where it puts a result (SceneListMerges, ScriptMerges, ProsePlaces *)
(* and ProseMerges).  EditorInv, on top of it, needs that chapters and     *)
(* reviews look at earlier chapters only (<Action>Warns).                  *)
(***************************************************************************)
EXTENDS StoryText, TLAPS, SequenceTheorems

-----------------------------------------------------------------------------
(* Sequences.                                                              *)

\* A function on 1..n is a sequence of that length.
LEMMA FunctionIsSeq ==
    ASSUME NEW n \in Nat, NEW S, NEW f \in [1..n -> S]
    PROVE  f \in Seq(S) /\ Len(f) = n /\ DOMAIN f = 1..n
<1>1. f \in Seq(S)
  BY SeqDef
<1>2. Len(f) \in Nat /\ DOMAIN f = 1..Len(f)
  BY <1>1, LenProperties
<1>3. DOMAIN f = 1..n
  OBVIOUS
<1>4. Len(f) = n
  BY <1>2, <1>3
<1> QED
  BY <1>1, <1>3, <1>4

\* What the document's sequences are, as functions.
LEMMA DocumentIsFinite ==
    ASSUME WellFormed
    PROVE  /\ Len(chapters) \in Nat /\ DOMAIN chapters = 1..Len(chapters)
           /\ \A k \in 1..Len(chapters) : chapters[k] \in Chapter
           /\ Len(scenes) \in Nat /\ DOMAIN scenes = 1..Len(scenes)
           /\ \A k \in 1..Len(scenes) : scenes[k] \in Scene
           /\ Len(sources) \in Nat /\ DOMAIN sources = 1..Len(sources)
<1>1. /\ chapters \in Seq(Chapter) /\ scenes \in Seq(Scene) /\ sources \in Seq(Jobs)
  BY DEF WellFormed
<1> QED
  BY <1>1, LenProperties, ElementOfSeq

\* The prose of the first chapters.
LEMMA TextsAreProse ==
    ASSUME WellFormed, NEW n \in Nat, n <= Len(chapters)
    PROVE  Texts(n) \in Seq(Jobs) /\ Len(Texts(n)) = n
<1>1. \A k \in 1..n : chapters[k].text \in Jobs
  BY DocumentIsFinite DEF Chapter
<1>2. Texts(n) \in [1..n -> Jobs]
  BY <1>1 DEF Texts
<1> QED
  BY <1>2, FunctionIsSeq

\* A title that is taken is the title of one chapter only.
LEMMA PlaceOfTitle ==
    ASSUME WellFormed, TypeOK, NEW title
    PROVE  \/ /\ Place(title) = Len(chapters) + 1
              /\ title = Untitled \/ \A k \in DOMAIN chapters : chapters[k].title # title
           \/ /\ Place(title) \in DOMAIN chapters /\ chapters[Place(title)].title = title
              /\ title # Untitled
<1> DEFINE same == {k \in DOMAIN chapters : title # Untitled /\ chapters[k].title = title}
<1>1. CASE same = {}
  BY <1>1 DEF Place
<1>2. CASE same # {}
  <2>1. PICK k \in same : TRUE
    BY <1>2
  <2>2. \A l \in same : l = k
    BY <2>1 DEF TypeOK
  <2>3. k <= k
    BY <2>1, DocumentIsFinite
  <2>4. \A l \in same : k <= l
    BY <2>2, <2>3
  <2>5. Place(title) = CHOOSE m \in same : \A l \in same : m <= l
    BY <1>2 DEF Place
  <2>6. Place(title) \in same
    BY <2>1, <2>4, <2>5
  <2> QED
    BY <2>6
<1> QED
  BY <1>1, <1>2

-----------------------------------------------------------------------------
(* The document is well formed.                                            *)

\* A step that leaves the document alone.
LEMMA DocumentStays ==
    ASSUME TextInv, UNCHANGED doc,
           state' \in [Jobs -> {"new", "queued", "applied", "refused"}],
           request' \in [Jobs -> Wanted \cup {NoRequest}], reading' \in [Jobs -> Int],
           \A j \in Jobs : state'[j] # "new" => request'[j] \in Wanted,
           \A j \in Jobs : reading'[j] # NotReading => state'[j] # "new",
           review' \in [chapter : Nat, seen : Seq(Jobs)],
           exists /\ review' # NoReview => review'.chapter \in DOMAIN chapters
    PROVE  TextInv'
<1>1. WellFormed'
  BY DEF TextInv, WellFormed, doc, Scene, Chapter, Wanted
<1>2. TypeOK' /\ LinesNeverParked'
  BY DEF TextInv, TypeOK, LinesNeverParked, doc
<1> QED
  BY <1>1, <1>2 DEF TextInv

\* A step that changes the document leaves requests and reviews alone.
LEMMA DocumentMoves ==
    ASSUME TextInv, UNCHANGED <<exists, request, review>>,
           scenes' \in Seq(Scene), Len(scenes') <= MaxScenes,
           chapters' \in Seq(Chapter), Len(chapters') \in Nat, Len(chapters') <= MaxChapters,
           Len(chapters) <= Len(chapters'),
           \A k \in 1..Len(chapters') : chapters'[k].stale \in 0..k - 1,
           \A k, l \in 1..Len(chapters') :
               chapters'[k].title = chapters'[l].title /\ k # l => chapters'[k].title = Untitled,
           sources' \in Seq(Jobs), IsInjective(sources'), unassigned' = {},
           state' \in [Jobs -> {"new", "queued", "applied", "refused"}],
           reading' \in [Jobs -> Int],
           \A j \in Jobs : state'[j] # "new" => state[j] # "new",
           \A j \in Jobs : reading'[j] # NotReading => state'[j] # "new"
    PROVE  TextInv'
<1>1. DOMAIN chapters' = 1..Len(chapters') /\ DOMAIN chapters = 1..Len(chapters)
  BY LenProperties, DocumentIsFinite DEF TextInv
<1>2. exists' /\ review' # NoReview => review'.chapter \in DOMAIN chapters'
  <2>1. exists /\ review # NoReview => review.chapter \in 1..Len(chapters)
    BY <1>1 DEF TextInv, WellFormed
  <2>2. Len(chapters) \in Nat
    BY DocumentIsFinite DEF TextInv
  <2> QED
    BY <1>1, <2>1, <2>2
<1>3. WellFormed'
  BY <1>2 DEF TextInv, WellFormed, Scene, Chapter, Wanted
<1>4. ToSet(sources') \subseteq Jobs
  BY ElementOfSeq, LenProperties DEF ToSet
<1>5. TypeOK'
  BY <1>1, <1>4 DEF TypeOK
<1> QED
  BY <1>3, <1>5 DEF TextInv, LinesNeverParked

\* source_job_ids names a job once, however often it is applied.
LEMMA RecordIsOnce ==
    ASSUME TextInv, NEW j \in Jobs, Record(j)
    PROVE  sources' \in Seq(Jobs) /\ IsInjective(sources')
<1>1. sources \in Seq(Jobs) /\ IsInjective(sources)
  BY DEF TextInv, WellFormed, TypeOK
<1>2. CASE Contains(sources, j)
  BY <1>1, <1>2 DEF Record
<1>3. CASE ~Contains(sources, j)
  <2>1. sources' = Append(sources, j)
    BY <1>3 DEF Record
  <2>2. \A k \in 1..Len(sources) : sources[k] # j
    BY <1>3 DEF Contains
  <2>3. /\ sources' \in Seq(Jobs) /\ Len(sources') = Len(sources) + 1
        /\ \A k \in 1..Len(sources) : sources'[k] = sources[k]
        /\ sources'[Len(sources) + 1] = j
    BY <1>1, <2>1, AppendProperties
  <2>4. /\ DOMAIN sources' = 1..(Len(sources) + 1) /\ DOMAIN sources = 1..Len(sources)
        /\ Len(sources) \in Nat
    BY <1>1, <2>3, LenProperties
  <2>5. ASSUME NEW a \in 1..(Len(sources) + 1), NEW b \in 1..(Len(sources) + 1),
               sources'[a] = sources'[b]
        PROVE  a = b
    <3>1. CASE a \in 1..Len(sources) /\ b \in 1..Len(sources)
      BY <1>1, <2>3, <2>4, <2>5, <3>1 DEF IsInjective
    <3>2. CASE a = Len(sources) + 1 \/ b = Len(sources) + 1
      BY <2>2, <2>3, <2>4, <2>5, <3>2
    <3> QED
      BY <2>4, <3>1, <3>2
  <2> QED
    BY <2>3, <2>4, <2>5 DEF IsInjective
<1> QED
  BY <1>2, <1>3

-----------------------------------------------------------------------------
(* One lemma per operation.                                                *)

LEMMA TextInit == ASSUME TextAssumption, Init PROVE TextInv
<1>1. chapters = <<>> /\ scenes = <<>> /\ sources = <<>> /\ unassigned = {} /\ exists = TRUE
  BY DEF Init
<1>2. /\ chapters \in Seq(Chapter) /\ scenes \in Seq(Scene) /\ sources \in Seq(Jobs)
      /\ Len(chapters) = 0 /\ Len(scenes) = 0 /\ DOMAIN chapters = {} /\ DOMAIN sources = {}
  BY <1>1, EmptySeq
<1>3. /\ state \in [Jobs -> {"new", "queued", "applied", "refused"}]
      /\ reading \in [Jobs -> Int] /\ request \in [Jobs -> Wanted \cup {NoRequest}]
  BY DEF Init, NotReading
<1>4. review \in [chapter : Nat, seen : Seq(Jobs)] /\ review = NoReview
  <2>1. <<>> \in Seq(Jobs)
    BY EmptySeq
  <2> QED
    BY <2>1 DEF Init, NoReview
<1>5. \A j \in Jobs : state[j] = "new" /\ reading[j] = NotReading
  BY DEF Init
<1>6. WellFormed
  BY <1>1, <1>2, <1>3, <1>4, <1>5 DEF WellFormed
<1>7. TypeOK
  BY <1>2, TextAssumption DEF TypeOK, IsInjective, ToSet, TextAssumption
<1> QED
  BY <1>1, <1>6, <1>7 DEF TextInv, LinesNeverParked

LEMMA ExpandKeeps ==
    ASSUME TextAssumption, TextInv, NEW j \in Jobs, Expand(j)
    PROVE  TextInv' /\ \E r \in Wanted : request' = [request EXCEPT ![j] = r]
<1>1. /\ WellFormed /\ UNCHANGED doc /\ UNCHANGED <<reading, review>>
      /\ state' = [state EXCEPT ![j] = "queued"] /\ state[j] = "new"
  BY DEF TextInv, Expand
<1>2. /\ [task : {"scene_list"}, count : 1..MaxScenes] \subseteq Wanted
      /\ [task : {"prose"}, title : Titles, basis : {Texts(Len(chapters))}] \subseteq Wanted
      /\ [task : {"script"}, scene : ScriptTargets \cup {0}, named : 0..MaxScenes] \subseteq Wanted
      /\ [task : {"other"}] \subseteq Wanted
  <2>1. Texts(Len(chapters)) \in Seq(Jobs)
    BY <1>1, TextsAreProse, DocumentIsFinite
  <2>2. ScriptTargets \cup {0} \subseteq Nat
    BY <1>1, DocumentIsFinite DEF ScriptTargets
  <2> QED
    BY <2>1, <2>2 DEF Wanted
<1>3. \E r \in Wanted : request' = [request EXCEPT ![j] = r]
  BY <1>2 DEF Expand
<1>4. PICK r \in Wanted : request' = [request EXCEPT ![j] = r]
  BY <1>3
<1>5. /\ request \in [Jobs -> Wanted \cup {NoRequest}] /\ reading \in [Jobs -> Int]
      /\ state \in [Jobs -> {"new", "queued", "applied", "refused"}]
      /\ review \in [chapter : Nat, seen : Seq(Jobs)]
      /\ exists /\ review # NoReview => review.chapter \in DOMAIN chapters
      /\ \A i \in Jobs : state[i] # "new" => request[i] \in Wanted
      /\ \A i \in Jobs : reading[i] # NotReading => state[i] # "new"
  BY <1>1 DEF WellFormed
<1>6. /\ request' \in [Jobs -> Wanted \cup {NoRequest}] /\ request'[j] = r
      /\ \A i \in Jobs \ {j} : request'[i] = request[i]
  BY <1>4, <1>5
<1>7. /\ state' \in [Jobs -> {"new", "queued", "applied", "refused"}] /\ state'[j] = "queued"
      /\ \A i \in Jobs \ {j} : state'[i] = state[i]
  BY <1>1, <1>5
<1>8. /\ \A i \in Jobs : state'[i] # "new" => request'[i] \in Wanted
      /\ \A i \in Jobs : reading'[i] # NotReading => state'[i] # "new"
  BY <1>1, <1>5, <1>6, <1>7
<1>9. TextInv'
  BY <1>1, <1>5, <1>6, <1>7, <1>8, DocumentStays
<1> QED
  BY <1>3, <1>9

LEMMA ApplyReadKeeps ==
    ASSUME TextInv, NEW j \in Jobs, ApplyRead(j)
    PROVE  TextInv'
<1>1. /\ UNCHANGED doc /\ UNCHANGED <<state, request, review>> /\ state[j] # "new"
      /\ reading' = [reading EXCEPT ![j] = Len(scenes)] /\ Len(scenes) \in Int
  BY DocumentIsFinite DEF TextInv, ApplyRead
<1> QED
  BY <1>1, DocumentStays DEF TextInv, WellFormed

\* A job that is refused has changed nothing.
LEMMA RefusalKeeps ==
    ASSUME TextInv, NEW j \in Jobs, reading[j] # NotReading, Answer(j, "refused"),
           UNCHANGED doc, UNCHANGED <<request, review>>
    PROVE  TextInv'
<1>1. /\ state' = [state EXCEPT ![j] = "refused"] /\ reading' = [reading EXCEPT ![j] = NotReading]
      /\ NotReading \in Int /\ state[j] # "new"
  BY DEF Answer, NotReading, TextInv, WellFormed
<1> QED
  BY <1>1, DocumentStays DEF TextInv, WellFormed

LEMMA GiveUpKeeps ==
    ASSUME TextInv, NEW j \in Jobs, GiveUp(j)
    PROVE  TextInv'
BY RefusalKeeps DEF GiveUp

\* The document after a merge; what became of the job follows.
LEMMA AppliedMoves ==
    ASSUME TextInv, NEW j \in Jobs, reading[j] # NotReading, Answer(j, "applied"), Record(j),
           UNCHANGED <<exists, request, review>>,
           scenes' \in Seq(Scene), Len(scenes') <= MaxScenes,
           chapters' \in Seq(Chapter), Len(chapters') \in Nat, Len(chapters') <= MaxChapters,
           Len(chapters) <= Len(chapters'),
           \A k \in 1..Len(chapters') : chapters'[k].stale \in 0..k - 1,
           \A k, l \in 1..Len(chapters') :
               chapters'[k].title = chapters'[l].title /\ k # l => chapters'[k].title = Untitled,
           unassigned' = {}
    PROVE  TextInv'
<1>1. /\ state' = [state EXCEPT ![j] = "applied"] /\ reading' = [reading EXCEPT ![j] = NotReading]
      /\ NotReading \in Int /\ state[j] # "new"
  BY DEF Answer, NotReading, TextInv, WellFormed
<1>2. /\ state' \in [Jobs -> {"new", "queued", "applied", "refused"}]
      /\ reading' \in [Jobs -> Int]
      /\ \A i \in Jobs : state'[i] # "new" => state[i] # "new"
      /\ \A i \in Jobs : reading'[i] # NotReading => state'[i] # "new"
  BY <1>1 DEF TextInv, WellFormed
<1>3. sources' \in Seq(Jobs) /\ IsInjective(sources')
  BY RecordIsOnce
<1> QED
  BY <1>2, <1>3, DocumentMoves

\* A merge that leaves the chapters alone.
LEMMA ChaptersStay ==
    ASSUME TextInv, UNCHANGED chapters
    PROVE  /\ chapters' \in Seq(Chapter) /\ Len(chapters') \in Nat /\ Len(chapters') <= MaxChapters
           /\ Len(chapters) <= Len(chapters')
           /\ \A k \in 1..Len(chapters') : chapters'[k].stale \in 0..k - 1
           /\ \A k, l \in 1..Len(chapters') :
               chapters'[k].title = chapters'[l].title /\ k # l => chapters'[k].title = Untitled
<1>1. /\ chapters \in Seq(Chapter) /\ TypeOK /\ Len(chapters) \in Nat
      /\ DOMAIN chapters = 1..Len(chapters)
  BY DocumentIsFinite DEF TextInv, WellFormed
<1> QED
  BY <1>1 DEF TypeOK

LEMMA SceneListMerges ==
    ASSUME TextInv, NEW r \in Wanted, r.task = "scene_list", MergeSceneList(r)
    PROVE  /\ scenes' \in Seq(Scene) /\ Len(scenes') <= MaxScenes
           /\ \A k \in DOMAIN scenes :
                k <= Len(scenes') /\ scenes[k].media # 0 => scenes'[k].media = scenes[k].media
<1>1. r.count \in 1..MaxScenes
  BY DEF Wanted
<1>2. PICK n \in Nat : n = r.count /\ n <= MaxScenes
  BY <1>1
<1>3. /\ Len(scenes) \in Nat /\ \A k \in 1..Len(scenes) : scenes[k] \in Scene
      /\ [media |-> 0, dialogue |-> 0] \in Scene /\ DOMAIN scenes = 1..Len(scenes)
  BY DocumentIsFinite DEF TextInv, Scene
<1>4. \A k \in 1..n : (IF k <= Len(scenes) THEN scenes[k] ELSE [media |-> 0, dialogue |-> 0]) \in Scene
  BY <1>3
<1>5. scenes' = [k \in 1..n |->
                    IF k <= Len(scenes) THEN scenes[k] ELSE [media |-> 0, dialogue |-> 0]]
  BY <1>2 DEF MergeSceneList
<1>6. scenes' \in [1..n -> Scene]
  BY <1>4, <1>5
<1>7. scenes' \in Seq(Scene) /\ Len(scenes') = n
  BY <1>6, FunctionIsSeq
<1>8. ASSUME NEW k \in DOMAIN scenes, k <= n
      PROVE  scenes'[k] = scenes[k]
  <2>1. k \in 1..n /\ k <= Len(scenes)
    BY <1>3, <1>8
  <2> QED
    BY <1>5, <2>1
<1> QED
  BY <1>2, <1>7, <1>8

\* One scene gets other lines or its media.
LEMMA SceneIsEdited ==
    ASSUME TextInv, NEW n \in 1..Len(scenes), NEW s \in Scene,
           scenes' = [scenes EXCEPT ![n] = s]
    PROVE  /\ scenes' \in Seq(Scene) /\ Len(scenes') <= MaxScenes /\ Len(scenes') = Len(scenes)
           /\ \A k \in DOMAIN scenes : scenes'[k] = IF k = n THEN s ELSE scenes[k]
<1>1. scenes \in Seq(Scene) /\ Len(scenes) <= MaxScenes /\ DOMAIN scenes = 1..Len(scenes)
  BY DocumentIsFinite DEF TextInv, WellFormed, TypeOK
<1> QED
  BY <1>1, ExceptSeq

LEMMA ScriptMerges ==
    ASSUME TextInv, NEW j \in Jobs, NEW r \in Wanted, r.task = "script", ~Refused(j, r),
           MergeScript(j, r)
    PROVE  /\ unassigned' = {} /\ UNCHANGED chapters
           /\ scenes' \in Seq(Scene) /\ Len(scenes') <= MaxScenes
           /\ \A k \in DOMAIN scenes : scenes'[k].media = scenes[k].media
<1>1. r.scene \in Nat /\ r.named \in Nat /\ Len(scenes) \in Nat /\ DOMAIN scenes = 1..Len(scenes)
  BY DocumentIsFinite DEF TextInv, Wanted
<1> DEFINE target == IF ScriptTarget(r) = 0 /\ Len(scenes) = 1 THEN 1 ELSE ScriptTarget(r)
<1>2. target # 0
  BY <1>1 DEF Refused, NamesAScene, ScriptTarget
<1>3. target \in 1..Len(scenes)
  BY <1>1, <1>2 DEF Refused, ScriptTarget
<1>4. /\ scenes' = [scenes EXCEPT ![target].dialogue = j] /\ UNCHANGED unassigned
      /\ UNCHANGED chapters
  BY <1>2 DEF MergeScript
<1> HIDE DEF target
<1>5. scenes[target] \in Scene
  BY <1>3, DocumentIsFinite DEF TextInv
<1>6. PICK s \in Scene : s = [scenes[target] EXCEPT !.dialogue = j] /\ s.media = scenes[target].media
  <2>1. [scenes[target] EXCEPT !.dialogue = j] \in Scene
    BY <1>5 DEF Scene
  <2>2. [scenes[target] EXCEPT !.dialogue = j].media = scenes[target].media
    BY <1>5 DEF Scene
  <2> QED
    BY <2>1, <2>2
<1>7. scenes' = [scenes EXCEPT ![target] = s]
  BY <1>4, <1>6
<1>8. /\ scenes' \in Seq(Scene) /\ Len(scenes') <= MaxScenes
      /\ \A k \in DOMAIN scenes : scenes'[k] = IF k = target THEN s ELSE scenes[k]
  BY <1>3, <1>7, SceneIsEdited
<1>9. unassigned = {}
  BY DEF TextInv, LinesNeverParked
<1> QED
  BY <1>4, <1>6, <1>8, <1>9

\* What a chapter that is written now says.
LEMMA ChapterIsNew ==
    ASSUME TextInv, NEW j \in Jobs, NEW r \in Wanted, r.task = "prose",
           NEW place \in 1..(Len(chapters) + 1)
    PROVE  /\ NewChapter(j, r, place) \in Chapter
           /\ NewChapter(j, r, place).stale = 0 /\ NewChapter(j, r, place).title = r.title
           /\ NewChapter(j, r, place).text = j
           /\ Len(NewChapter(j, r, place).basis) <= place - 1
           /\ NewChapter(j, r, place).late = Differs(NewChapter(j, r, place).basis)
<1>1. r.basis \in Seq(Jobs) /\ r.title \in Titles
  BY DEF Wanted
<1>2. Len(r.basis) \in Nat /\ \A k \in 1..Len(r.basis) : r.basis[k] \in Jobs
  BY <1>1, LenProperties, ElementOfSeq
<1>3. place \in Nat \ {0}
  BY DocumentIsFinite DEF TextInv
<1>4. PICK n \in Nat : /\ n = IF place - 1 < Len(r.basis) THEN place - 1 ELSE Len(r.basis)
                       /\ n <= place - 1 /\ n <= Len(r.basis)
  BY <1>2, <1>3
<1>5. \A k \in 1..n : r.basis[k] \in Jobs
  BY <1>2, <1>4
<1>6. /\ SubSeq(r.basis, 1, n) \in Seq(Jobs)
      /\ Len(SubSeq(r.basis, 1, n)) = IF 1 <= n THEN n - 1 + 1 ELSE 0
  <2>1. 1 \in Int /\ n \in Int
    BY <1>4
  <2> QED
    BY <1>5, <2>1, SubSeqProperties
<1>7. PICK b \in Seq(Jobs) : b = Basis(r, place) /\ Len(b) <= place - 1
  <2>1. Basis(r, place) = SubSeq(r.basis, 1, n)
    BY <1>4 DEF Basis
  <2>2. Len(SubSeq(r.basis, 1, n)) <= place - 1
    BY <1>4, <1>6
  <2> QED
    BY <1>6, <2>1, <2>2
<1>8. Differs(b) \in BOOLEAN
  BY DEF Differs
<1>9. NewChapter(j, r, place) =
         [title |-> r.title, text |-> j, stale |-> 0, basis |-> b, late |-> Differs(b)]
  BY <1>7 DEF NewChapter
<1>10. NewChapter(j, r, place) \in Chapter
  BY <1>1, <1>7, <1>8, <1>9 DEF Chapter
<1> QED
  BY <1>7, <1>9, <1>10

\* Where the prose goes, and what becomes of each chapter.
LEMMA ProsePlaces ==
    ASSUME TextAssumption, TextInv, NEW j \in Jobs, NEW r \in Wanted, r.task = "prose",
           MergeProse(j, r)
    PROVE  \E place \in 1..(Len(chapters) + 1) :
             /\ place = Place(r.title) /\ place <= MaxChapters
             /\ chapters' \in Seq(Chapter) /\ Len(chapters') \in Nat
             /\ Len(chapters') = IF place > Len(chapters) THEN place ELSE Len(chapters)
             /\ chapters'[place] = NewChapter(j, r, place)
             /\ \A k \in 1..Len(chapters) : k < place => chapters'[k] = chapters[k]
             /\ \A k \in 1..Len(chapters) : k > place =>
                   /\ chapters'[k].title = chapters[k].title
                   /\ chapters'[k].text = chapters[k].text
                   /\ chapters'[k].basis = chapters[k].basis
                   /\ chapters'[k].stale = place
<1>1. /\ Len(chapters) \in Nat /\ DOMAIN chapters = 1..Len(chapters)
      /\ \A k \in 1..Len(chapters) : chapters[k] \in Chapter
      /\ chapters \in Seq(Chapter)
  BY DocumentIsFinite DEF TextInv, WellFormed
<1>2. Place(r.title) = Len(chapters) + 1 \/ Place(r.title) \in DOMAIN chapters
  BY PlaceOfTitle DEF TextInv
<1>3. PICK place \in 1..(Len(chapters) + 1) : place = Place(r.title)
  BY <1>1, <1>2
<1>4. NewChapter(j, r, place) \in Chapter
  BY ChapterIsNew
<1>5. place <= MaxChapters
  BY <1>3 DEF MergeProse
<1>6. CASE place > Len(chapters)
  <2>1. place = Len(chapters) + 1
    BY <1>1, <1>6
  <2>2. chapters' = Append(chapters, NewChapter(j, r, place))
    BY <1>3, <1>6 DEF MergeProse
  <2>3. /\ chapters' \in Seq(Chapter) /\ Len(chapters') = Len(chapters) + 1
        /\ \A k \in 1..Len(chapters) : chapters'[k] = chapters[k]
        /\ chapters'[Len(chapters) + 1] = NewChapter(j, r, place)
    BY <1>1, <1>4, <2>2, AppendProperties
  <2>4. \A k \in 1..Len(chapters) : ~(k > place)
    BY <1>1, <2>1
  <2> QED
    BY <1>1, <1>3, <1>5, <1>6, <2>1, <2>3, <2>4
<1>7. CASE ~(place > Len(chapters))
  <2>1. place \in 1..Len(chapters)
    BY <1>1, <1>7
  <2>2. chapters' = [k \in 1..Len(chapters) |->
                              IF k = place THEN NewChapter(j, r, place)
                              ELSE IF k > place THEN [chapters[k] EXCEPT !.stale = place]
                              ELSE chapters[k]]
    BY <1>1, <1>3, <1>7 DEF MergeProse, Flagged
  <2>3. ASSUME NEW k \in 1..Len(chapters)
        PROVE  /\ [chapters[k] EXCEPT !.stale = place] \in Chapter
               /\ [chapters[k] EXCEPT !.stale = place].stale = place
               /\ [chapters[k] EXCEPT !.stale = place].title = chapters[k].title
               /\ [chapters[k] EXCEPT !.stale = place].text = chapters[k].text
               /\ [chapters[k] EXCEPT !.stale = place].basis = chapters[k].basis
    <3>1. chapters[k] \in Chapter /\ place \in Nat
      BY <1>1, <2>1
    <3> QED
      BY <3>1 DEF Chapter
  <2>4. \A k \in 1..Len(chapters) : chapters'[k] \in Chapter
    BY <1>1, <1>4, <2>2, <2>3
  <2>5. chapters' \in [1..Len(chapters) -> Chapter]
    BY <2>2, <2>4
  <2>6. chapters' \in Seq(Chapter) /\ Len(chapters') = Len(chapters)
    BY <1>1, <2>5, FunctionIsSeq
  <2>7. chapters'[place] = NewChapter(j, r, place)
    BY <2>1, <2>2
  <2>8. \A k \in 1..Len(chapters) : k < place => chapters'[k] = chapters[k]
    BY <1>1, <2>1, <2>2
  <2>9. \A k \in 1..Len(chapters) : k > place =>
             chapters'[k] = [chapters[k] EXCEPT !.stale = place]
    BY <1>1, <2>1, <2>2
  <2>10. \A k \in 1..Len(chapters) : k > place =>
             /\ chapters'[k].title = chapters[k].title
             /\ chapters'[k].text = chapters[k].text
             /\ chapters'[k].basis = chapters[k].basis
             /\ chapters'[k].stale = place
    BY <2>3, <2>9
  <2>11. Len(chapters') \in Nat
         /\ Len(chapters') = IF place > Len(chapters) THEN place ELSE Len(chapters)
    BY <1>1, <1>7, <2>6
  <2> QED
    BY <1>3, <1>5, <2>6, <2>7, <2>8, <2>10, <2>11
<1> QED
  BY <1>6, <1>7

LEMMA ProseMerges ==
    ASSUME TextAssumption, TextInv, NEW j \in Jobs, NEW r \in Wanted, r.task = "prose",
           MergeProse(j, r)
    PROVE  /\ chapters' \in Seq(Chapter) /\ Len(chapters') \in Nat /\ Len(chapters') <= MaxChapters
           /\ Len(chapters) <= Len(chapters')
           /\ \A k \in 1..Len(chapters') : chapters'[k].stale \in 0..k - 1
           /\ \A k, l \in 1..Len(chapters') :
               chapters'[k].title = chapters'[l].title /\ k # l => chapters'[k].title = Untitled
<1>1. /\ Len(chapters) \in Nat /\ DOMAIN chapters = 1..Len(chapters) /\ Len(chapters) <= MaxChapters
      /\ \A k \in 1..Len(chapters) : chapters[k].stale \in 0..k - 1
      /\ \A k, l \in 1..Len(chapters) :
           chapters[k].title = chapters[l].title /\ k # l => chapters[k].title = Untitled
  BY DocumentIsFinite DEF TextInv, TypeOK
<1>2. PICK place \in 1..(Len(chapters) + 1) :
             /\ place = Place(r.title) /\ place <= MaxChapters
             /\ chapters' \in Seq(Chapter) /\ Len(chapters') \in Nat
             /\ Len(chapters') = IF place > Len(chapters) THEN place ELSE Len(chapters)
             /\ chapters'[place] = NewChapter(j, r, place)
             /\ \A k \in 1..Len(chapters) : k < place => chapters'[k] = chapters[k]
             /\ \A k \in 1..Len(chapters) : k > place =>
                   /\ chapters'[k].title = chapters[k].title
                   /\ chapters'[k].text = chapters[k].text
                   /\ chapters'[k].basis = chapters[k].basis
                   /\ chapters'[k].stale = place
  BY ProsePlaces
<1>3. chapters'[place].stale = 0 /\ chapters'[place].title = r.title
  BY <1>2, ChapterIsNew
<1>4. /\ Len(chapters') <= MaxChapters /\ Len(chapters) <= Len(chapters')
      /\ \A k \in 1..Len(chapters') : k = place \/ k \in 1..Len(chapters)
  BY <1>1, <1>2
<1>5. ASSUME NEW k \in 1..Len(chapters')
      PROVE  chapters'[k].stale \in 0..k - 1
  <2>1. CASE k = place
    BY <1>1, <1>2, <1>3, <2>1
  <2>2. CASE k \in 1..Len(chapters) /\ k < place
    BY <1>1, <1>2, <2>2
  <2>3. CASE k \in 1..Len(chapters) /\ k > place
    BY <1>1, <1>2, <2>3
  <2> QED
    BY <1>1, <1>2, <1>4, <2>1, <2>2, <2>3
<1>6. \A k \in 1..Len(chapters') : k # place => chapters'[k].title = chapters[k].title
  BY <1>1, <1>2, <1>4
<1>7. \A k \in 1..Len(chapters) :
         k # place /\ chapters[k].title = r.title => r.title = Untitled
  <2>1. \/ r.title = Untitled \/ \A k \in DOMAIN chapters : chapters[k].title # r.title
        \/ place \in DOMAIN chapters /\ chapters[place].title = r.title
    BY <1>2, PlaceOfTitle DEF TextInv
  <2> QED
    BY <1>1, <2>1
<1>8. ASSUME NEW k \in 1..Len(chapters'), NEW l \in 1..Len(chapters'),
             chapters'[k].title = chapters'[l].title, k # l
      PROVE  chapters'[k].title = Untitled
  BY <1>1, <1>3, <1>4, <1>6, <1>7, <1>8
<1> QED
  BY <1>2, <1>4, <1>5, <1>8

LEMMA ApplyMutateKeeps ==
    ASSUME TextAssumption, TextInv, NEW j \in Jobs, ApplyMutate(j)
    PROVE  TextInv'
<1>1. /\ reading[j] # NotReading /\ request[j] \in Wanted /\ UNCHANGED <<request, review>>
      /\ scenes \in Seq(Scene) /\ Len(scenes) <= MaxScenes /\ unassigned = {}
  BY DEF TextInv, WellFormed, TypeOK, LinesNeverParked, ApplyMutate
<1>2. PICK r \in Wanted : r = request[j]
  BY <1>1
<1>3. CASE UNCHANGED doc /\ Answer(j, "refused")
  BY <1>1, <1>3, RefusalKeeps
<1>4. CASE /\ exists /\ ~Refused(j, r) /\ Record(j) /\ Answer(j, "applied") /\ UNCHANGED exists
           /\ \/ r.task = "scene_list" /\ MergeSceneList(r)
              \/ r.task = "prose" /\ MergeProse(j, r)
              \/ r.task = "script" /\ MergeScript(j, r)
              \/ r.task = "other" /\ MergeOther
  <2>1. CASE r.task = "scene_list" /\ MergeSceneList(r)
    <3>1. UNCHANGED <<chapters, unassigned>>
      BY <2>1 DEF MergeSceneList
    <3> QED
      BY <1>1, <1>4, <2>1, <3>1, SceneListMerges, ChaptersStay, AppliedMoves
  <2>2. CASE r.task = "prose" /\ MergeProse(j, r)
    <3>1. UNCHANGED <<scenes, unassigned>>
      BY <2>2 DEF MergeProse
    <3> QED
      BY <1>1, <1>4, <2>2, <3>1, ProseMerges, AppliedMoves
  <2>3. CASE r.task = "script" /\ MergeScript(j, r)
    BY <1>1, <1>4, <2>3, ScriptMerges, ChaptersStay, AppliedMoves
  <2>4. CASE r.task = "other" /\ MergeOther
    <3>1. UNCHANGED <<scenes, chapters, unassigned>>
      BY <2>4 DEF MergeOther
    <3> QED
      BY <1>1, <1>4, <3>1, ChaptersStay, AppliedMoves
  <2> QED
    BY <1>4, <2>1, <2>2, <2>3, <2>4
<1> QED
  BY <1>2, <1>3, <1>4 DEF ApplyMutate

LEMMA ReviewKeeps ==
    ASSUME TextInv, Review
    PROVE  TextInv'
<1>1. PICK k \in DOMAIN chapters : review' = [chapter |-> k, seen |-> Texts(k - 1)]
  BY DEF Review
<1>2. k \in Nat /\ k - 1 \in Nat /\ k - 1 <= Len(chapters)
  BY <1>1, DocumentIsFinite DEF TextInv
<1>3. Texts(k - 1) \in Seq(Jobs)
  BY <1>2, TextsAreProse DEF TextInv
<1>4. review' \in [chapter : Nat, seen : Seq(Jobs)] /\ review'.chapter \in DOMAIN chapters
  BY <1>1, <1>2, <1>3
<1> QED
  BY <1>4, DocumentStays DEF Review, TextInv, WellFormed

\* The chapter an editor acknowledges, and what stays of it.
LEMMA ChapterIsAcknowledged ==
    ASSUME TextInv, AcknowledgeStale, exists, chapters[review.chapter].stale # 0
    PROVE  /\ review.chapter \in 1..Len(chapters)
           /\ chapters' \in Seq(Chapter) /\ Len(chapters') = Len(chapters)
           /\ \A k \in 1..Len(chapters) : k # review.chapter => chapters'[k] = chapters[k]
           /\ chapters'[review.chapter].stale = 0
           /\ chapters'[review.chapter].basis = review.seen
           /\ chapters'[review.chapter].late = Differs(review.seen)
           /\ \A k \in 1..Len(chapters) : /\ chapters'[k].title = chapters[k].title
                                          /\ chapters'[k].text = chapters[k].text
<1>1. /\ Len(chapters) \in Nat /\ DOMAIN chapters = 1..Len(chapters)
      /\ \A k \in 1..Len(chapters) : chapters[k] \in Chapter /\ chapters \in Seq(Chapter)
      /\ review.seen \in Seq(Jobs)
  BY DocumentIsFinite DEF TextInv, WellFormed
<1>2. PICK n \in 1..Len(chapters) : n = review.chapter
  BY <1>1 DEF AcknowledgeStale, TextInv, WellFormed
<1>3. chapters[n] \in Chapter
  BY <1>1
<1>4. PICK d \in BOOLEAN : d = Differs(review.seen)
  BY DEF Differs
<1> DEFINE c == [title |-> chapters[n].title, text |-> chapters[n].text, stale |-> 0,
                 basis |-> review.seen, late |-> d]
<1>5. c \in Chapter
  BY <1>1, <1>3 DEF Chapter
<1>6. [[[chapters[n] EXCEPT !.stale = 0] EXCEPT !.basis = review.seen] EXCEPT !.late = d] = c
  <2>1. PICK x \in Chapter : x = chapters[n]
    BY <1>3
  <2>2. PICK y \in Chapter : y = [x EXCEPT !.stale = 0]
    <3>1. [x EXCEPT !.stale = 0] \in Chapter
      BY DEF Chapter
    <3> QED
      BY <3>1
  <2>3. y.title = x.title /\ y.text = x.text /\ y.stale = 0
    BY <2>2 DEF Chapter
  <2>4. PICK q \in Seq(Jobs) : q = review.seen
    BY <1>1
  <2>5. PICK z \in Chapter : z = [y EXCEPT !.basis = q]
    <3>1. [y EXCEPT !.basis = q] \in Chapter
      BY DEF Chapter
    <3> QED
      BY <3>1
  <2>6. z.title = y.title /\ z.text = y.text /\ z.stale = y.stale /\ z.basis = q
    BY <2>5 DEF Chapter
  <2>7. PICK w \in Chapter : w = [z EXCEPT !.late = d]
    <3>1. [z EXCEPT !.late = d] \in Chapter
      BY DEF Chapter
    <3> QED
      BY <3>1
  <2>8. w.title = z.title /\ w.text = z.text /\ w.stale = z.stale /\ w.basis = z.basis /\ w.late = d
    BY <2>7 DEF Chapter
  <2>9. w = [title |-> w.title, text |-> w.text, stale |-> w.stale, basis |-> w.basis,
             late |-> w.late]
    BY DEF Chapter
  <2> QED
    BY <2>1, <2>2, <2>3, <2>4, <2>5, <2>6, <2>7, <2>8, <2>9
<1>7. chapters' = [chapters EXCEPT ![n].stale = 0, ![n].basis = review.seen, ![n].late = d]
  BY <1>2, <1>4 DEF AcknowledgeStale
<1>8. chapters' = [chapters EXCEPT ![n] =
                     [[[chapters[n] EXCEPT !.stale = 0] EXCEPT !.basis = review.seen]
                                                        EXCEPT !.late = d]]
  BY <1>1, <1>7
<1>9. chapters' = [chapters EXCEPT ![n] = c]
  BY <1>6, <1>8
<1>10. /\ c.title = chapters[n].title /\ c.text = chapters[n].text /\ c.stale = 0
       /\ c.basis = review.seen /\ c.late = d
  OBVIOUS
<1> HIDE DEF c
<1>11. /\ chapters' \in Seq(Chapter) /\ Len(chapters') = Len(chapters)
       /\ \A k \in 1..Len(chapters) : chapters'[k] = IF k = n THEN c ELSE chapters[k]
  BY <1>1, <1>5, <1>9, ExceptSeq
<1> QED
  BY <1>2, <1>4, <1>10, <1>11

LEMMA AcknowledgeStaleKeeps ==
    ASSUME TextInv, AcknowledgeStale
    PROVE  TextInv'
<1>1. /\ UNCHANGED <<exists, scenes, unassigned, sources, state, request, reading>>
      /\ review' = NoReview
      /\ ~exists \/ chapters[review.chapter].stale = 0 => UNCHANGED chapters
  BY DEF AcknowledgeStale
<1>2. NoReview \in [chapter : Nat, seen : Seq(Jobs)]
  <2>1. <<>> \in Seq(Jobs)
    BY EmptySeq
  <2> QED
    BY <2>1 DEF NoReview
<1>3. CASE ~exists \/ chapters[review.chapter].stale = 0
  BY <1>1, <1>2, <1>3, DocumentStays DEF TextInv, WellFormed, doc
<1>4. CASE exists /\ chapters[review.chapter].stale # 0
  <2>1. /\ chapters' \in Seq(Chapter) /\ Len(chapters') = Len(chapters) /\ Len(chapters) \in Nat
        /\ DOMAIN chapters = 1..Len(chapters)
        /\ \A k \in 1..Len(chapters) : k # review.chapter => chapters'[k] = chapters[k]
        /\ chapters'[review.chapter].stale = 0
        /\ \A k \in 1..Len(chapters) : chapters'[k].title = chapters[k].title
    BY <1>4, ChapterIsAcknowledged, DocumentIsFinite DEF TextInv
  <2>2. DOMAIN chapters' = DOMAIN chapters
    BY <2>1, LenProperties
  <2>3. \A k \in DOMAIN chapters' : chapters'[k].stale \in 0..k - 1
    <3>1. \A k \in 1..Len(chapters) : chapters[k].stale \in 0..k - 1
      BY <2>1 DEF TextInv, TypeOK
    <3> QED
      BY <2>1, <2>2, <3>1
  <2>4. \A k, l \in DOMAIN chapters' :
           chapters'[k].title = chapters'[l].title /\ k # l => chapters'[k].title = Untitled
    BY <2>1, <2>2 DEF TextInv, TypeOK
  <2>5. TypeOK' /\ LinesNeverParked'
    BY <1>1, <2>1, <2>3, <2>4 DEF TextInv, TypeOK, LinesNeverParked
  <2>6. WellFormed'
    BY <1>1, <1>2, <2>1 DEF TextInv, WellFormed, Scene, Chapter, Wanted
  <2> QED
    BY <2>5, <2>6 DEF TextInv
<1> QED
  BY <1>3, <1>4

\* The scene that gets its media had none.
LEMMA MediaIsBound ==
    ASSUME TextInv, BindMedia
    PROVE  /\ scenes' \in Seq(Scene) /\ Len(scenes') <= MaxScenes
           /\ \A k \in DOMAIN scenes : scenes[k].media # 0 => scenes'[k].media = scenes[k].media
<1>1. PICK n \in DOMAIN scenes : scenes[n].media = 0 /\ scenes' = [scenes EXCEPT ![n].media = 1]
  BY DEF BindMedia
<1>2. n \in 1..Len(scenes) /\ scenes[n] \in Scene
  BY <1>1, DocumentIsFinite DEF TextInv
<1>3. PICK s \in Scene : s = [scenes[n] EXCEPT !.media = 1]
  <2>1. [scenes[n] EXCEPT !.media = 1] \in Scene
    BY <1>2 DEF Scene
  <2> QED
    BY <2>1
<1>4. scenes' = [scenes EXCEPT ![n] = s]
  BY <1>1, <1>3
<1> QED
  BY <1>1, <1>2, <1>4, SceneIsEdited

LEMMA BindMediaKeeps ==
    ASSUME TextInv, BindMedia
    PROVE  TextInv'
<1>1. UNCHANGED <<exists, chapters, unassigned, sources, state, request, reading, review>>
  BY DEF BindMedia
<1>2. scenes' \in Seq(Scene) /\ Len(scenes') <= MaxScenes
  BY MediaIsBound
<1>3. TypeOK' /\ LinesNeverParked'
  BY <1>1, <1>2 DEF TextInv, TypeOK, LinesNeverParked
<1>4. WellFormed'
  BY <1>1, <1>2 DEF TextInv, WellFormed, Scene, Chapter, Wanted
<1> QED
  BY <1>3, <1>4 DEF TextInv

LEMMA DeleteStoryKeeps ==
    ASSUME TextAssumption, TextInv, DeleteStory
    PROVE  TextInv'
<1>1. /\ exists' = FALSE /\ scenes' = <<>> /\ chapters' = <<>> /\ unassigned' = {}
      /\ sources' = <<>> /\ UNCHANGED <<state, request, reading, review>>
  BY DEF DeleteStory
<1>2. /\ chapters' \in Seq(Chapter) /\ scenes' \in Seq(Scene) /\ sources' \in Seq(Jobs)
      /\ Len(chapters') = 0 /\ Len(scenes') = 0 /\ DOMAIN chapters' = {} /\ DOMAIN sources' = {}
  BY <1>1, EmptySeq
<1>3. TypeOK' /\ LinesNeverParked'
  BY <1>1, <1>2 DEF TypeOK, LinesNeverParked, TextAssumption, IsInjective, ToSet
<1>4. WellFormed'
  BY <1>1, <1>2 DEF TextInv, WellFormed, Scene, Chapter, Wanted
<1> QED
  BY <1>3, <1>4 DEF TextInv

LEMMA TextKept ==
    ASSUME TextAssumption, TextInv, [Next]_vars
    PROVE  TextInv'
<1>1. CASE UNCHANGED vars
  BY <1>1, DocumentStays DEF vars, doc, TextInv, WellFormed
<1>2. CASE \E j \in Jobs : Expand(j) \/ ApplyRead(j) \/ ApplyMutate(j) \/ GiveUp(j)
  BY <1>2, ExpandKeeps, ApplyReadKeeps, ApplyMutateKeeps, GiveUpKeeps
<1>3. CASE Review \/ AcknowledgeStale \/ BindMedia \/ DeleteStory
  BY <1>3, ReviewKeeps, AcknowledgeStaleKeeps, BindMediaKeeps, DeleteStoryKeeps
<1> QED
  BY <1>1, <1>2, <1>3 DEF Next, Rest

-----------------------------------------------------------------------------
(* No chapter is outdated without a warning, unless what cleared it came   *)
(* late.                                                                   *)

\* The basis of a chapter is a sequence of texts, none of a later chapter.
LEMMA BasisIsFinite ==
    ASSUME WellFormed, BasisIsEarlier, NEW k \in 1..Len(chapters)
    PROVE  /\ DOMAIN chapters[k].basis \subseteq 1..Len(chapters)
           /\ \A l \in DOMAIN chapters[k].basis : l < k
<1>1. chapters[k].basis \in Seq(Jobs) /\ Len(chapters) \in Nat /\ DOMAIN chapters = 1..Len(chapters)
  BY DocumentIsFinite DEF Chapter
<1>2. DOMAIN chapters[k].basis = 1..Len(chapters[k].basis) /\ Len(chapters[k].basis) \in Nat
  BY <1>1, LenProperties
<1>3. Len(chapters[k].basis) <= k - 1
  BY <1>1 DEF BasisIsEarlier
<1> QED
  BY <1>1, <1>2, <1>3

\* Chapters that stay are as warned of as they were.
LEMMA WarningsStay ==
    ASSUME BasisIsEarlier, NoSilentStaleness, UNCHANGED chapters
    PROVE  BasisIsEarlier' /\ NoSilentStaleness'
BY DEF BasisIsEarlier, NoSilentStaleness, Outdated, Differs

LEMMA EditorInit == ASSUME Init PROVE EditorInv
<1>1. DOMAIN chapters = {} /\ review = NoReview
  BY DEF Init
<1> QED
  BY <1>1 DEF EditorInv, ReviewIsEarlier, BasisIsEarlier, NoSilentStaleness

\* The chapter that is written is late or was written against the ones before
\* it, and the ones after it are flagged.
LEMMA ProseWarns ==
    ASSUME TextAssumption, TextInv, EditorInv, NEW j \in Jobs, NEW r \in Wanted, r.task = "prose",
           MergeProse(j, r)
    PROVE  BasisIsEarlier' /\ NoSilentStaleness'
<1>1. /\ Len(chapters) \in Nat /\ DOMAIN chapters = 1..Len(chapters)
      /\ WellFormed /\ BasisIsEarlier /\ NoSilentStaleness
  BY DocumentIsFinite DEF TextInv, EditorInv
<1>2. PICK place \in 1..(Len(chapters) + 1) :
             /\ place = Place(r.title) /\ place <= MaxChapters
             /\ chapters' \in Seq(Chapter) /\ Len(chapters') \in Nat
             /\ Len(chapters') = IF place > Len(chapters) THEN place ELSE Len(chapters)
             /\ chapters'[place] = NewChapter(j, r, place)
             /\ \A k \in 1..Len(chapters) : k < place => chapters'[k] = chapters[k]
             /\ \A k \in 1..Len(chapters) : k > place =>
                   /\ chapters'[k].title = chapters[k].title
                   /\ chapters'[k].text = chapters[k].text
                   /\ chapters'[k].basis = chapters[k].basis
                   /\ chapters'[k].stale = place
  BY ProsePlaces
<1>3. /\ DOMAIN chapters' = 1..Len(chapters')
      /\ \A k \in 1..Len(chapters') : k = place \/ k \in 1..Len(chapters)
  BY <1>1, <1>2, LenProperties
<1>4. PICK b \in Seq(Jobs) : /\ b = chapters'[place].basis /\ Len(b) <= place - 1
                             /\ chapters'[place].late = Differs(b)
  <2>1. PICK b \in Seq(Jobs) : b = NewChapter(j, r, place).basis
    BY ChapterIsNew DEF Chapter
  <2>2. Len(b) <= place - 1 /\ NewChapter(j, r, place).late = Differs(b)
    BY <2>1, ChapterIsNew
  <2> QED
    BY <1>2, <2>1, <2>2
<1>5. \A l \in DOMAIN b : l \in 1..Len(chapters) /\ l < place
  <2>1. Len(b) \in Nat /\ DOMAIN b = 1..Len(b)
    BY LenProperties
  <2> QED
    BY <1>1, <1>2, <1>4, <2>1
<1>6. ASSUME NEW k \in 1..Len(chapters')
      PROVE  /\ Len(chapters'[k].basis) <= k - 1
             /\ (\E l \in DOMAIN chapters'[k].basis : chapters'[k].basis[l] # chapters'[l].text)
                   => chapters'[k].stale # 0 \/ chapters'[k].late
  <2>1. CASE k = place
    <3>1. \A l \in DOMAIN b : chapters'[l] = chapters[l]
      BY <1>2, <1>5
    <3>2. (\E l \in DOMAIN b : b[l] # chapters'[l].text) => chapters'[place].late
      BY <1>4, <3>1 DEF Differs
    <3> QED
      BY <1>4, <2>1, <3>2
  <2>2. CASE k \in 1..Len(chapters) /\ k < place
    <3>1. chapters'[k] = chapters[k] /\ Len(chapters[k].basis) <= k - 1
      BY <1>1, <1>2, <2>2 DEF BasisIsEarlier
    <3>2. \A l \in DOMAIN chapters[k].basis : l \in 1..Len(chapters) /\ l < place
      BY <1>1, <1>2, <2>2, BasisIsFinite
    <3>3. \A l \in DOMAIN chapters[k].basis : chapters'[l].text = chapters[l].text
      BY <1>2, <3>2
    <3>4. Outdated(k) => chapters[k].stale # 0 \/ chapters[k].late
      BY <1>1, <2>2 DEF NoSilentStaleness
    <3> QED
      BY <3>1, <3>3, <3>4 DEF Outdated, Differs
  <2>3. CASE k \in 1..Len(chapters) /\ k > place
    <3>1. chapters'[k].basis = chapters[k].basis /\ chapters'[k].stale = place /\ place # 0
      BY <1>1, <1>2, <2>3
    <3>2. Len(chapters[k].basis) <= k - 1
      BY <1>1, <2>3 DEF BasisIsEarlier
    <3> QED
      BY <3>1, <3>2
  <2> QED
    BY <1>1, <1>2, <1>3, <2>1, <2>2, <2>3
<1> QED
  BY <1>3, <1>6 DEF BasisIsEarlier, NoSilentStaleness, Outdated, Differs

LEMMA ApplyMutateWarns ==
    ASSUME TextAssumption, TextInv, EditorInv, NEW j \in Jobs, ApplyMutate(j)
    PROVE  EditorInv'
<1>1. /\ request[j] \in Wanted /\ UNCHANGED review
      /\ ReviewIsEarlier /\ BasisIsEarlier /\ NoSilentStaleness
  BY DEF TextInv, WellFormed, ApplyMutate, EditorInv
<1>2. UNCHANGED exists
  BY DEF ApplyMutate, doc
<1>3. ReviewIsEarlier'
  BY <1>1, <1>2 DEF ReviewIsEarlier
<1>4. CASE UNCHANGED chapters
  BY <1>1, <1>3, <1>4, WarningsStay DEF EditorInv
<1>5. CASE exists /\ request[j].task = "prose" /\ MergeProse(j, request[j])
  BY <1>1, <1>3, <1>5, ProseWarns DEF EditorInv
<1> QED
  BY <1>4, <1>5 DEF ApplyMutate, MergeSceneList, MergeScript, MergeOther, doc

LEMMA ReviewWarns ==
    ASSUME TextInv, EditorInv, Review
    PROVE  EditorInv'
<1>1. PICK k \in DOMAIN chapters : review' = [chapter |-> k, seen |-> Texts(k - 1)]
  BY DEF Review
<1>2. k \in Nat /\ k - 1 \in Nat /\ k - 1 <= Len(chapters)
  BY <1>1, DocumentIsFinite DEF TextInv
<1>3. Len(review'.seen) <= review'.chapter - 1
  BY <1>1, <1>2, TextsAreProse DEF TextInv
<1> QED
  BY <1>3, WarningsStay DEF EditorInv, ReviewIsEarlier, Review, doc

LEMMA AcknowledgeStaleWarns ==
    ASSUME TextInv, EditorInv, AcknowledgeStale
    PROVE  EditorInv'
<1>1. /\ UNCHANGED exists /\ review' = NoReview /\ review # NoReview
      /\ ~exists \/ chapters[review.chapter].stale = 0 => UNCHANGED chapters
      /\ WellFormed /\ ReviewIsEarlier /\ BasisIsEarlier /\ NoSilentStaleness
  BY DEF AcknowledgeStale, TextInv, EditorInv
<1>2. ReviewIsEarlier'
  BY <1>1 DEF ReviewIsEarlier
<1>3. CASE ~exists \/ chapters[review.chapter].stale = 0
  BY <1>1, <1>2, <1>3, WarningsStay DEF EditorInv
<1>4. CASE exists /\ chapters[review.chapter].stale # 0
  <2>1. /\ review.chapter \in 1..Len(chapters)
        /\ chapters' \in Seq(Chapter) /\ Len(chapters') = Len(chapters) /\ Len(chapters) \in Nat
        /\ DOMAIN chapters = 1..Len(chapters)
        /\ \A k \in 1..Len(chapters) : k # review.chapter => chapters'[k] = chapters[k]
        /\ chapters'[review.chapter].basis = review.seen
        /\ chapters'[review.chapter].late = Differs(review.seen)
        /\ \A k \in 1..Len(chapters) : chapters'[k].text = chapters[k].text
    BY <1>1, <1>4, ChapterIsAcknowledged, DocumentIsFinite
  <2>2. DOMAIN chapters' = 1..Len(chapters)
    BY <2>1, LenProperties
  <2>3. \A l \in DOMAIN review.seen : l \in 1..Len(chapters)
    <3>1. review.seen \in Seq(Jobs) /\ Len(review.seen) <= review.chapter - 1
      BY <1>1, <1>4 DEF WellFormed, ReviewIsEarlier
    <3>2. Len(review.seen) \in Nat /\ DOMAIN review.seen = 1..Len(review.seen)
      BY <3>1, LenProperties
    <3> QED
      BY <2>1, <3>1, <3>2
  <2>4. ASSUME NEW k \in 1..Len(chapters)
        PROVE  /\ Len(chapters'[k].basis) <= k - 1
               /\ (\E l \in DOMAIN chapters'[k].basis : chapters'[k].basis[l] # chapters'[l].text)
                     => chapters'[k].stale # 0 \/ chapters'[k].late
    <3>1. CASE k = review.chapter
      <4>1. (\E l \in DOMAIN review.seen : review.seen[l] # chapters'[l].text)
               => Differs(review.seen)
        BY <2>1, <2>3 DEF Differs
      <4>2. Len(review.seen) <= k - 1
        BY <1>1, <1>4, <3>1 DEF ReviewIsEarlier
      <4> QED
        BY <2>1, <3>1, <4>1, <4>2
    <3>2. CASE k # review.chapter
      <4>1. chapters'[k] = chapters[k] /\ Len(chapters[k].basis) <= k - 1
        BY <1>1, <2>1, <3>2 DEF BasisIsEarlier
      <4>2. \A l \in DOMAIN chapters[k].basis : chapters'[l].text = chapters[l].text
        BY <1>1, <2>1, BasisIsFinite
      <4>3. Outdated(k) => chapters[k].stale # 0 \/ chapters[k].late
        BY <1>1, <2>1 DEF NoSilentStaleness
      <4> QED
        BY <4>1, <4>2, <4>3 DEF Outdated, Differs
    <3> QED
      BY <3>1, <3>2
  <2>5. BasisIsEarlier' /\ NoSilentStaleness'
    BY <2>2, <2>4 DEF BasisIsEarlier, NoSilentStaleness, Outdated, Differs
  <2> QED
    BY <1>2, <2>5 DEF EditorInv
<1> QED
  BY <1>3, <1>4

\* No other step touches a chapter or a review, but a deletion removes them all.
LEMMA RestWarns ==
    ASSUME EditorInv,
           \/ \E j \in Jobs : Expand(j) \/ ApplyRead(j) \/ GiveUp(j)
           \/ BindMedia \/ DeleteStory \/ UNCHANGED vars
    PROVE  EditorInv'
<1>1. CASE UNCHANGED <<exists, chapters, review>>
  <2>1. ReviewIsEarlier'
    BY <1>1 DEF EditorInv, ReviewIsEarlier
  <2> QED
    BY <1>1, <2>1, WarningsStay DEF EditorInv
<1>2. CASE DeleteStory
  <2>1. exists' = FALSE /\ DOMAIN chapters' = {}
    BY <1>2 DEF DeleteStory
  <2> QED
    BY <2>1 DEF EditorInv, ReviewIsEarlier, BasisIsEarlier, NoSilentStaleness
<1> QED
  BY <1>1, <1>2 DEF Expand, ApplyRead, GiveUp, BindMedia, vars, doc

LEMMA EditorKept ==
    ASSUME TextAssumption, TextInv, EditorInv, [Next]_vars
    PROVE  EditorInv'
<1>1. CASE \E j \in Jobs : ApplyMutate(j)
  BY <1>1, ApplyMutateWarns
<1>2. CASE Review \/ AcknowledgeStale
  BY <1>2, ReviewWarns, AcknowledgeStaleWarns
<1>3. CASE \/ \E j \in Jobs : Expand(j) \/ ApplyRead(j) \/ GiveUp(j)
           \/ BindMedia \/ DeleteStory \/ UNCHANGED vars
  BY <1>3, RestWarns
<1> QED
  BY <1>1, <1>2, <1>3 DEF Next, Rest

-----------------------------------------------------------------------------
(* The theorems.                                                           *)

\* A step keeps the media of the scenes that keep their place.
LEMMA StepKeepsMedia ==
    ASSUME TextInv, [Next]_vars
    PROVE  MediaSurvives
<1>1. CASE UNCHANGED <<exists, scenes>>
  BY <1>1 DEF MediaSurvives
<1>2. ASSUME NEW j \in Jobs, ApplyMutate(j)
      PROVE  MediaSurvives
  <2>1. reading[j] # NotReading /\ request[j] \in Wanted
    BY <1>2 DEF ApplyMutate, TextInv, WellFormed
  <2>2. CASE UNCHANGED <<exists, scenes>>
    BY <2>2 DEF MediaSurvives
  <2>3. CASE UNCHANGED exists /\ request[j].task = "scene_list" /\ MergeSceneList(request[j])
    BY <2>1, <2>3, SceneListMerges DEF MediaSurvives
  <2>4. CASE /\ UNCHANGED exists /\ request[j].task = "script" /\ ~Refused(j, request[j])
             /\ MergeScript(j, request[j])
    BY <2>1, <2>4, ScriptMerges DEF MediaSurvives
  <2> QED
    BY <1>2, <2>2, <2>3, <2>4 DEF ApplyMutate, MergeProse, MergeOther, doc
<1>3. CASE BindMedia
  <2>1. UNCHANGED exists
    BY <1>3 DEF BindMedia
  <2> QED
    BY <1>3, <2>1, MediaIsBound DEF MediaSurvives
<1>4. CASE DeleteStory
  BY <1>4 DEF DeleteStory, MediaSurvives
<1>5. CASE \/ \E j \in Jobs : Expand(j) \/ ApplyRead(j) \/ GiveUp(j)
           \/ Review \/ AcknowledgeStale \/ UNCHANGED vars
  BY <1>1, <1>5 DEF Expand, ApplyRead, GiveUp, Review, AcknowledgeStale, vars, doc
<1> QED
  BY <1>2, <1>3, <1>4, <1>5 DEF Next, Rest

\* The document stays well formed: titles are unique, a warning names an earlier
\* chapter, a job is recorded once, and no dialogue is parked where no route reads
\* it (stories.py:648-669, merge.py:54-57, 160-268), for any number of writers.
THEOREM TextsAreWellFormed ==
    ASSUME TextAssumption
    PROVE  Spec => [](TypeOK /\ LinesNeverParked)
<1>1. Init => TextInv
  BY TextInit
<1>2. TextInv /\ [Next]_vars => TextInv'
  BY TextKept
<1>3. TextInv => TypeOK /\ LinesNeverParked
  BY DEF TextInv
<1> QED
  BY <1>1, <1>2, <1>3, PTL DEF Spec

\* Rewriting text keeps the media of every scene that keeps its place
\* (merge.py:116-119), and a deleted story does not come back.
THEOREM RewritingKeepsMedia ==
    ASSUME TextAssumption
    PROVE  Spec => [][MediaSurvives]_vars
<1>1. Init => TextInv
  BY TextInit
<1>2. TextInv /\ [Next]_vars => TextInv'
  BY TextKept
<1>3. TextInv /\ [Next]_vars => [MediaSurvives]_vars
  BY StepKeepsMedia
<1> QED
  BY <1>1, <1>2, <1>3, PTL DEF Spec

\* A chapter that continues from prose which is gone is flagged, unless its own
\* text, or the acknowledgement that cleared its flag, had been asked for before
\* that prose was replaced and was applied after it (merge.py:172-203,
\* schemas.py:137-143): for overlapping routes, results in any order and jobs
\* that are applied again.
THEOREM EditorsAreWarned ==
    ASSUME TextAssumption
    PROVE  Spec => []NoSilentStaleness
<1>1. Init => TextInv /\ EditorInv
  BY TextInit, EditorInit
<1>2. TextInv /\ EditorInv /\ [Next]_vars => TextInv' /\ EditorInv'
  BY TextKept, EditorKept
<1>3. EditorInv => NoSilentStaleness
  BY DEF EditorInv
<1> QED
  BY <1>1, <1>2, <1>3, PTL DEF Spec

================================================================================
