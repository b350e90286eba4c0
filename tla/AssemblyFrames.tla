---------------------------- MODULE AssemblyFrames ----------------------------
(***************************************************************************)
(* The frames of a delivered video (generators/video/assembly.py): the     *)
(* clips one after another, each crossfade blending the tail of a clip     *)
(* with the head of the next (_iter_frames), and the sequential decoder    *)
(* with its small cache that reads moving sources (_MovingSourceFrames).   *)
(*                                                                         *)
(* A frame is known by its clip, its place in the clip and the source      *)
(* frame it was made from.  Frames are numbered from 0, as in the code.    *)
(***************************************************************************)
EXTENDS Integers, Sequences, SequencesExt

CONSTANTS
    Sources,        \* names of visual files
    Stills,         \* those that are images
    MaxClips,       \* bound: clips of a timeline
    MaxCount,       \* bound: frames of a clip
    MaxReal,        \* bound: frames of a moving source
    MaxFade,        \* half a second in frames
    MaxDecoded      \* _MAX_DECODED_SOURCE_FRAMES

VARIABLES
    clips,      \* [source, count, fades]
    real,       \* how many frames a moving source really has
    reported,   \* how many its metadata says
    phase, c,   \* what is going on, in which clip
    head,       \* frames rendered while the previous clip faded out
    position,   \* frames of the clip rendered or taken from head
    tail, nextHead,
    out,        \* the frames delivered
    decoder,    \* the selected source and, if it moves, its decoder
    restarts,   \* how often a source was opened
    last        \* last_source_index of the clip's frames being rendered

input == <<clips, real, reported>>
vars == <<input, phase, c, head, position, tail, nextHead, out, decoder, restarts, last>>

Clip == [source : Sources, count : 1..MaxCount, fades : BOOLEAN]
NoFrame == <<"none", -1>>
NoDecoder == [path |-> "none", opened |-> FALSE, next |-> 0, last |-> NoFrame,
              cache |-> <<>>, count |-> 0]

Init ==
    /\ clips \in UNION {[1..n -> Clip] : n \in 1..MaxClips}
    /\ real \in [Sources -> 0..MaxReal]
    /\ reported \in [Sources -> 1..MaxReal + 1]
    /\ \A s \in Sources : reported[s] - real[s] \in {0, 1} \/ reported[s] = 1
    /\ \A s \in Stills : real[s] = 1 /\ reported[s] = 1
    /\ phase = "clip" /\ c = 1 /\ position = 0
    /\ head = <<>> /\ tail = <<>> /\ nextHead = <<>> /\ out = <<>>
    /\ decoder = NoDecoder /\ restarts = 0 /\ last = 0

Least(a, b) == IF a < b THEN a ELSE b

-----------------------------------------------------------------------------
\* _fade_frames.
FadeFrames(i) ==
    IF i >= Len(clips) \/ ~clips[i].fades THEN 0
    ELSE Least(MaxFade, Least(clips[i].count, clips[i + 1].count))

\* round(progress * last_source_index), halves to the even number.
SourceIndex(clip, index, final) ==
    IF clip.count = 1 THEN 0
    ELSE LET n == index * final  d == clip.count - 1  q == n \div d  r == n % d
         IN IF 2 * r > d \/ (2 * r = d /\ q % 2 = 1) THEN q + 1 ELSE q

\* Mutant: the decoded frames of another source stay in the cache.
SelectKeeps(d, path) ==
    IF d.path = path THEN d
    ELSE [NoDecoder EXCEPT !.path = path, !.count = reported[path], !.cache = d.cache]

\* _select: another path closes what was open.
Select(d, path) ==
    IF d.path = path THEN d
    ELSE [NoDecoder EXCEPT !.path = path, !.count = reported[path]]

\* The cache pairs indices with frames, the least recently used one first.
Uncached(cache, i) == SelectSeq(cache, LAMBDA entry : entry[1] # i)
Cached(cache, i) == SelectSeq(cache, LAMBDA entry : entry[1] = i)

\* A frame behind the decoder means opening the source again.
NeedsRestart(d, target) == ~d.opened \/ target < d.next

\* The oldest frames leave the cache.
Keep(cache) == IF Len(cache) > MaxDecoded THEN Tail(cache) ELSE cache

RECURSIVE Decode(_, _)
\* Decode up to the target, or to the end of the source: its last frame is then
\* reused, and its frames are counted anew.
Decode(d, target) ==
    IF d.next > target
    THEN [decoder |-> d,
          frame |-> IF Cached(d.cache, target) = <<>> THEN NoFrame
                    ELSE Cached(d.cache, target)[1][2]]
    ELSE IF d.next >= real[d.path]
    THEN [decoder |-> [d EXCEPT !.count = IF d.next > 1 THEN d.next ELSE 1], frame |-> d.last]
    ELSE LET frame == <<d.path, d.next>>
         IN Decode([d EXCEPT !.next = @ + 1, !.last = frame,
                             !.cache = Keep(Append(Uncached(@, d.next), <<d.next, frame>>))],
                   target)

\* _MovingSourceFrames.get, and _SourceFrames.get for a still; NoFrame stands
\* for the ValueError of a source that yields none.
Get(d, path, index) ==
    LET target == Least(index, d.count - 1)
        cached == Cached(d.cache, target)
        fresh == [d EXCEPT !.opened = TRUE, !.next = 0, !.last = NoFrame]
        restart == NeedsRestart(d, target)
        read == Decode(IF restart THEN fresh ELSE d, target)
    IN IF path \in Stills THEN [decoder |-> d, frame |-> <<path, 0>>, opened |-> 0]
       ELSE IF cached # <<>>
       THEN [decoder |-> [d EXCEPT !.cache = Uncached(@, target) \o cached],
             frame |-> cached[1][2], opened |-> 0]
       ELSE [decoder |-> read.decoder, frame |-> read.frame,
             opened |-> IF restart THEN 1 ELSE 0]

\* One frame of _iter_clip_frames, which asks for the length of the source when
\* it yields its first frame: an earlier clip may have found the true one.
Render(i, index, begins) ==
    LET path == clips[i].source
        d == Select(decoder, path)
        final == IF path \in Stills THEN 0 ELSE IF begins THEN d.count - 1 ELSE last
        got == Get(d, path, SourceIndex(clips[i], index, final))
    IN [decoder |-> got.decoder, opened |-> got.opened, last |-> final,
        frame |-> [clip |-> i, index |-> index, source |-> got.frame]]

-----------------------------------------------------------------------------
Deliver(frame) == out' = Append(out, [shown |-> <<frame>>])

\* A frame of the clip, taken from head or rendered, is delivered or kept for
\* the fade.
ClipFrame ==
    /\ phase = "clip" /\ position < clips[c].count
    /\ LET rendered == IF position < Len(head)
                       THEN [decoder |-> decoder, opened |-> 0, last |-> last,
                             frame |-> head[position + 1]]
                       ELSE Render(c, position, position = Len(head))
       IN /\ decoder' = rendered.decoder
          /\ restarts' = restarts + rendered.opened /\ last' = rendered.last
          /\ IF rendered.frame.source = NoFrame
             THEN phase' = "failed" /\ UNCHANGED <<position, tail, out>>
             ELSE /\ position' = position + 1 /\ UNCHANGED phase
                  /\ IF position < clips[c].count - FadeFrames(c)
                     THEN Deliver(rendered.frame) /\ UNCHANGED tail
                     ELSE tail' = Append(tail, rendered.frame) /\ UNCHANGED out
    /\ UNCHANGED <<input, c, head, nextHead>>

EndOfClip ==
    /\ phase = "clip" /\ position = clips[c].count
    /\ IF FadeFrames(c) > 0
       THEN phase' = "fade" /\ UNCHANGED <<c, head, position, tail>>
       ELSE IF c = Len(clips) THEN phase' = "done" /\ UNCHANGED <<c, head, position, tail>>
       ELSE /\ c' = c + 1 /\ position' = 0 /\ head' = <<>> /\ tail' = <<>>
            /\ UNCHANGED phase
    /\ UNCHANGED <<input, nextHead, out, decoder, restarts, last>>

\* next_head: the first frames of the next clip.
NextHeadFrame ==
    /\ phase = "fade" /\ Len(nextHead) < FadeFrames(c) /\ Len(nextHead) < clips[c + 1].count
    /\ LET rendered == Render(c + 1, Len(nextHead), nextHead = <<>>)
       IN /\ decoder' = rendered.decoder
          /\ restarts' = restarts + rendered.opened /\ last' = rendered.last
          /\ IF rendered.frame.source = NoFrame THEN phase' = "failed" /\ UNCHANGED nextHead
             ELSE nextHead' = Append(nextHead, rendered.frame) /\ UNCHANGED phase
    /\ UNCHANGED <<input, c, head, position, tail, out>>

\* The blended frames, zip of tail and next_head; the next clip still plays in
\* full, its head carried over.
Blend ==
    /\ phase = "fade"
    /\ Len(nextHead) = Least(FadeFrames(c), clips[c + 1].count)
    /\ out' = out \o [k \in 1..Least(Len(tail), Len(nextHead)) |->
                        [shown |-> <<tail[k], nextHead[k]>>]]
    /\ head' = nextHead
    /\ c' = c + 1 /\ position' = 0 /\ phase' = "clip"
    /\ tail' = <<>> /\ nextHead' = <<>>
    /\ UNCHANGED <<input, decoder, restarts, last>>

Done == phase \in {"done", "failed"} /\ UNCHANGED vars

Next == ClipFrame \/ EndOfClip \/ NextHeadFrame \/ Blend \/ Done

Spec == Init /\ [][Next]_vars

-----------------------------------------------------------------------------
RECURSIVE Before(_)
Before(i) == IF i = 1 THEN 0 ELSE Before(i - 1) + clips[i - 1].count

(* The delivery has exactly the frames of its clips: a crossfade shortens or *)
(* lengthens nothing (assembly.py:780-783).                                  *)
DeliveryKeepsLength ==
    /\ Len(out) <= Before(Len(clips)) + clips[Len(clips)].count
    /\ phase = "done" => Len(out) = Before(Len(clips)) + clips[Len(clips)].count

\* Clip k plays from the same decoder as clip i after it.
SameRun(k, i) == \A m \in k..i : clips[m].source = clips[i].source

\* The first frame of clip i that is rendered together with this one: the head
\* of a clip that is faded in is rendered on its own.
PartBegin(i, index) ==
    LET faded == IF i = 1 THEN 0 ELSE FadeFrames(i - 1)
    IN IF index < faded THEN 0 ELSE faded

\* The end of the source was met before this part of the clip: an earlier frame
\* played from the same decoder asked for more than there is.
EndWasMet(i, index) ==
    \E k \in 1..i : SameRun(k, i) /\
        \E m \in 0..clips[k].count - 1 :
            /\ k < i \/ m < PartBegin(i, index)
            /\ SourceIndex(clips[k], m, reported[clips[k].source] - 1) >= real[clips[k].source]

Expected(i, index) ==
    LET path == clips[i].source
        known == IF EndWasMet(i, index) THEN real[path] ELSE reported[path]
    IN [clip |-> i, index |-> index,
        source |-> <<path, Least(SourceIndex(clips[i], index, known - 1), real[path] - 1)>>]

(* Every delivered frame is the one its place in the timeline asks for: the  *)
(* frames of a source are spread over the clip by the length that was known  *)
(* when its part of the clip began, the one of the metadata or, once the     *)
(* decoder met the end, the true one (assembly.py:837-845, 1211-1214); each  *)
(* is the right source frame through cache hits, restarts and metadata that  *)
(* promises a frame too many, and a blended one has its partner from the     *)
(* head of the next clip.                                                    *)
RightFrames ==
    \A i \in DOMAIN clips :
        \A index \in 0..clips[i].count - 1 :
            LET k == Before(i) + index + 1
                fading == index - (clips[i].count - FadeFrames(i))
            IN k <= Len(out) =>
                 out[k].shown = IF fading < 0 THEN <<Expected(i, index)>>
                                ELSE <<Expected(i, index), Expected(i + 1, fading)>>

(* Only a source without any frame stops a delivery: a frame that the clip   *)
(* needs again is cached, still ahead or read anew (assembly.py:1196-1228).  *)
OnlyEmptySourcesFail ==
    phase = "failed" => \E i \in DOMAIN clips : real[clips[i].source] = 0

(* The memory of the decoder is bounded, and reading clips in order opens    *)
(* each clip's source at most once, fades included (assembly.py:106-110,     *)
(* 1174-1179).                                                               *)
DecoderIsFrugal == Len(decoder.cache) <= MaxDecoded /\ restarts <= Len(clips)
===============================================================================
