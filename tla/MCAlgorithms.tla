---------------------------- MODULE MCAlgorithms ----------------------------
(* The pure algorithms for TLC, each run on every input within its bounds:   *)
(* in each behaviour one of them works on one input.                         *)
EXTENDS Integers, Sequences

VARIABLES
    algorithm,
    text, limit,                    \* the input of those that work on a text
    chunks,                         \* SpeechChunks
    result,                         \* JsonExtract
    wrapper, wrapped, lines,        \* SubtitleLines
    clips, real, reported, phase, c, head, position, tail, nextHead, out, decoder, restarts,
    last                            \* AssemblyFrames

frameVars == <<clips, real, reported, phase, c, head, position, tail, nextHead, out, decoder,
               restarts, last>>
vars == <<algorithm, text, limit, chunks, result, wrapper, wrapped, lines, frameVars>>

Speech == INSTANCE SpeechChunks WITH MaxLength <- 5, MaxCharacters <- 3
Json == INSTANCE JsonExtract WITH MaxLength <- 6
Subtitles == INSTANCE SubtitleLines WITH MaxLength <- 5, MaxLimit <- 3
Frames == INSTANCE AssemblyFrames WITH
    Sources <- {"a", "b", "still"}, Stills <- {"still"}, MaxClips <- 2, MaxCount <- 4,
    MaxReal <- 3, MaxFade <- 2, MaxDecoded <- 2

NoFrames == /\ clips = 0 /\ real = 0 /\ reported = 0 /\ phase = 0 /\ c = 0 /\ head = 0
            /\ position = 0 /\ tail = 0 /\ nextHead = 0 /\ out = 0 /\ decoder = 0 /\ restarts = 0
            /\ last = 0
NoLines == wrapper = 0 /\ wrapped = 0 /\ lines = 0

Init ==
    \/ algorithm = "chunks" /\ Speech!Init /\ result = 0 /\ NoLines /\ NoFrames
    \/ algorithm = "json" /\ Json!Init /\ limit = 0 /\ chunks = 0 /\ NoLines /\ NoFrames
    \/ algorithm = "lines" /\ Subtitles!Init /\ chunks = 0 /\ result = 0 /\ NoFrames
    \/ algorithm = "frames" /\ Frames!Init
         /\ text = 0 /\ limit = 0 /\ chunks = 0 /\ result = 0 /\ NoLines

Chunks ==
    /\ algorithm = "chunks" /\ Speech!Next
    /\ UNCHANGED <<algorithm, result, wrapper, wrapped, lines, frameVars>>

Extraction ==
    /\ algorithm = "json" /\ Json!Next
    /\ UNCHANGED <<algorithm, limit, chunks, wrapper, wrapped, lines, frameVars>>

Lines ==
    /\ algorithm = "lines" /\ Subtitles!Next
    /\ UNCHANGED <<algorithm, chunks, result, frameVars>>

Delivery ==
    /\ algorithm = "frames" /\ Frames!Next
    /\ UNCHANGED <<algorithm, text, limit, chunks, result, wrapper, wrapped, lines>>

Next == Chunks \/ Extraction \/ Lines \/ Delivery

Spec == Init /\ [][Next]_vars

-----------------------------------------------------------------------------
(* A text cut into pieces is all there afterwards, once and in order: the    *)
(* chunks of a narration, none longer than the speech model takes, and the   *)
(* lines of a subtitle after characters were moved between them; one pass    *)
(* over their boundaries keeps both rules of Japanese typesetting: no line   *)
(* ends with an opening bracket, and none begins with a prohibited character *)
(* unless a whole line consisted of them (speech.py:525-661,                 *)
(* subtitle_line_breaking.py:140-175).                                       *)
TextIsBrokenRight ==
    /\ algorithm = "chunks" => Speech!NothingIsLost /\ Speech!ChunksFit
    /\ algorithm = "lines" => /\ Subtitles!NothingIsLost
                              /\ Subtitles!NoLineEndsWithOpener /\ Subtitles!OnePassSuffices

(* The object taken out of a model response is the one the JSON grammar      *)
(* finds at the first brace, or between two fences, whatever braces, quotes  *)
(* and escapes stand in its strings, and stands in the response as it is; a  *)
(* response that is a list or a string as a whole is refused, whatever       *)
(* objects it holds (text_runtimes.py:662-716).                              *)
ExtractionFollowsGrammar ==
    algorithm = "json" =>
        Json!ScanAgreesWithGrammar /\ Json!FencedObjectIsFound /\ Json!ResultStandsInText

(* A delivery has exactly the frames of its clips, each made from the source *)
(* frame its place asks for, given the length of the source that was known   *)
(* when its part of the clip began, through crossfades, cache hits and       *)
(* restarts of the decoder; only an empty source stops it, and the decoder's *)
(* memory and restarts are bounded (assembly.py:780-783, 837-845,            *)
(* 1165-1228).                                                               *)
RightFrames ==
    algorithm = "frames" =>
        /\ Frames!RightFrames /\ Frames!DeliveryKeepsLength
        /\ Frames!OnlyEmptySourcesFail /\ Frames!DecoderIsFrugal
=============================================================================
