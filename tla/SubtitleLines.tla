----------------------------- MODULE SubtitleLines -----------------------------
(***************************************************************************)
(* Where the lines of Japanese subtitles break: break_subtitle_lines       *)
(* (generators/video/subtitle_line_breaking.py), by characters, and the    *)
(* pixel wrapping of the assembly (generators/video/assembly.py:1508-1558),*)
(* both followed by apply_kinsoku_rules.                                   *)
(*                                                                         *)
(* A text is a sequence of characters, one per class the code tells apart; *)
(* all are CJK, so spaces are dropped before, and every character is one   *)
(* unit wide.                                                              *)
(***************************************************************************)
EXTENDS Naturals, Sequences, SequencesExt

CONSTANTS
    MaxLength,  \* bound: characters of a text
    MaxLimit    \* bound: characters, or pixels, of a line

Kana == "k"
Small == "s"        \* may not begin a line
Comma == ","        \* may not begin a line, a soft break
Bang == "!"         \* may not begin a line, ends a sentence
Opener == "("       \* may not end a line
Newline == "n"
Alphabet == {Kana, Small, Comma, Bang, Opener, Newline}

LineStartProhibited == {Small, Comma, Bang}
LineEndProhibited == {Opener}
SentenceBreaks == {Bang}
SoftBreaks == {Comma}

VARIABLES text, limit, wrapper, wrapped, lines
vars == <<text, limit, wrapper, wrapped, lines>>

NotYet == <<"not yet">>

Init ==
    /\ text \in UNION {[1..n -> Alphabet] : n \in 0..MaxLength}
    /\ limit \in 1..MaxLimit
    /\ wrapper \in {"characters", "pixels"}
    /\ wrapped = NotYet /\ lines = NotYet

-----------------------------------------------------------------------------
RECURSIVE Segments(_, _)
\* The authored lines that are not empty.
Segments(t, current) ==
    LET kept == IF current = <<>> THEN <<>> ELSE <<current>>
    IN IF t = <<>> THEN kept
       ELSE IF Head(t) = Newline THEN kept \o Segments(Tail(t), <<>>)
       ELSE Segments(Tail(t), Append(current, Head(t)))

RECURSIVE WrapCjk(_, _, _, _)
\* _wrap_cjk, with what has been read of the current line and where its last
\* soft break is.
WrapCjk(t, current, soft, max) ==
    IF t = <<>> THEN (IF current = <<>> THEN <<>> ELSE <<current>>)
    ELSE LET read == Append(current, Head(t))
             broken == IF Head(t) \in SoftBreaks THEN Len(read) ELSE soft
             enough == IF max \div 2 > 1 THEN max \div 2 ELSE 1
         IN IF Head(t) \in SentenceBreaks THEN <<read>> \o WrapCjk(Tail(t), <<>>, 0, max)
            ELSE IF Len(read) < max THEN WrapCjk(Tail(t), read, broken, max)
            ELSE IF broken >= enough
            THEN <<SubSeq(read, 1, broken)>>
                    \o WrapCjk(Tail(t), SubSeq(read, broken + 1, Len(read)), 0, max)
            ELSE <<read>> \o WrapCjk(Tail(t), <<>>, 0, max)

RECURSIVE BreakCharacters(_, _)
\* _break_characters: as many as fit, at least one.
BreakCharacters(t, max) ==
    IF Len(t) <= max THEN (IF t = <<>> THEN <<>> ELSE <<t>>)
    ELSE <<SubSeq(t, 1, max)>> \o BreakCharacters(SubSeq(t, max + 1, Len(t)), max)

WrapSegment(t) ==
    IF wrapper = "characters" THEN WrapCjk(t, <<>>, 0, limit) ELSE BreakCharacters(t, limit)

RECURSIVE WrapAll(_)
WrapAll(segments) ==
    IF segments = <<>> THEN <<>> ELSE WrapSegment(Head(segments)) \o WrapAll(Tail(segments))

-----------------------------------------------------------------------------
\* The number of prohibited characters a line begins, or ends, with.
LeadingRun(line) ==
    CHOOSE n \in 0..Len(line) :
        /\ \A i \in 1..n : line[i] \in LineStartProhibited
        /\ n < Len(line) => line[n + 1] \notin LineStartProhibited

TrailingRun(line) ==
    CHOOSE n \in 0..Len(line) :
        /\ \A i \in 1..n : line[Len(line) + 1 - i] \in LineEndProhibited
        /\ n < Len(line) => line[Len(line) - n] \notin LineEndProhibited

\* The first loop over one boundary, on the two lines around it.
Pull(pair) ==
    LET n == LeadingRun(pair[2])
    IN <<pair[1] \o SubSeq(pair[2], 1, n), SubSeq(pair[2], n + 1, Len(pair[2]))>>

\* The second loop.
Push(pair) ==
    LET k == Len(pair[1]) - TrailingRun(pair[1])
    IN <<SubSeq(pair[1], 1, k), SubSeq(pair[1], k + 1, Len(pair[1])) \o pair[2]>>

RECURSIVE Adjust(_, _)
\* The pass over the boundaries, from boundary i on.
Adjust(ls, i) ==
    IF i >= Len(ls) THEN ls
    ELSE LET pair == Push(Pull(<<ls[i], ls[i + 1]>>))
         IN Adjust([ls EXCEPT ![i] = pair[1], ![i + 1] = pair[2]], i + 1)

\* apply_kinsoku_rules.
ApplyKinsokuRules(ls) == SelectSeq(Adjust(ls, 1), LAMBDA line : line # <<>>)

Wrap ==
    /\ wrapped = NotYet
    /\ wrapped' = WrapAll(Segments(text, <<>>))
    /\ UNCHANGED <<text, limit, wrapper, lines>>

Fix ==
    /\ wrapped # NotYet /\ lines = NotYet
    /\ lines' = ApplyKinsokuRules(wrapped)
    /\ UNCHANGED <<text, limit, wrapper, wrapped>>

Done == lines # NotYet /\ UNCHANGED vars

Next == Wrap \/ Fix \/ Done

Spec == Init /\ [][Next]_vars

-----------------------------------------------------------------------------
(* Every character of the subtitle is shown once and in its place, whatever  *)
(* is pulled back and pushed on between the lines.                           *)
NothingIsLost ==
    lines # NotYet => FlattenSeq(lines) = SelectSeq(text, LAMBDA c : c # Newline)

(* An opening bracket never closes a line another line follows: one pass is  *)
(* enough for that rule, even when brackets are pushed through several lines *)
(* (subtitle_line_breaking.py:21-23, 168-170).                               *)
NoLineEndsWithOpener ==
    lines # NotYet => \A i \in 1..Len(lines) - 1 : Last(lines[i]) \notin LineEndProhibited

(* One pass is enough for the other rule as long as no wrapped line consists *)
(* of prohibited characters only.                                            *)
OnePassSuffices ==
    (/\ lines # NotYet
     /\ \A i \in DOMAIN wrapped :
           \E k \in DOMAIN wrapped[i] : wrapped[i][k] \notin LineStartProhibited)
    => \A i \in 2..Len(lines) : lines[i][1] \notin LineStartProhibited

================================================================================
