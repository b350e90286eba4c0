----------------------------- MODULE SpeechChunks -----------------------------
(***************************************************************************)
(* How a narration is cut into pieces short enough for a speech model:     *)
(* split_into_sentences, split_into_chunks and their helpers               *)
(* (generators/audio/speech.py:525-661).                                   *)
(*                                                                         *)
(* A text is a sequence of characters of a small alphabet, one per class   *)
(* the code tells apart.                                                   *)
(***************************************************************************)
EXTENDS Naturals, Sequences, SequencesExt

CONSTANTS
    MaxLength,      \* bound: characters of a text
    MaxCharacters   \* bound: max_chunk_characters

Letter == "a"           \* an ASCII letter
Kana == "k"             \* a letter outside ASCII
Space == "_"
Newline == "n"
Period == "."           \* ends a sentence if blank space follows
Maru == "o"             \* the Japanese full stop, always ends a sentence
Closing == ")"
Comma == ","            \* a clause separator

Alphabet == {Letter, Kana, Space, Newline, Period, Maru, Closing, Comma}
Blank == {Space, Newline}
Terminators == {Period, Maru}
Ascii == Alphabet \ {Kana, Maru}

VARIABLES text, limit, chunks
vars == <<text, limit, chunks>>

NotSplit == <<"not split">>

Init ==
    /\ text \in UNION {[1..n -> Alphabet] : n \in 0..MaxLength}
    /\ limit \in 1..MaxCharacters
    /\ chunks = NotSplit

-----------------------------------------------------------------------------
RECURSIVE Strip(_)
\* str.strip().
Strip(s) ==
    IF s = <<>> THEN s
    ELSE IF s[1] \in Blank THEN Strip(Tail(s))
    ELSE IF s[Len(s)] \in Blank THEN Strip(Front(s)) ELSE s

\* A piece that is kept if anything is left of it.
Kept(s) == IF Strip(s) = <<>> THEN <<>> ELSE <<Strip(s)>>

RECURSIVE RunEnd(_, _)
\* Where the terminators and closing marks that follow a terminator end.
RunEnd(t, i) ==
    IF i <= Len(t) /\ t[i] \in Terminators \cup {Closing} THEN RunEnd(t, i + 1) ELSE i

\* _ends_latin_sentence.
EndsLatin(t, i) == i > Len(t) \/ t[i] \in Blank

RECURSIVE Sentences(_, _, _)
\* split_into_sentences, from position i with a buffer already read.
Sentences(t, i, buffer) ==
    IF i > Len(t) THEN Kept(buffer)
    ELSE IF t[i] = Newline THEN Kept(buffer) \o Sentences(t, i + 1, <<>>)
    ELSE IF t[i] \notin Terminators THEN Sentences(t, i + 1, Append(buffer, t[i]))
    ELSE LET j == RunEnd(t, i + 1)
             read == buffer \o SubSeq(t, i, j - 1)
         IN IF t[i] = Period /\ ~EndsLatin(t, j)
            THEN Sentences(t, j, read)
            ELSE Kept(read) \o Sentences(t, j, <<>>)

RECURSIVE Clauses(_, _)
\* _split_clauses.
Clauses(s, buffer) ==
    IF s = <<>> THEN (IF buffer = <<>> THEN <<>> ELSE <<buffer>>)
    ELSE IF s[1] = Comma THEN <<Append(buffer, s[1])>> \o Clauses(Tail(s), <<>>)
    ELSE Clauses(Tail(s), Append(buffer, s[1]))

\* _preferred_break_position: before the last blank that fits, or at the limit.
BreakAt(s, max) ==
    LET blanks == {i \in 1..max : s[i] \in Blank}
        last == CHOOSE i \in blanks : \A k \in blanks : k <= i
    IN IF blanks = {} \/ last = 1 THEN max ELSE last - 1

\* Mutant: the character at the break is taken for a blank and skipped.
AfterBreakSkips(s, max) == Strip(SubSeq(s, BreakAt(s, max) + 2, Len(s)))

AfterBreak(s, max) == Strip(SubSeq(s, BreakAt(s, max) + 1, Len(s)))

RECURSIVE Chop(_, _)
\* The pieces a clause that is too long gives, and last what is left of it.
Chop(s, max) ==
    IF Len(s) <= max THEN <<s>>
    ELSE Kept(SubSeq(s, 1, BreakAt(s, max))) \o Chop(AfterBreak(s, max), max)

RECURSIVE Fit(_, _, _)
\* The loop of _split_long_sentence.
Fit(clauses, current, max) ==
    IF clauses = <<>> THEN Kept(current)
    ELSE IF Len(current) + Len(clauses[1]) <= max
    THEN Fit(Tail(clauses), current \o clauses[1], max)
    ELSE LET cut == Chop(clauses[1], max)
         IN Kept(current) \o Front(cut) \o Fit(Tail(clauses), Last(cut), max)

\* _split_long_sentence.
Pieces(s, max) == IF Len(s) <= max THEN <<s>> ELSE Fit(Clauses(s, <<>>), <<>>, max)

\* _join_separator.
Joined(left, right) ==
    IF Last(left) \in Ascii /\ right[1] \in Ascii
    THEN left \o <<Space>> \o right ELSE left \o right

FitsTogether(left, right, max) == Len(Joined(left, right)) <= max

RECURSIVE Pack(_, _, _)
\* The loop of split_into_chunks over the pieces of all sentences.
Pack(pieces, current, max) ==
    IF pieces = <<>> THEN (IF current = <<>> THEN <<>> ELSE <<current>>)
    ELSE IF current = <<>> THEN Pack(Tail(pieces), pieces[1], max)
    ELSE IF FitsTogether(current, pieces[1], max)
    THEN Pack(Tail(pieces), Joined(current, pieces[1]), max)
    ELSE <<current>> \o Pack(Tail(pieces), pieces[1], max)

RECURSIVE AllPieces(_, _)
AllPieces(sentences, max) ==
    IF sentences = <<>> THEN <<>>
    ELSE Pieces(sentences[1], max) \o AllPieces(Tail(sentences), max)

SplitIntoChunks(t, max) == Pack(AllPieces(Sentences(t, 1, <<>>), max), <<>>, max)

Split ==
    /\ chunks = NotSplit
    /\ chunks' = SplitIntoChunks(text, limit)
    /\ UNCHANGED <<text, limit>>

Done == chunks # NotSplit /\ UNCHANGED vars

Next == Split \/ Done

Spec == Init /\ [][Next]_vars

-----------------------------------------------------------------------------
Spoken(s) == SelectSeq(s, LAMBDA c : c \notin Blank)

(* Every call of the speech model gets a text that is not empty, does not    *)
(* begin or end with blank space and has at most max_chunk_characters        *)
(* characters.                                                               *)
ChunksFit ==
    chunks # NotSplit =>
        \A i \in DOMAIN chunks : /\ Len(chunks[i]) \in 1..limit
                                 /\ Strip(chunks[i]) = chunks[i]

(* The chunks, in order, hold every character of the narration that is not   *)
(* blank, once: nothing is left out or spoken twice.                         *)
NothingIsLost ==
    chunks # NotSplit => Spoken(FlattenSeq(chunks)) = Spoken(text)
===============================================================================
