------------------------------ MODULE JsonExtract ------------------------------
(***************************************************************************)
(* extract_json_object (core/models/text_runtimes.py:662-716): the JSON    *)
(* object in the response of a text model.                                 *)
(*                                                                         *)
(* A response is a sequence of tokens: the characters the code looks at,   *)
(* brackets, a code fence as one token, and anything else.  json.loads is  *)
(* external and given by a grammar: an object is a pair of braces, a list  *)
(* a pair of brackets, around objects, lists, strings and other tokens,    *)
(* which are keys, colons, commas and scalars; a word that is no JSON is   *)
(* represented by a fence that stands alone.                               *)
(***************************************************************************)
EXTENDS Naturals, Sequences, SequencesExt

CONSTANT MaxLength      \* bound: tokens of a response, a word before them apart

Open == "{"
Close == "}"
ListOpen == "["
ListClose == "]"
Quote == "q"
Escape == "b"
Fence == "F"
Other == "x"
Tokens == {Open, Close, ListOpen, ListClose, Quote, Escape, Fence, Other}

VARIABLES text, result
vars == <<text, result>>

NotParsed == <<"not parsed">>
Failure == <<"ValueError">>

Init ==
    /\ \/ text \in UNION {[1..n -> Tokens] : n \in 0..MaxLength}
       \/ \E t \in [1..MaxLength -> Tokens] : text = <<Other>> \o t
    /\ result = NotParsed

-----------------------------------------------------------------------------
RECURSIVE StringEnd(_, _)
\* The position after a string of which i is the first token; 0 if it is none.
StringEnd(t, i) ==
    IF i > Len(t) THEN 0
    ELSE IF t[i] = Quote THEN i + 1
    ELSE IF t[i] # Escape THEN StringEnd(t, i + 1)
    ELSE IF i < Len(t) /\ t[i + 1] \in {Quote, Escape, Other} THEN StringEnd(t, i + 2) ELSE 0

RECURSIVE ItemsEnd(_, _, _)
\* The position after the token that closes an object or a list, read from
\* inside it.
ItemsEnd(t, i, close) ==
    IF i = 0 \/ i > Len(t) THEN 0
    ELSE CASE t[i] = close -> i + 1
           [] t[i] = Quote -> ItemsEnd(t, StringEnd(t, i + 1), close)
           [] t[i] = Open -> ItemsEnd(t, ItemsEnd(t, i + 1, Close), close)
           [] t[i] = ListOpen -> ItemsEnd(t, ItemsEnd(t, i + 1, ListClose), close)
           [] t[i] = Other -> ItemsEnd(t, i + 1, close)
           [] OTHER -> 0

ObjectEnd(t, i) == IF t[i] = Open THEN ItemsEnd(t, i + 1, Close) ELSE 0

IsObject(t) == t # <<>> /\ ObjectEnd(t, 1) = Len(t) + 1
IsList(t) == t # <<>> /\ t[1] = ListOpen /\ ItemsEnd(t, 2, ListClose) = Len(t) + 1
IsString(t) == Len(t) > 1 /\ t[1] = Quote /\ StringEnd(t, 2) = Len(t) + 1

\* JSON, but no object; a scalar holds no brace and is refused in any case.
IsAnotherValue(t) == IsList(t) \/ IsString(t)

-----------------------------------------------------------------------------
RECURSIVE ScanBlind(_, _, _, _, _)
\* Mutant: a backslash does not protect the quote that follows it.
ScanBlind(t, i, depth, inString, escaped) ==
    IF i > Len(t) THEN 0
    ELSE IF inString THEN ScanBlind(t, i + 1, depth, t[i] # Quote, FALSE)
    ELSE CASE t[i] = Quote -> ScanBlind(t, i + 1, depth, TRUE, FALSE)
           [] t[i] = Open -> ScanBlind(t, i + 1, depth + 1, FALSE, FALSE)
           [] t[i] = Close /\ depth = 1 -> i
           [] t[i] = Close -> ScanBlind(t, i + 1, depth - 1, FALSE, FALSE)
           [] OTHER -> ScanBlind(t, i + 1, depth, FALSE, FALSE)

RECURSIVE Scan(_, _, _, _, _)
\* The loop of _scan_for_object: where the object closes, 0 if it does not.
Scan(t, i, depth, inString, escaped) ==
    IF i > Len(t) THEN 0
    ELSE IF inString
    THEN Scan(t, i + 1, depth, escaped \/ t[i] # Quote, ~escaped /\ t[i] = Escape)
    ELSE CASE t[i] = Quote -> Scan(t, i + 1, depth, TRUE, FALSE)
           [] t[i] = Open -> Scan(t, i + 1, depth + 1, FALSE, FALSE)
           [] t[i] = Close /\ depth = 1 -> i
           [] t[i] = Close -> Scan(t, i + 1, depth - 1, FALSE, FALSE)
           [] OTHER -> Scan(t, i + 1, depth, FALSE, FALSE)

First(t, token, from) ==
    LET at == {i \in from..Len(t) : t[i] = token}
    IN IF at = {} THEN 0 ELSE CHOOSE i \in at : \A k \in at : i <= k

\* _scan_for_object.
ScanForObject(t) ==
    LET start == First(t, Open, 1)
        end == IF start = 0 THEN 0 ELSE Scan(t, start, 0, FALSE, FALSE)
        piece == SubSeq(t, start, end)
    IN IF end # 0 /\ IsObject(piece) THEN piece ELSE Failure

\* What is between the first fence and the next one, if there are two.
Unfenced(t) ==
    LET opening == First(t, Fence, 1)
        closing == IF opening = 0 THEN 0 ELSE First(t, Fence, opening + 2)
    IN IF closing = 0 THEN t ELSE SubSeq(t, opening + 1, closing - 1)

\* extract_json_object: what json.loads reads is not scanned any more, even if
\* it is no object.
Extract(raw) ==
    LET t == Unfenced(raw)
    IN IF raw = <<>> \/ IsAnotherValue(t) THEN Failure
       ELSE IF IsObject(t) THEN t ELSE ScanForObject(t)

Parse ==
    /\ result = NotParsed
    /\ result' = Extract(text)
    /\ UNCHANGED text

Done == result # NotParsed /\ UNCHANGED vars

Next == Parse \/ Done

Spec == Init /\ [][Next]_vars

-----------------------------------------------------------------------------
Fences == {i \in DOMAIN text : text[i] = Fence}

(* In a response with no pair of fences, the object that begins at the first *)
(* brace is returned, whatever braces, brackets, quotes and escapes its      *)
(* strings hold and whatever stands around it; the response is refused if no *)
(* object begins there, and also if it is a list or a string as a whole,     *)
(* whatever objects that holds (text_runtimes.py:678-687).                   *)
ScanAgreesWithGrammar ==
    (result # NotParsed /\ \A i, k \in Fences : i = k) =>
        LET start == First(text, Open, 1)
            end == IF start = 0 THEN 0 ELSE ObjectEnd(text, start)
        IN result = IF end = 0 \/ IsAnotherValue(text) THEN Failure
                    ELSE SubSeq(text, start, end - 1)

(* An object between the only two fences is returned, whatever prose with    *)
(* stray braces stands around it.                                            *)
FencedObjectIsFound ==
    result # NotParsed =>
        \A i, k \in Fences :
            (i < k /\ Fences = {i, k} /\ IsObject(SubSeq(text, i + 1, k - 1))) =>
                result = SubSeq(text, i + 1, k - 1)

(* What is returned is always an object that stands in the response as it    *)
(* is: nothing is put together from pieces.                                  *)
ResultStandsInText ==
    result \notin {NotParsed, Failure} =>
        /\ IsObject(result)
        /\ \E i \in DOMAIN text : SubSeq(text, i, i + Len(result) - 1) = result

================================================================================
