---------------------------- MODULE MCGenerators ----------------------------
(* The generators for TLC: the requests, errors and limits of one instance.  *)
EXTENDS Generators

CONSTANTS j1, j2

MCJobs == {j1, j2}

Picture(lora, count, ok, stepwise) ==
    [lora |-> lora, count |-> count, valid |-> ok, stepwise |-> stepwise]

\* With another job's LoRA, with none, and one that is refused.
MCPictures ==
    {Picture("base", 1, TRUE, TRUE), Picture("ink", 2, TRUE, TRUE), Picture("oil", 1, TRUE, TRUE),
     Picture("ink", 1, FALSE, TRUE), Picture("base", 2, TRUE, FALSE), Picture("ink", 1, TRUE, FALSE)}

Song(form, ok, seconds, stride, seeded) ==
    [form |-> form, valid |-> ok, duration |-> seconds, stride |-> stride, seeded |-> seeded,
     raises |-> "never"]

\* Long jobs of several segments beside short ones, and some the model fails.
MCSongs ==
    {Song("long", TRUE, 5, 1, TRUE), Song("long", TRUE, 6, 2, FALSE),
     Song("short", TRUE, 2, 1, TRUE), Song("short", FALSE, 2, 1, FALSE),
     [Song("long", TRUE, 5, 1, TRUE) EXCEPT !.raises = "generating"],
     [Song("short", TRUE, 2, 1, TRUE) EXCEPT !.raises = "prepared"]}

Narration(chars, chunks, gap, speed, ok) ==
    [chars |-> chars, chunks |-> chunks, gap |-> gap, speed |-> speed, sound |-> ok]

\* Short, longest, too long in speech, too long through gaps, too many chunks,
\* none, a control out of range, and exactly 600 seconds through rounding.
MCNarrations ==
    {Narration(1200, 2, 250, 10, TRUE), Narration(3600, 1, 0, 10, TRUE),
     Narration(3601, 3, 0, 10, TRUE), Narration(3594, 3, 2000, 10, TRUE),
     Narration(1800, 2, 100, 5, TRUE), Narration(100, 129, 0, 10, TRUE),
     Narration(1, 0, 0, 10, TRUE), Narration(1200, 2, 0, 10, FALSE),
     Narration(2000, 3, 2000, 12, TRUE), Narration(3591, 3, 750, 10, TRUE)}

Err(c, after) == [category |-> c, words |-> {"why"}, id |-> {}, after |-> after]

\* An error of every category, some quoting the credential, and Retry-After
\* headers below and above what is allowed.
MCTransportErrors ==
    {Err(c, {}) : c \in {"transient", "permanent", "interrupt"}}
        \cup {Err("rate_limit", {-1}), Err("rate_limit", {9})}
        \cup {[Err("auth", {}) EXCEPT !.words = {"why", "key"}, !.id = {"key"}],
              [Err("foreign", {}) EXCEPT !.words = {"key"}]}

Ref(a, role, s, p) == [asset |-> a, role |-> role, strength |-> s, prep |-> p]

\* One that asks for nothing, a strong and a weak one, one with a
\* preparation this path does not implement.
MCReferences ==
    {Ref("a1", "character", 0, "none"), Ref("a1", "character", 6, "none"),
     Ref("a1", "location", 6, "canny"), Ref("a2", "location", 3, "auto")}

MCCapability == [modes |-> {"img2img"}, roles |-> {"character", "location"},
               preps |-> {"none", "auto", "canny"}, min |-> 0, max |-> 10, perRole |-> 1]

\* A runtime that does not say its rate, one that does, one that lies.
MCSpeechAdvertised == {0, 22050, 96001}
MCSpeechRates == {22050, 16000, -1}
MCSpeechLengths == {0, 200, 299, 300, 601}

\* Scenes without a duration, ordinary ones, one near a rounding, a long one.
MCDurations == {0, 30, 110, 141}
MCTimelineRates == {0, 5, 10, 25, 70}
=============================================================================
