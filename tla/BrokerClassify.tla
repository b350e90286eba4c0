--------------------------- MODULE BrokerClassify ---------------------------
(***************************************************************************)
(* What scripts/agent_broker.py makes of a task file and of the end of a   *)
(* provider's process: pure functions.  A text is abstracted to the set of *)
(* the phrase families it contains; a stream of JSON events to what the    *)
(* classifiers look at.                                                     *)
(***************************************************************************)
EXTENDS Integers, Sequences, FiniteSets

PROVIDERS        == {"codex", "claude", "opencode"}
MODES            == {"read-only", "workspace-write"}
FALLBACK_REASONS == {"quota", "auth", "unavailable", "budget"}

\* Families of phrases or error codes, in the order they are looked for.
Families == <<"quota", "auth", "budget", "turn_limit", "unavailable">>

NotExecutable == {126, 127}

(* The task file.                                                           *)

required == {"schema_version", "task_id", "prompt_file", "workspace", "mode", "providers"}
allowed  == required \cup {"parent_task_id", "delegation_depth", "allow_fallback",
                           "timeout_seconds", "max_turns", "base_commit"}

\* A raw task: the names of its fields and the values that are looked at.
_validate_task(raw) ==
    /\ required \subseteq raw.fields /\ raw.fields \subseteq allowed
    /\ raw.depth \in 0..1
    /\ raw.mode \in MODES
    /\ Len(raw.providers) \in 1..2
    /\ \A k \in DOMAIN raw.providers : raw.providers[k] \in PROVIDERS
    /\ Len(raw.providers) = 2 => raw.providers[1] # raw.providers[2]
    /\ raw.timeout \in 10..3600
    /\ raw.turns \in 1..100

\* The providers an accepted task may use, first choice first.
Candidates(task) == IF task.fallback THEN task.providers ELSE SubSeq(task.providers, 1, 1)

(* The end of a process: how it was stopped, its exit code, what its         *)
(* standard output held.                                                     *)

ProcessEnds ==
    [timed_out : BOOLEAN, unavailable : BOOLEAN, overflow : BOOLEAN, exit : Int,
     errors : BOOLEAN, completed : BOOLEAN, message : BOOLEAN, malformed : BOOLEAN,
     noisy : BOOLEAN, codes : SUBSET STRING, stderr : SUBSET STRING, subtype : STRING]

\* The phrases of a text, the first family found wins.
_reason_from_text(phrases, exit) ==
    LET found == {k \in DOMAIN Families : Families[k] \in phrases}
    IN  CASE found # {} -> Families[CHOOSE k \in found : \A l \in found : k <= l]
          [] found = {} /\ exit \in NotExecutable -> "unavailable"
          [] OTHER -> "worker_error"

\* Only the codes of failure events count for codex, never its free text.
_codex_failure_reason(p) ==
    _reason_from_text(p.codes \ {"turn_limit"}, p.exit)

\* Messages of error events first, then stderr.
_opencode_failure_reason(p) ==
    LET message == _reason_from_text(p.codes, p.exit)
        stderr  == _reason_from_text(p.stderr, p.exit)
    IN  IF p.errors /\ message # "worker_error" THEN message
        ELSE IF p.noisy /\ stderr # "worker_error" THEN stderr
        ELSE IF p.exit = 2 THEN "protocol_error" ELSE "worker_error"

\* How the process was stopped comes before anything it said.
Stopped(p) == p.timed_out \/ p.unavailable \/ p.overflow
StopReason(p) ==
    IF p.timed_out THEN "timeout"
    ELSE IF p.unavailable THEN "unavailable" ELSE "protocol_error"

\* codex: turn.completed, no turn.failed or error, a last message.
_classify_codex(p) ==
    IF p.exit # 0 \/ p.errors THEN _codex_failure_reason(p)
    ELSE IF p.malformed \/ ~p.completed \/ ~p.message THEN "protocol_error" ELSE "success"

\* claude: one result event with is_error and a subtype; its text is looked at
\* only when it failed.
_classify_claude(p) ==
    LET limits == {"turn_limit", "budget"} IN
    IF p.exit # 0 \/ ~p.completed \/ p.errors
    THEN CASE p.completed /\ p.subtype \in limits -> p.subtype
           [] p.completed /\ p.subtype \notin limits /\ p.message ->
                 _reason_from_text(p.codes, p.exit)
           [] ~(p.completed /\ (p.subtype \in limits \/ p.message))
                 /\ p.exit \in NotExecutable -> "unavailable"
           [] OTHER -> "worker_error"
    ELSE CASE p.subtype \in limits -> p.subtype
           [] p.subtype = "success" /\ ~p.malformed -> "success"
           [] OTHER -> "protocol_error"

\* opencode: the exit code decides.
_classify_opencode(p) ==
    IF p.exit # 0 THEN _opencode_failure_reason(p)
    ELSE IF p.malformed THEN "protocol_error" ELSE "success"

Classify(provider, p) ==
    IF Stopped(p) THEN StopReason(p)
    ELSE CASE provider = "codex" -> _classify_codex(p)
           [] provider = "claude" -> _classify_claude(p)
           [] provider = "opencode" -> _classify_opencode(p)
=============================================================================
