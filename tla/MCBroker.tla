------------------------------ MODULE MCBroker ------------------------------
(* The agent broker for TLC: two brokers on one worktree with few outcomes,  *)
(* one broker with every kind of outcome, or the inside of one _invoke.      *)
EXTENDS AgentBroker, BrokerInvoke

CONSTANTS b1, b2, none, v1, v2, c1, c2

\* Which of the three; the variables of the others keep their initial values.
VARIABLE scope

allVars == <<scope, vars, invokeVars>>

Raw(mode, providers, fallback) ==
    [fields |-> allowed, depth |-> 0, mode |-> mode, providers |-> providers,
     fallback |-> fallback, timeout |-> 900, turns |-> 24]

\* A reader that may fall back, a writer; then one that may not, and two that
\* are refused.
FewTasks ==
    {Raw("read-only", <<"codex", "claude">>, TRUE),
     Raw("workspace-write", <<"claude", "opencode">>, TRUE)}

AllTasks ==
    FewTasks \cup
    {Raw("read-only", <<"opencode", "codex">>, FALSE),
     [Raw("workspace-write", <<"claude", "claude">>, TRUE) EXCEPT !.depth = 1],
     [Raw("read-only", <<"codex">>, TRUE) EXCEPT !.timeout = 5]}

Success == [timed_out |-> FALSE, unavailable |-> FALSE, overflow |-> FALSE, exit |-> 0,
            errors |-> FALSE, completed |-> TRUE, message |-> TRUE, malformed |-> FALSE,
            noisy |-> FALSE, codes |-> {}, stderr |-> {}, subtype |-> "success"]

FewOutcomes == {Success, [Success EXCEPT !.exit = 1, !.errors = TRUE, !.codes = {"quota"},
                                         !.subtype = "error"]}

\* ... a failed turn with exit 0, a timeout, a flood, garbled output, a missing
\* executable.
AllOutcomes ==
    FewOutcomes \cup
    {[Success EXCEPT !.errors = TRUE, !.codes = {"worker_error"}],
     [Success EXCEPT !.timed_out = TRUE, !.exit = 137, !.codes = {"auth"}],
     [Success EXCEPT !.overflow = TRUE, !.malformed = TRUE],
     [Success EXCEPT !.malformed = TRUE],
     [Success EXCEPT !.unavailable = TRUE, !.completed = FALSE]}

TwoBrokers == {b1, b2}
TwoContents == {v1, v2}
TwoChildren == {c1, c2}

ASSUME ConstantsAreSound == BrokerAssumption /\ InvokeAssumption

MCInit == Init /\ InvokeInit /\ scope \in {"pair", "single", "invoke"}

\* Two brokers: few tasks, few outcomes, one change.
PairWithin ==
    /\ edits' <= 1 /\ outside' = 0
    /\ \A b \in Brokers :
         /\ pc[b] = "idle" /\ pc'[b] # "idle" => task'[b].fallback
         /\ \A k \in DOMAIN attempts'[b] : attempts'[b][k].outcome \in FewOutcomes

\* One broker: nobody interrupts or kills it.
SingleWithin == interrupts' = 0 /\ kills' = 0 /\ pc'[b2] = "idle"

Pair == scope = "pair" /\ UNCHANGED <<scope, invokeVars>>
Single == scope = "single" /\ UNCHANGED <<scope, invokeVars>>
Invoke == scope = "invoke" /\ UNCHANGED <<scope, vars>>

PairStarts(b) == Pair /\ StartRun(b) /\ PairWithin
PairStep(b) == Pair /\ Step(b) /\ PairWithin
PairDisturbed(b) == Pair /\ Disturb(b) /\ PairWithin
PairWorktree == Pair /\ Worktree /\ PairWithin
SingleRun == Single /\ Next /\ SingleWithin
InvokeMain == Invoke /\ Main
InvokeOthers == Invoke /\ Others
InvokeInterrupted == Invoke /\ Interrupted

MCNext ==
    \/ \E b \in Brokers : PairStarts(b) \/ PairStep(b) \/ PairDisturbed(b)
    \/ PairWorktree \/ SingleRun \/ InvokeMain \/ InvokeOthers \/ InvokeInterrupted

\* A broker process goes on; the main thread of _invoke runs and its deadlines
\* pass.
MCSpec ==
    /\ MCInit /\ [][MCNext]_allVars
    /\ \A b \in Brokers : WF_allVars(PairStep(b))
    /\ WF_allVars(InvokeMain)

-----------------------------------------------------------------------------
(* Every run comes to an end and gives the lease back, whatever happens to   *)
(* it, and _invoke ends although its provider ignores signals, keeps a pipe  *)
(* open or floods it.                                                        *)
BrokerEnds ==
    /\ \A b \in Brokers :
        (scope = "pair" /\ pc[b] # "idle") ~> (scope # "pair" \/ (pc[b] = "over" /\ lease # b))
    /\ <>(scope # "invoke" \/ phase \in Ended)
=============================================================================
