---------------------------- MODULE BrokerInvoke ----------------------------
(***************************************************************************)
(* _invoke of scripts/agent_broker.py: one provider process and the        *)
(* children it leaves in its session, two reader threads with a common      *)
(* capture limit, the polling loop with its deadline, the signals to the    *)
(* group, and a broker that may itself be interrupted.                      *)
(***************************************************************************)
EXTENDS Naturals, FiniteSets

CONSTANTS
    Children,          \* descendants the provider may leave in its group
    MAX_CAPTURE_BYTES, \* in units of output
    MaxOutput,         \* units the group writes in all
    PipeSize,          \* units a pipe holds
    MaxInterruptions      \* SIGINT or SIGTERM to the broker

VARIABLES
    leader,       \* the provider's process: running, zombie or reaped
    children,     \* its descendants that are alive
    pipe,         \* units in each pipe
    written,      \* history: units written in all
    captured, output_overflow, timed_out,
    reader,       \* each reader thread: created, reading, done or closed
    phase,           \* the main thread
    round,        \* the signal of _terminate_process: 1 INT, 2 TERM, 3 KILL; 0 outside
    raising,      \* an exception is on its way out
    interruptions

invokeVars == <<leader, children, pipe, written, captured, output_overflow, timed_out, reader, phase,
          round, raising, interruptions>>
group  == <<leader, children>>
output == <<pipe, written, captured, output_overflow, reader>>

Streams == {"stdout", "stderr"}

\* "start": the process is there, the threads are being started; "armed": the
\* handler of SIGTERM is in place, the try block not yet entered; "stop", "handler":
\* _terminate_process in the loop or its handlers, or in the handler outside the
\* try block; "final": the one of the finally clause; "cut": an exception left
\* _invoke where nothing catches it.
Phases == {"start", "armed", "handler", "poll", "stop", "final", "join", "returned", "raised", "cut"}
Terminating == {"handler", "stop", "final"}
Ended == {"returned", "raised", "cut"}

InvokeTypeOK ==
    /\ leader \in {"running", "zombie", "reaped"} /\ children \subseteq Children
    /\ pipe \in [Streams -> 0..PipeSize] /\ written \in 0..MaxOutput
    /\ captured \in 0..MAX_CAPTURE_BYTES
    /\ {output_overflow, timed_out, raising} \subseteq BOOLEAN
    /\ reader \in [Streams -> {"created", "reading", "done", "closed"}]
    /\ phase \in Phases /\ round \in 0..3 /\ interruptions \in 0..MaxInterruptions

InvokeInit ==
    /\ leader = "running" /\ children = {}
    /\ pipe = [s \in Streams |-> 0] /\ written = 0 /\ captured = 0
    /\ output_overflow = FALSE /\ timed_out = FALSE
    /\ reader = [s \in Streams |-> "created"]
    /\ phase = "start" /\ round = 0 /\ raising = FALSE /\ interruptions = 0

\* killpg(pid, 0): a zombie still counts until it is reaped.
group_exists == leader # "reaped" \/ children # {}
Writing      == leader = "running" \/ children # {}
-----------------------------------------------------------------------------
(* The provider.                                                            *)

Write(s) ==
    /\ Writing
    /\ \E n \in 1..PipeSize :
         /\ pipe[s] + n <= PipeSize /\ written + n <= MaxOutput
         /\ pipe' = [pipe EXCEPT ![s] = @ + n] /\ written' = written + n
    /\ UNCHANGED <<group, captured, output_overflow, timed_out, reader, phase, round, raising,
                   interruptions>>

Fork ==
    /\ leader = "running"
    /\ \E c \in Children \ children : children' = children \cup {c}
    /\ UNCHANGED <<leader, output, timed_out, phase, round, raising, interruptions>>

Exit ==
    /\ \/ leader = "running" /\ leader' = "zombie" /\ UNCHANGED children
       \/ \E c \in children : children' = children \ {c} /\ UNCHANGED leader
    /\ UNCHANGED <<output, timed_out, phase, round, raising, interruptions>>
-----------------------------------------------------------------------------
(* The readers.                                                             *)

\* Under capture_lock: what fits is kept, the rest sets output_overflow.
Keep(n) ==
    LET remaining == MAX_CAPTURE_BYTES - captured IN
    /\ captured' = captured + IF n <= remaining THEN n ELSE remaining
    /\ output_overflow' = (output_overflow \/ n > remaining)

ReadStream(s) ==
    /\ reader[s] = "reading"
    /\ \/ /\ pipe[s] > 0
          /\ \E n \in 1..pipe[s] : pipe' = [pipe EXCEPT ![s] = @ - n] /\ Keep(n)
          /\ UNCHANGED reader
       \/ /\ pipe[s] = 0 /\ ~Writing
          /\ reader' = [reader EXCEPT ![s] = "done"]
          /\ UNCHANGED <<pipe, captured, output_overflow>>
    /\ UNCHANGED <<group, written, timed_out, phase, round, raising, interruptions>>
-----------------------------------------------------------------------------
(* The main thread.                                                         *)

Reaped == IF leader = "zombie" THEN "reaped" ELSE leader

\* thread.start() of the two readers.
StartReader ==
    /\ phase = "start"
    /\ \E s \in Streams :
         /\ reader[s] = "created" /\ (s = "stderr" => reader["stdout"] # "created")
         /\ reader' = [reader EXCEPT ![s] = "reading"]
    /\ UNCHANGED <<group, pipe, written, captured, output_overflow, timed_out, phase, round,
                   raising, interruptions>>

\* signal.signal, and then the try block.
EnterTry ==
    /\ \/ /\ phase = "start" /\ \A s \in Streams : reader[s] # "created"
          /\ phase' = "armed"
       \/ phase = "armed" /\ phase' = "poll"
    /\ UNCHANGED <<group, output, timed_out, round, raising, interruptions>>

\* poll() reaps an ended process; overflow and deadline stop a running one.
Poll ==
    /\ phase = "poll"
    /\ \/ /\ leader # "running"
          /\ leader' = Reaped /\ phase' = "final" /\ UNCHANGED <<timed_out, round>>
       \/ /\ leader = "running" /\ output_overflow
          /\ phase' = "stop" /\ round' = 0 /\ UNCHANGED <<leader, timed_out>>
       \/ /\ leader = "running" /\ ~output_overflow
          /\ timed_out' = TRUE
          /\ phase' = "stop" /\ round' = 0 /\ UNCHANGED leader
    /\ UNCHANGED <<children, output, raising, interruptions>>

\* Mutant: only the provider itself is signalled.
SignalsLeader(sig) ==
    /\ \/ leader' = IF leader = "running" THEN "zombie" ELSE leader
       \/ sig < 3 /\ UNCHANGED leader
    /\ UNCHANGED children

\* SIGINT and SIGTERM may be ignored by any member of the group, SIGKILL by none.
Signals(sig) ==
    /\ IF sig = 3 THEN children' = {} ELSE children' \in SUBSET children
    /\ \/ leader' = IF leader = "running" THEN "zombie" ELSE leader
       \/ sig < 3 /\ UNCHANGED leader

\* The next signal of the escalation, when the grace period of the one before is over.
Escalate ==
    /\ phase \in Terminating /\ round < 3 /\ group_exists
    /\ round' = round + 1
    /\ Signals(round')
    /\ UNCHANGED <<output, timed_out, phase, raising, interruptions>>

\* The waiting loop reaps the provider.
Reap ==
    /\ phase \in Terminating /\ leader = "zombie"
    /\ leader' = "reaped"
    /\ UNCHANGED <<children, output, timed_out, phase, round, raising, interruptions>>

\* The end of _terminate_process: the group is gone, or SIGKILL has been sent.
Terminated ==
    /\ phase \in Terminating
    /\ ~group_exists \/ (round = 3 /\ leader = "reaped")
    /\ phase' = CASE phase = "handler" -> "raised" [] phase = "stop" -> "final"
                  [] phase = "final" -> "join"
    /\ round' = 0
    /\ UNCHANGED <<group, output, timed_out, raising, interruptions>>

\* A reader ends within the second that join waits, or its stream is closed
\* under it.
JoinReader ==
    /\ phase = "join"
    /\ \E s \in Streams : reader[s] = "reading" /\ reader' = [reader EXCEPT ![s] = "closed"]
    /\ UNCHANGED <<group, pipe, written, captured, output_overflow, timed_out, phase, round,
                   raising, interruptions>>

Return ==
    /\ phase = "join" /\ \A s \in Streams : reader[s] # "reading"
    /\ phase' = IF raising THEN "raised" ELSE "returned"
    /\ UNCHANGED <<group, output, timed_out, round, raising, interruptions>>

\* Before the try block a signal ends the call at once, and so does a thread that
\* cannot be started; only SIGTERM, when its handler is in place, stops the group
\* first.
InterruptStart ==
    /\ phase \in {"start", "armed", "handler"}
    /\ interruptions < MaxInterruptions /\ interruptions' = interruptions + 1
    /\ raising' = TRUE
    /\ \/ phase' = "cut" /\ UNCHANGED round
       \/ phase # "start" /\ phase' = "handler" /\ round' = 0
    /\ UNCHANGED <<group, output, timed_out>>

StartFails ==
    /\ phase = "start"
    /\ raising' = TRUE /\ phase' = "cut"
    /\ UNCHANGED <<group, output, timed_out, round, interruptions>>

\* In the loop the handler of SIGTERM or the except clause starts the escalation
\* anew.
InterruptLoop ==
    /\ phase \in {"poll", "stop"}
    /\ interruptions < MaxInterruptions /\ interruptions' = interruptions + 1
    /\ raising' = TRUE /\ phase' = "stop" /\ round' = 0
    /\ UNCHANGED <<group, output, timed_out>>

\* In the finally clause nothing catches it.
InterruptFinally ==
    /\ phase \in {"final", "join"}
    /\ interruptions < MaxInterruptions /\ interruptions' = interruptions + 1
    /\ raising' = TRUE /\ phase' = "cut"
    /\ UNCHANGED <<group, output, timed_out, round>>

Main == StartReader \/ EnterTry \/ Poll \/ Escalate \/ Reap \/ Terminated \/ JoinReader \/ Return

\* The provider's processes and the reader threads.
Others == Fork \/ Exit \/ (\E s \in Streams : Write(s) \/ ReadStream(s))

Interrupted == InterruptStart \/ StartFails \/ InterruptLoop \/ InterruptFinally

InvokeNext == Main \/ Others \/ Interrupted

InvokeSpec == InvokeInit /\ [][InvokeNext]_invokeVars

\* The main thread runs, its deadlines pass.
FairInvoke == InvokeSpec /\ WF_invokeVars(Main)
-----------------------------------------------------------------------------
\* Nothing the provider started outlives the call, however it ended and whatever
\* it left in the background, unless the exception it ends with comes where nothing
\* catches it: between Popen and the try block, or in the finally clause.
NothingOutlivesInvoke == phase \in {"returned", "raised"} => leader = "reaped" /\ children = {}

\* Output is never lost silently: when the call returns without the overflow
\* mark and both readers reached the end, everything was captured, although two
\* threads share one limit.
NoSilentLoss ==
    (phase = "returned" /\ ~output_overflow /\ \A s \in Streams : reader[s] = "done")
        => captured = written

\* An overflow mark means the limit was really exhausted.
OverflowIsReal == output_overflow => captured = MAX_CAPTURE_BYTES /\ written > captured

\* Nothing outlives _invoke, its output is neither lost without the overflow mark
\* nor marked for nothing (_invoke, _terminate_process, read_stream).
InvokeIsSound == NothingOutlivesInvoke /\ NoSilentLoss /\ OverflowIsReal
-----------------------------------------------------------------------------
(* What is true at every step of the call.                                  *)

InvokeAssumption == {MAX_CAPTURE_BYTES, MaxOutput, PipeSize, MaxInterruptions} \subseteq Nat

\* A group that got SIGKILL is dead, a group the finally clause is done with is
\* gone, and what is dead neither forks nor writes again.
GroupEnds ==
    /\ round = 3 => ~Writing
    /\ phase \in {"join", "returned", "raised"} => leader = "reaped" /\ children = {}

\* Every unit written is in a pipe, kept, or beyond the limit.
NothingVanishes ==
    /\ captured + pipe["stdout"] + pipe["stderr"] <= written
    /\ ~output_overflow => captured + pipe["stdout"] + pipe["stderr"] = written
    /\ \A s \in Streams : reader[s] = "done" => pipe[s] = 0 /\ ~Writing

InvokeInv == InvokeTypeOK /\ GroupEnds /\ NothingVanishes /\ OverflowIsReal
=============================================================================
