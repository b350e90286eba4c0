---------------------------- MODULE AgentBroker -----------------------------
(***************************************************************************)
(* Runs of scripts/agent_broker.py on one Git worktree: several broker     *)
(* processes that inspect it, take its lease, start a provider, look at    *)
(* what it left behind, fall back to a second provider or stop, and record *)
(* the outcome.  The worktree is shared with the providers' processes, with *)
(* people, and with providers whose broker was killed.                      *)
(***************************************************************************)
EXTENDS BrokerClassify

CONSTANTS
    Brokers,       \* broker processes, one run each
    NoBroker,
    RawTasks,      \* task files a run may be started with
    Outcomes,      \* ways a provider's process may end
    Contents,      \* versions of the files; a commit is named by its content
    Start,         \* the content that is checked out at first
    MaxEdits,      \* changes a provider makes over all runs
    MaxOutside,    \* changes made by people
    MaxInterrupts, \* SIGINT or SIGTERM to a broker
    MaxErrors,     \* Git calls that time out and files that cannot be written
    MaxKills       \* brokers killed with SIGKILL

VARIABLES
    tree, index, head,   \* the worktree: files, staged content, commit
    lease,               \* the holder of the flock, or NoBroker
    worker,              \* providers' processes that are alive, per run
    pc, task,            \* position and validated task of each run
    base, look,          \* the baseline snapshot; the snapshot being taken
    attempts,            \* finished attempts: provider, reason, outcome
    status, result,      \* status.json and result.json of each run
    fate,                \* how the process of the run ended
    edits, outside, interrupts, errors, kills

vars == <<tree, index, head, lease, worker, pc, task, base, look, attempts, status, result,
          fate, edits, outside, interrupts, errors, kills>>
git    == <<tree, index, head>>
files  == <<status, result>>
bounds == <<edits, outside, interrupts, errors, kills>>

\* What the broker can see of the worktree: rev-parse HEAD and status.
Snapshot == [head |-> head, unstaged |-> tree # index, staged |-> index # head]
_has_index_changes(s) == s.staged
Clean(s) == ~s.unstaged /\ ~s.staged

Snapshots == [head : Contents, unstaged : BOOLEAN, staged : BOOLEAN]
NoLook    == [head |-> Start, unstaged |-> FALSE, staged |-> FALSE]
NoTask    == [mode |-> "read-only", providers |-> <<>>, fallback |-> FALSE]
Tasks     == [mode : MODES, providers : Seq(PROVIDERS), fallback : BOOLEAN]

\* Why an attempt ended, as its record says.
Reasons  == {"success", "timeout", "unavailable", "protocol_error", "worker_error",
             "workspace_changed"} \cup {Families[k] : k \in DOMAIN Families}
Attempts == [provider : PROVIDERS, outcome : Outcomes, reason : Reasons]

\* What the constants have to satisfy; MCBroker has TLC check it of its instances.
BrokerAssumption ==
    /\ NoBroker \notin Brokers /\ Start \in Contents
    /\ \A raw \in RawTasks : raw.fallback \in BOOLEAN /\ raw.providers \in Seq(STRING)
    /\ Outcomes \subseteq ProcessEnds

Final   == {"completed", "blocked", "failed", "interrupted"}
Pcs     == {"idle", "info", "info_status", "admit", "lease", "recheck", "recheck_status",
            "compare", "begin", "attempt", "starting", "running", "stopping", "after", "after_status", "judge",
            "result", "status", "event", "persist", "persist_status", "release", "over"}
\* Inside the try block of _run_task_impl.
Guarded == Pcs \ {"idle", "info", "info_status", "admit", "lease", "release", "over"}

TypeOK ==
    /\ {tree, index, head} \subseteq Contents
    /\ lease \in Brokers \cup {NoBroker}
    /\ worker \subseteq Brokers
    /\ pc \in [Brokers -> Pcs]
    /\ task \in [Brokers -> Tasks]
    /\ base \in [Brokers -> Snapshots] /\ look \in [Brokers -> Snapshots]
    /\ attempts \in [Brokers -> Seq(Attempts)]
    /\ status \in [Brokers -> Final \cup {"none", "running"}]
    /\ result \in [Brokers -> Final \cup {"none"}]
    /\ fate \in [Brokers -> {"none", "refused", "returned", "interrupted", "cut", "error", "killed"}]
    /\ {outside, interrupts, errors} \subseteq Nat

Init ==
    /\ tree = Start /\ index = Start /\ head = Start
    /\ lease = NoBroker /\ worker = {}
    /\ pc = [b \in Brokers |-> "idle"] /\ task = [b \in Brokers |-> NoTask]
    /\ base = [b \in Brokers |-> NoLook] /\ look = [b \in Brokers |-> NoLook]
    /\ attempts = [b \in Brokers |-> <<>>]
    /\ status = [b \in Brokers |-> "none"] /\ result = [b \in Brokers |-> "none"]
    /\ fate = [b \in Brokers |-> "none"]
    /\ edits = 0 /\ outside = 0 /\ interrupts = 0 /\ errors = 0 /\ kills = 0

Goto(b, p)  == pc' = [pc EXCEPT ![b] = p]
Ends(b, f)  == Goto(b, "over") /\ fate' = [fate EXCEPT ![b] = f]
-----------------------------------------------------------------------------
(* Before the lease.                                                        *)

\* _read_json_file and _validate_task; an invalid file ends the run.
StartRun(b) ==
    /\ pc[b] = "idle"
    /\ \E raw \in RawTasks :
         IF _validate_task(raw)
         THEN /\ task' = [task EXCEPT ![b] = [mode |-> raw.mode, providers |-> raw.providers,
                                              fallback |-> raw.fallback]]
              /\ Goto(b, "info") /\ UNCHANGED fate
         ELSE Ends(b, "refused") /\ UNCHANGED task
    /\ UNCHANGED <<git, lease, worker, base, look, attempts, files, bounds>>

\* The two Git calls of a snapshot.  Others may change the worktree in between.
ReadHead(b, from, to) ==
    /\ pc[b] = from
    /\ look' = [look EXCEPT ![b].head = head]
    /\ Goto(b, to)
    /\ UNCHANGED <<git, lease, worker, task, base, attempts, files, fate, bounds>>

ReadStatus(b, from, to) ==
    /\ pc[b] = from
    /\ look' = [look EXCEPT ![b].unstaged = Snapshot.unstaged, ![b].staged = Snapshot.staged]
    /\ Goto(b, to)
    /\ UNCHANGED <<git, lease, worker, task, base, attempts, files, fate, bounds>>

Inspect(b) ==
    \/ ReadHead(b, "info", "info_status")
    \/ ReadStatus(b, "info_status", "admit")

\* base_commit, provider configuration, linked and clean worktree, state root.
Admit(b) ==
    /\ pc[b] = "admit"
    /\ base' = [base EXCEPT ![b] = look[b]]
    /\ \/ Ends(b, "refused")
       \/ /\ task[b].mode = "workspace-write" => Clean(look[b])
          /\ Goto(b, "lease") /\ UNCHANGED fate
    /\ UNCHANGED <<git, lease, worker, task, look, attempts, files, bounds>>

\* Mutant: the lease file is written without locking it.
TakeLeaseUnlocked(b) ==
    /\ pc[b] = "lease"
    /\ lease' = b /\ Goto(b, "recheck")
    /\ UNCHANGED <<git, worker, task, base, look, attempts, files, fate, bounds>>

\* flock with LOCK_NB: the loser is refused, it does not wait.
TakeLease(b) ==
    /\ pc[b] = "lease"
    /\ \/ /\ lease = NoBroker
          /\ lease' = b /\ Goto(b, "recheck") /\ UNCHANGED fate
       \/ /\ lease # NoBroker
          /\ Ends(b, "refused") /\ UNCHANGED lease
    /\ UNCHANGED <<git, worker, task, base, look, attempts, files, bounds>>
-----------------------------------------------------------------------------
(* Under the lease.                                                         *)

Recheck(b) ==
    \/ ReadHead(b, "recheck", "recheck_status")
    \/ ReadStatus(b, "recheck_status", "compare")

\* workspace_changed_before_start.
Compare(b) ==
    /\ pc[b] = "compare"
    /\ \/ /\ look[b] = base[b]
          /\ Goto(b, "begin") /\ UNCHANGED fate
       \/ /\ look[b] # base[b]
          /\ Goto(b, "release") /\ fate' = [fate EXCEPT ![b] = "error"]
    /\ UNCHANGED <<git, lease, worker, task, base, look, attempts, files, bounds>>

\* The run directory with prompt, task, and a status that says running.
Begin(b) ==
    /\ pc[b] = "begin"
    /\ status' = [status EXCEPT ![b] = "running"]
    /\ Goto(b, "attempt")
    /\ UNCHANGED <<git, lease, worker, task, base, look, attempts, result, fate, bounds>>

\* attempt.started, status, then _attempt up to the start of the process (Popen).
\* A provider that cannot be started ends at once as unavailable.
StartAttempt(b) ==
    /\ pc[b] = "attempt"
    /\ worker' = worker \cup {b}
    /\ Goto(b, "starting")
    /\ UNCHANGED <<git, lease, task, base, look, attempts, files, fate, bounds>>

\* _invoke has started its reader and writer threads and enters its try block.
EnterInvoke(b) ==
    /\ pc[b] = "starting"
    /\ Goto(b, "running")
    /\ UNCHANGED <<git, lease, worker, task, base, look, attempts, files, fate, bounds>>

\* The process ended, timed out or was stopped: _invoke enters its finally clause.
LeaveInvoke(b) ==
    /\ pc[b] = "running"
    /\ Goto(b, "stopping")
    /\ UNCHANGED <<git, lease, worker, task, base, look, attempts, files, fate, bounds>>

\* _invoke returns after it terminated the process group; _attempt classifies.
FinishAttempt(b) ==
    LET provider == Candidates(task[b])[Len(attempts[b]) + 1] IN
    /\ pc[b] = "stopping"
    /\ worker' = worker \ {b}
    /\ \E p \in Outcomes :
         attempts' = [attempts EXCEPT ![b] = Append(@,
                        [provider |-> provider, outcome |-> p, reason |-> Classify(provider, p)])]
    /\ Goto(b, "after")
    /\ UNCHANGED <<git, lease, task, base, look, files, fate, bounds>>

LookAfter(b) ==
    \/ ReadHead(b, "after", "after_status")
    \/ ReadStatus(b, "after_status", "judge")

Changed(b) == look[b] # base[b]

\* Mutant: a failed write is not compared with the baseline.
ViolatesTrusting(b, ok) ==
    IF task[b].mode = "read-only" THEN FALSE
    ELSE ok /\ (look[b].head # base[b].head \/ _has_index_changes(look[b]))

\* What the attempt left in the worktree overrules what the provider said.
Violates(b, ok) ==
    IF task[b].mode = "read-only" THEN Changed(b)
    ELSE IF ok THEN look[b].head # base[b].head \/ _has_index_changes(look[b])
    ELSE Changed(b)

\* Mutant: any failure of a reader moves on to the next provider.
FallsBackAlways(b, reason) ==
    /\ task[b].mode = "read-only"
    /\ Len(attempts[b]) < Len(Candidates(task[b]))

\* Only a known cause, in a reader that changed nothing, moves to the next one.
FallsBack(b, reason) ==
    /\ reason \in FALLBACK_REASONS
    /\ task[b].mode = "read-only" /\ ~Changed(b)
    /\ Len(attempts[b]) < Len(Candidates(task[b]))

LastReason(b) == attempts[b][Len(attempts[b])].reason

\* The recorded attempt, attempt.finished and the decision to go on.
Judge(b) ==
    LET said   == LastReason(b)
        reason == IF Violates(b, said = "success") THEN "workspace_changed" ELSE said
    IN
    /\ pc[b] = "judge"
    /\ attempts' = [attempts EXCEPT ![b][Len(attempts[b])].reason = reason]
    /\ Goto(b, IF reason # "success" /\ FallsBack(b, reason) THEN "attempt" ELSE "result")
    /\ UNCHANGED <<git, lease, worker, task, base, look, files, fate, bounds>>

Verdict(reason) ==
    CASE reason = "success" -> "completed"
      [] reason = "workspace_changed" -> "blocked"
      [] OTHER -> "failed"

WriteResult(b) ==
    /\ pc[b] = "result"
    /\ result' = [result EXCEPT ![b] = Verdict(LastReason(b))]
    /\ Goto(b, "status")
    /\ UNCHANGED <<git, lease, worker, task, base, look, attempts, status, fate, bounds>>

WriteStatus(b) ==
    /\ pc[b] = "status"
    /\ status' = [status EXCEPT ![b] = Verdict(LastReason(b))]
    /\ Goto(b, "event")
    /\ UNCHANGED <<git, lease, worker, task, base, look, attempts, result, fate, bounds>>

\* run.finished is logged and the result returned.
ReturnResult(b) ==
    /\ pc[b] = "event"
    /\ Goto(b, "release") /\ fate' = [fate EXCEPT ![b] = "returned"]
    /\ UNCHANGED <<git, lease, worker, task, base, look, attempts, files, bounds>>

\* Mutant: only a run that returned gives the lease back.
ReleaseReturned(b) ==
    /\ pc[b] = "release"
    /\ lease' = IF fate[b] = "returned" THEN NoBroker ELSE lease
    /\ Goto(b, "over")
    /\ UNCHANGED <<git, worker, task, base, look, attempts, files, fate, bounds>>

\* The finally clause.
Release(b) ==
    /\ pc[b] = "release"
    /\ lease' = IF lease = b THEN NoBroker ELSE lease
    /\ Goto(b, "over")
    /\ UNCHANGED <<git, worker, task, base, look, attempts, files, fate, bounds>>
-----------------------------------------------------------------------------
(* What goes wrong.                                                         *)

AfterInterrupt(b) ==
    Goto(b, IF pc[b] \notin Guarded THEN "over"
            ELSE IF pc[b] \in {"persist", "persist_status"} THEN "release" ELSE "persist")

\* Where an exception leaves _invoke without the provider being stopped: between
\* Popen and the try block nothing catches it, and in the finally clause, whose
\* handler is restored by then, it leaves _terminate_process before that is through.
Exposed == {"starting", "stopping"}

\* SIGINT or SIGTERM: in the try block of _invoke the handler or the except clause
\* terminates the group; in that of _run_task_impl the run is recorded as interrupted;
\* a second one while recording goes straight to the finally clause.
Interrupt(b) ==
    /\ pc[b] \in Pcs \ ({"idle", "release", "over"} \cup Exposed)
    /\ interrupts < MaxInterrupts /\ interrupts' = interrupts + 1
    /\ worker' = IF pc[b] = "running" THEN worker \ {b} ELSE worker
    /\ fate' = [fate EXCEPT ![b] = IF @ = "cut" THEN @ ELSE "interrupted"]
    /\ AfterInterrupt(b)
    /\ UNCHANGED <<git, lease, task, base, look, attempts, files, edits, outside, errors, kills>>

\* The same where _invoke is exposed: the provider may live on.
InterruptExposed(b) ==
    /\ pc[b] \in Exposed
    /\ interrupts < MaxInterrupts /\ interrupts' = interrupts + 1
    /\ worker' \in {worker, worker \ {b}}
    /\ fate' = [fate EXCEPT ![b] = "cut"]
    /\ AfterInterrupt(b)
    /\ UNCHANGED <<git, lease, task, base, look, attempts, files, edits, outside, errors, kills>>

\* _persist_interrupted_run: result, then status.
PersistInterrupted(b) ==
    \/ /\ pc[b] = "persist"
       /\ result' = [result EXCEPT ![b] = "interrupted"]
       /\ Goto(b, "persist_status")
       /\ UNCHANGED <<git, lease, worker, task, base, look, attempts, status, fate, bounds>>
    \/ /\ pc[b] = "persist_status"
       /\ status' = [status EXCEPT ![b] = "interrupted"]
       /\ Goto(b, "release")
       /\ UNCHANGED <<git, lease, worker, task, base, look, attempts, result, fate, bounds>>

\* A Git call or a write raises, or _invoke cannot start a thread (the provider,
\* started before, lives on): no record is made of it.
Raise(b) ==
    /\ pc[b] \in (Guarded \ {"compare", "judge", "running", "stopping"})
                  \cup {"info", "info_status", "lease"}
    /\ errors < MaxErrors /\ errors' = errors + 1
    /\ fate' = [fate EXCEPT ![b] = IF @ = "cut" \/ pc[b] \in Exposed THEN "cut" ELSE "error"]
    /\ Goto(b, IF pc[b] \in Guarded THEN "release" ELSE "over")
    /\ UNCHANGED <<git, lease, worker, task, base, look, attempts, files, edits, outside,
                   interrupts, kills>>

\* SIGKILL: the kernel drops the flock, the provider's session lives on.
Kill(b) ==
    /\ pc[b] \notin {"idle", "over"}
    /\ kills < MaxKills /\ kills' = kills + 1
    /\ lease' = IF lease = b THEN NoBroker ELSE lease
    /\ Ends(b, "killed")
    /\ UNCHANGED <<git, worker, task, base, look, attempts, files, edits, outside, interrupts,
                   errors>>

\* A provider whose broker was killed or cut off from it ends by itself.
OrphanEnds(b) ==
    /\ b \in worker /\ fate[b] \in {"killed", "cut"}
    /\ worker' = worker \ {b}
    /\ UNCHANGED <<git, lease, pc, task, base, look, attempts, files, fate, bounds>>

\* Edit, git add, git commit.
ChangeTree ==
    \/ \E c \in Contents \ {tree} : tree' = c /\ UNCHANGED <<index, head>>
    \/ index # tree /\ index' = tree /\ UNCHANGED <<tree, head>>
    \/ head # index /\ head' = index /\ UNCHANGED <<tree, index>>

WorkerChanges ==
    /\ worker # {}
    /\ edits < MaxEdits /\ edits' = edits + 1
    /\ ChangeTree
    /\ UNCHANGED <<lease, worker, pc, task, base, look, attempts, files, fate, outside,
                   interrupts, errors, kills>>

SomebodyChanges ==
    /\ outside < MaxOutside /\ outside' = outside + 1
    /\ ChangeTree
    /\ UNCHANGED <<lease, worker, pc, task, base, look, attempts, files, fate, edits,
                   interrupts, errors, kills>>

Step(b) ==
    \/ Inspect(b) \/ Admit(b) \/ TakeLease(b) \/ Recheck(b) \/ Compare(b) \/ Begin(b)
    \/ StartAttempt(b) \/ EnterInvoke(b) \/ LeaveInvoke(b) \/ FinishAttempt(b)
    \/ LookAfter(b) \/ Judge(b) \/ WriteResult(b) \/ WriteStatus(b)
    \/ ReturnResult(b) \/ Release(b) \/ PersistInterrupted(b)

Disturb(b) == Interrupt(b) \/ InterruptExposed(b) \/ Raise(b) \/ Kill(b)
Worktree == WorkerChanges \/ SomebodyChanges \/ \E b \in Brokers : OrphanEnds(b)

Next == (\E b \in Brokers : StartRun(b) \/ Step(b) \/ Disturb(b)) \/ Worktree

Spec == Init /\ [][Next]_vars

\* A broker process goes on; _invoke ends at the latest when its timeout passes.
FairSpec == Spec /\ \A b \in Brokers : WF_vars(Step(b))
-----------------------------------------------------------------------------
Quiet == outside = 0 /\ \A b \in Brokers : fate[b] \notin {"killed", "cut"}

\* Workers of one worktree are serialised: every provider works under the lease of
\* the broker that waits for it, unless that broker was killed, or an exception met
\* its _invoke where no handler stops the provider: before the try block, a signal
\* or an error, or a signal in the finally clause.  Any other interrupt or error
\* terminates the provider before the lease is free.
WorkersAreOwned ==
    \A b \in worker : \/ lease = b /\ pc[b] \in {"starting", "running", "stopping"}
                      \/ fate[b] \in {"killed", "cut"}

\* A run enters its first attempt only with the worktree it was admitted with
\* although it looked before it had the lease: a write on a clean one, unless
\* somebody changed it since the second look.
StartsFromBaseline ==
    \A b \in Brokers : pc[b] = "attempt" /\ attempts[b] = <<>> /\ Quiet => Snapshot = base[b]

\* A second provider never meets what the first one did: a writer never gets a
\* successor, a reader only when nothing that Git shows has changed, which on a
\* clean worktree is nothing at all.
FallbackMeetsBaseline ==
    \A b \in Brokers : pc[b] = "attempt" /\ Len(attempts[b]) = 1 =>
        /\ task[b].mode = "read-only"
        /\ Quiet => Snapshot = base[b] /\ (Clean(base[b]) => tree = base[b].head)

\* A second provider is tried only for one of the four causes, which the first
\* one's process really showed: it did not time out, flood its output, or end
\* well with garbled output.
FallbackHasACause ==
    \A b \in Brokers : Len(attempts[b]) = 2 \/ (pc[b] = "attempt" /\ attempts[b] # <<>>) =>
        LET p == attempts[b][1].outcome IN
        /\ ~p.timed_out /\ (p.overflow => p.unavailable)
        /\ p.unavailable \/ p.exit # 0 \/ p.errors \/ p.subtype = "budget"

\* A success is never read into a process that was stopped, failed or wrote
\* garbled output, nor, for codex and claude, one that reported an error.
SuccessIsEarned ==
    \A b \in Brokers : \A k \in DOMAIN attempts[b] :
        LET a == attempts[b][k] IN
        a.reason = "success" =>
            /\ ~Stopped(a.outcome) /\ a.outcome.exit = 0 /\ ~a.outcome.malformed
            /\ a.provider # "opencode" => ~a.outcome.errors

\* A run that reports completed left no commit and nothing staged, and as a
\* reader nothing at all; otherwise the report says blocked.
CompletedIsHarmless ==
    \A b \in Brokers : pc[b] \in {"result", "status"} /\ LastReason(b) = "success" /\ Quiet =>
        /\ head = base[b].head
        /\ task[b].mode = "workspace-write" => index = head
        /\ task[b].mode = "read-only" => Snapshot = base[b]

\* A run that is over is not recorded as running unless an error, a kill or a
\* second interrupt kept it from saying so, and its two files agree.
EndedRunsSaySo ==
    \A b \in Brokers :
        /\ pc[b] = "over" /\ interrupts <= 1
        /\ fate[b] \in {"returned", "interrupted"} \/ (fate[b] = "cut" /\ errors = 0)
        =>
        status[b] = result[b] /\ (fate[b] = "returned" => status[b] \in Final)

-----------------------------------------------------------------------------
(* What is true at every step of a run.                                     *)

Undecided == {"idle", "info", "info_status", "admit", "lease", "recheck", "recheck_status",
              "compare", "begin"}
Trying    == {"attempt", "starting", "running", "stopping"}
Judged    == {"after", "after_status", "judge", "result", "status", "event"}
Ending    == {"persist", "persist_status", "release", "over"}

\* The try block and its finally clause run under the lease; how the process
\* ends is not decided before the run does end.
Control(b) ==
    /\ pc[b] \in Guarded \cup {"release"} => lease = b
    /\ pc[b] \notin Ending => fate[b] = "none"
    /\ pc[b] \in {"persist", "persist_status"} => fate[b] \in {"interrupted", "cut"}
    /\ fate[b] = "killed" => pc[b] = "over"

\* Every attempt has a candidate and an outcome that its reason tells; a second
\* one had a cause.
Reasonable(b) ==
    /\ Len(attempts[b]) <= 2
    /\ pc[b] \notin {"idle", "over"} => Len(task[b].providers) \in 1..2
    /\ pc[b] \in Undecided => attempts[b] = <<>>
    /\ pc[b] \in Trying => Len(attempts[b]) < Len(Candidates(task[b]))
    /\ pc[b] \in Judged => attempts[b] # <<>>
    /\ \A k \in DOMAIN attempts[b] :
         LET a == attempts[b][k] IN
         a.reason \in {Classify(a.provider, a.outcome), "workspace_changed"}
    /\ Len(attempts[b]) = 2 \/ (pc[b] \in Trying /\ attempts[b] # <<>>) =>
         attempts[b][1].reason \in FALLBACK_REASONS /\ task[b].mode = "read-only"

\* What the two files say at each point.
Recorded(b) ==
    /\ pc[b] \in Undecided => status[b] = "none" /\ result[b] = "none"
    /\ pc[b] = "status" => result[b] = Verdict(LastReason(b))
    /\ pc[b] = "event" => status[b] = result[b] /\ status[b] \in Final
    /\ pc[b] \in {"persist", "persist_status"} => interrupts >= 1
    /\ pc[b] = "persist_status" => result[b] = "interrupted"
    /\ pc[b] \in {"release", "over"} =>
         /\ fate[b] = "returned" => status[b] = result[b] /\ status[b] \in Final
         /\ interrupts <= 1 /\ (fate[b] = "interrupted" \/ (fate[b] = "cut" /\ errors = 0)) =>
              status[b] = result[b]

\* What a run knows of the worktree while nobody else may change it.
Seen(b) ==
    /\ pc[b] \in {"recheck_status", "after_status"} => look[b].head = head
    /\ pc[b] \in {"compare", "judge", "result", "status"} => look[b] = Snapshot
    /\ pc[b] \in {"begin", "attempt"} => Snapshot = base[b]
    /\ pc[b] \in {"result", "status"} /\ LastReason(b) = "success" => ~Violates(b, TRUE)

IndInv ==
    /\ TypeOK /\ WorkersAreOwned
    /\ \A b \in Brokers : Control(b) /\ Reasonable(b) /\ Recorded(b) /\ (Quiet => Seen(b))

\* A run enters its first attempt with the worktree it was admitted with,
\* although it looked before it had the lease; a second provider never meets
\* what the first one did, and is tried only for a cause the first one's process
\* really showed (_run_task_impl, _classify_codex and its siblings).
BaselineIsMet == StartsFromBaseline /\ FallbackMeetsBaseline /\ FallbackHasACause

\* Reports are true: a success is never read into a process that was stopped or
\* failed, a run that reports completed left no commit and nothing staged, and a
\* run that is over says so in both of its files (_run_task_impl, _persist_result).
ReportsAreTrue == CompletedIsHarmless /\ EndedRunsSaySo /\ SuccessIsEarned
=============================================================================
