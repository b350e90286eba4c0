--------------------------- MODULE AgentBrokerProofs ---------------------------
(***************************************************************************)
(* Proofs about AgentBroker, for any number of brokers, tasks and outcomes, *)
(* and at the end about BrokerInvoke, the call of one provider.             *)
(* A step is one broker's: what it may do to the others is Frame, one lemma *)
(* per action shows Frame and what the broker itself knows afterwards, and  *)
(* FrameKeeps draws the conclusion for everybody.  The worktree is changed  *)
(* by providers and people only (WorktreeKeeps).                            *)
(***************************************************************************)
EXTENDS AgentBroker, BrokerInvoke, TLAPS

-----------------------------------------------------------------------------
(* How the end of a process is read *)

\* A text is never read as a success, and always as one of the known reasons.
LEMMA TextReasons ==
    ASSUME NEW phrases, NEW exit
    PROVE  _reason_from_text(phrases, exit) \in Reasons \ {"success", "workspace_changed"}
<1> DEFINE found == {k \in DOMAIN Families : Families[k] \in phrases}
<1>1. DOMAIN Families = 1..5
  BY DEF Families
<1>2. CASE found # {}
  <2>1. \E k \in found : \A l \in found : k <= l
    BY <1>1, <1>2
  <2>2. PICK k \in found : k = CHOOSE i \in found : \A l \in found : i <= l
    BY <2>1
  <2>3. _reason_from_text(phrases, exit) = Families[k]
    BY <1>2, <2>2 DEF _reason_from_text
  <2>4. k \in 1..5
    BY <1>1
  <2> QED BY <2>3, <2>4, <1>1 DEF Families, Reasons
<1>3. CASE found = {}
  <2>1. _reason_from_text(phrases, exit) \in {"unavailable", "worker_error"}
    BY <1>3 DEF _reason_from_text
  <2> QED BY <2>1 DEF Reasons
<1> QED BY <1>2, <1>3

\* _classify_codex, _classify_claude and _classify_opencode: a success is not
\* read into a process that was stopped or failed; a cause for a fallback shows.
LEMMA ClassifyIsHonest ==
    ASSUME NEW provider \in PROVIDERS, NEW p \in ProcessEnds
    PROVE  /\ Classify(provider, p) \in Reasons \ {"workspace_changed"}
           /\ Classify(provider, p) = "success" =>
                /\ ~Stopped(p) /\ p.exit = 0 /\ ~p.malformed
                /\ provider # "opencode" => ~p.errors
           /\ Classify(provider, p) \in FALLBACK_REASONS =>
                /\ ~p.timed_out /\ (p.overflow => p.unavailable)
                /\ p.unavailable \/ p.exit # 0 \/ p.errors \/ p.subtype = "budget"
<1> DEFINE c == Classify(provider, p)
<1>1. /\ {p.timed_out, p.unavailable, p.overflow, p.errors, p.completed, p.message,
          p.malformed, p.noisy} \subseteq BOOLEAN
      /\ p.exit \in Int
  BY DEF ProcessEnds
<1>2. CASE Stopped(p)
  <2>1. c = StopReason(p)
    BY <1>2 DEF Classify
  <2> QED BY <2>1, <1>1, <1>2 DEF StopReason, Stopped, Reasons, FALLBACK_REASONS
<1>3. CASE ~Stopped(p) /\ provider = "codex"
  <2>1. c = _classify_codex(p)
    BY <1>3 DEF Classify
  <2>2. CASE p.exit # 0 \/ p.errors
    <3>1. c \in Reasons \ {"success", "workspace_changed"}
      BY <2>1, <2>2, TextReasons DEF _classify_codex, _codex_failure_reason
    <3> QED BY <3>1, <2>2, <1>1, <1>3 DEF Stopped
  <2>3. CASE ~(p.exit # 0 \/ p.errors)
    <3>1. c = IF p.malformed \/ ~p.completed \/ ~p.message THEN "protocol_error" ELSE "success"
      BY <2>1, <2>3 DEF _classify_codex
    <3> QED BY <3>1, <2>3, <1>1, <1>3 DEF Stopped, Reasons, FALLBACK_REASONS
  <2> QED BY <2>2, <2>3
<1>4. CASE ~Stopped(p) /\ provider = "claude"
  <2>1. c = _classify_claude(p)
    BY <1>4 DEF Classify
  <2> DEFINE limits == {"turn_limit", "budget"}
  <2>2. CASE p.exit # 0 \/ ~p.completed \/ p.errors
    <3>1. CASE p.completed /\ p.subtype \in limits
      <4>1. c = p.subtype
        BY <3>1, <2>1, <2>2 DEF _classify_claude
      <4>2. Reasons = {"success", "timeout", "unavailable", "protocol_error", "worker_error",
                       "workspace_changed"} \cup {"quota", "auth", "budget", "turn_limit"}
        BY DEF Reasons, Families
      <4> QED BY <4>1, <4>2, <3>1, <1>1, <1>4 DEF Stopped, FALLBACK_REASONS
    <3>2. CASE p.completed /\ p.subtype \notin limits /\ p.message
      <4>1. c = _reason_from_text(p.codes, p.exit)
        BY <3>2, <2>1, <2>2 DEF _classify_claude
      <4>2. c \in Reasons \ {"success", "workspace_changed"}
        BY <4>1, TextReasons
      <4> QED BY <4>2, <3>2, <2>2, <1>1, <1>4 DEF Stopped
    <3>3. CASE ~(p.completed /\ (p.subtype \in limits \/ p.message))
      <4>1. c = IF p.exit \in NotExecutable THEN "unavailable" ELSE "worker_error"
        BY <3>3, <2>1, <2>2 DEF _classify_claude
      <4> QED BY <4>1, <1>1, <1>4 DEF Stopped, Reasons, FALLBACK_REASONS, NotExecutable
    <3> QED BY <3>1, <3>2, <3>3
  <2>3. CASE ~(p.exit # 0 \/ ~p.completed \/ p.errors)
    <3>1. c = CASE p.subtype \in limits -> p.subtype
                [] p.subtype = "success" /\ ~p.malformed -> "success"
                [] OTHER -> "protocol_error"
      BY <2>1, <2>3 DEF _classify_claude
    <3>2. Reasons = {"success", "timeout", "unavailable", "protocol_error", "worker_error",
                     "workspace_changed"} \cup {"quota", "auth", "budget", "turn_limit"}
      BY DEF Reasons, Families
    <3> QED BY <3>1, <3>2, <2>3, <1>1, <1>4 DEF Stopped, FALLBACK_REASONS
  <2> QED BY <2>2, <2>3
<1>5. CASE ~Stopped(p) /\ provider = "opencode"
  <2>1. c = _classify_opencode(p)
    BY <1>5 DEF Classify
  <2>2. CASE p.exit # 0
    <3>1. c = _opencode_failure_reason(p)
      BY <2>1, <2>2 DEF _classify_opencode
    <3>2. c \in Reasons \ {"success", "workspace_changed"}
      BY <3>1, TextReasons DEF _opencode_failure_reason, Reasons
    <3> QED BY <3>2, <2>2, <1>1, <1>5 DEF Stopped
  <2>3. CASE p.exit = 0
    <3>1. c = IF p.malformed THEN "protocol_error" ELSE "success"
      BY <2>1, <2>3 DEF _classify_opencode
    <3> QED BY <3>1, <2>3, <1>1, <1>5 DEF Stopped, Reasons, FALLBACK_REASONS
  <2> QED BY <2>2, <2>3, <1>1
<1> QED BY <1>2, <1>3, <1>4, <1>5 DEF PROVIDERS

\* An accepted task has one or two candidates, all of them providers.
LEMMA CandidatesOf ==
    ASSUME NEW t \in Tasks, Len(t.providers) \in 1..2
    PROVE  /\ Candidates(t) \in Seq(PROVIDERS)
           /\ Len(Candidates(t)) \in 1..2
<1>1. t.providers \in Seq(PROVIDERS) /\ t.fallback \in BOOLEAN
  BY DEF Tasks
<1>2. SubSeq(t.providers, 1, 1) \in Seq(PROVIDERS) /\ Len(SubSeq(t.providers, 1, 1)) = 1
  BY <1>1
<1> QED BY <1>1, <1>2 DEF Candidates

-----------------------------------------------------------------------------
(* One broker's step, and the others *)

OwnedBy(b) ==
    b \in worker => \/ lease = b /\ pc[b] \in {"starting", "running", "stopping"}
                    \/ fate[b] \in {"killed", "cut"}

\* What the invariant says of one broker.
Mine(b) == OwnedBy(b) /\ Control(b) /\ Reasonable(b) /\ Recorded(b) /\ (Quiet => Seen(b))

\* What a step of broker b leaves alone.
Frame(b) ==
    /\ \A c \in Brokers \ {b} :
         /\ pc'[c] = pc[c] /\ task'[c] = task[c] /\ base'[c] = base[c] /\ look'[c] = look[c]
         /\ attempts'[c] = attempts[c] /\ status'[c] = status[c] /\ result'[c] = result[c]
         /\ fate'[c] = fate[c]
         /\ c \in worker' <=> c \in worker
         /\ lease' = c <=> lease = c
    /\ UNCHANGED git
    /\ outside' = outside /\ interrupts' >= interrupts /\ errors' >= errors
    /\ fate[b] \in {"killed", "cut"} => fate'[b] \in {"killed", "cut"}

LEMMA MineOfAll == IndInv <=> TypeOK /\ \A b \in Brokers : Mine(b)
<1>1. TypeOK => (WorkersAreOwned <=> \A b \in Brokers : OwnedBy(b))
  BY DEF TypeOK, WorkersAreOwned, OwnedBy
<1> QED BY <1>1, Zenon DEF IndInv, Mine

LEMMA MineOfAllNext == (IndInv <=> TypeOK /\ \A b \in Brokers : Mine(b))'
BY MineOfAll, PTL

LEMMA QuietBefore ==
    ASSUME NEW b \in Brokers, Frame(b), Quiet'
    PROVE  Quiet
<1>1. outside = 0
  BY DEF Frame, Quiet
<1>2. ASSUME NEW c \in Brokers PROVE fate[c] \notin {"killed", "cut"}
  BY <1>2 DEF Frame, Quiet
<1> QED BY <1>1, <1>2 DEF Quiet

\* Nothing of what the others know depends on what Frame lets a step do.
LEMMA FrameKeeps ==
    ASSUME IndInv, NEW b \in Brokers, Frame(b), TypeOK', Mine(b)'
    PROVE  IndInv'
<1>1. {interrupts, errors, interrupts', errors'} \subseteq Nat
  BY DEF IndInv, TypeOK
<1>2. ASSUME NEW c \in Brokers, c # b PROVE Mine(c)'
  <2>1. Mine(c)
    BY MineOfAll
  <2>2. /\ pc'[c] = pc[c] /\ task'[c] = task[c] /\ base'[c] = base[c] /\ look'[c] = look[c]
        /\ attempts'[c] = attempts[c] /\ status'[c] = status[c] /\ result'[c] = result[c]
        /\ fate'[c] = fate[c]
        /\ c \in worker' <=> c \in worker
        /\ lease' = c <=> lease = c
        /\ tree' = tree /\ index' = index /\ head' = head
        /\ interrupts' >= interrupts /\ errors' >= errors
    BY <1>2 DEF Frame, git
  <2>3. OwnedBy(c)' /\ Control(c)'
    BY <2>1, <2>2 DEF Mine, OwnedBy, Control
  <2>4. Reasonable(c)'
    <3>1. Reasonable(c)
      BY <2>1 DEF Mine
    <3> QED BY <3>1, <2>2 DEF Reasonable
  <2>5. Recorded(c)'
    <3>1. Recorded(c)
      BY <2>1 DEF Mine
    <3> QED BY <3>1, <2>2, <1>1 DEF Recorded, LastReason
  <2>6. ASSUME Quiet' PROVE Seen(c)'
    <3>1. Seen(c)
      BY <2>1, <2>6, QuietBefore DEF Mine
    <3>2. Snapshot' = Snapshot
      BY <2>2 DEF Snapshot
    <3> QED BY <3>1, <3>2, <2>2 DEF Seen, LastReason, Violates, Changed, _has_index_changes
  <2> QED BY <2>3, <2>4, <2>5, <2>6 DEF Mine
<1>3. \A c \in Brokers : Mine(c)'
  BY <1>2
<1>4. (IndInv <=> TypeOK /\ \A c \in Brokers : Mine(c))'
  BY MineOfAllNext
<1> QED BY <1>3, <1>4

-----------------------------------------------------------------------------
(* Types *)

LEMMA TypeKept ==
    ASSUME BrokerAssumption, IndInv, NEW b \in Brokers, StartRun(b) \/ Step(b) \/ Disturb(b)
    PROVE  TypeOK'
<1> USE DEF TypeOK, Goto, Ends, git, files, bounds
<1>1. TypeOK /\ Reasonable(b)
  BY DEF IndInv
<1>2. CASE StartRun(b)
  <2>1. ASSUME NEW raw \in RawTasks, _validate_task(raw)
        PROVE  [mode |-> raw.mode, providers |-> raw.providers,
                fallback |-> raw.fallback] \in Tasks
    <3>1. raw.providers \in Seq(PROVIDERS)
      BY <2>1 DEF _validate_task, BrokerAssumption
    <3> QED BY <2>1, <3>1 DEF _validate_task, BrokerAssumption, Tasks
  <2>2. task' \in [Brokers -> Tasks]
    BY <1>1, <1>2, <2>1 DEF StartRun
  <2>3. pc' \in [Brokers -> Pcs]
    <3>1. \E p \in {"info", "over"} : pc' = [pc EXCEPT ![b] = p]
      BY <1>2 DEF StartRun
    <3> QED BY <1>1, <3>1 DEF Pcs
  <2> QED BY <1>1, <1>2, <2>2, <2>3 DEF StartRun
<1>3. ASSUME NEW from \in Pcs, NEW to \in Pcs,
             ReadHead(b, from, to) \/ ReadStatus(b, from, to)
      PROVE  TypeOK'
  <2>1. look' \in [Brokers -> Snapshots]
    <3>1. CASE ReadHead(b, from, to)
      <4>1. look' = [look EXCEPT ![b] = [look[b] EXCEPT !.head = head]]
        BY <3>1 DEF ReadHead
      <4>2. [look[b] EXCEPT !.head = head] \in Snapshots
        BY <1>1 DEF Snapshots
      <4> QED BY <4>1, <4>2, <1>1
    <3>2. CASE ReadStatus(b, from, to)
      <4>1. look' = [look EXCEPT ![b] = [look[b] EXCEPT !.unstaged = tree # index,
                                                        !.staged = index # head]]
        BY <3>2, <1>1 DEF ReadStatus, Snapshot
      <4>2. [look[b] EXCEPT !.unstaged = tree # index, !.staged = index # head] \in Snapshots
        BY <1>1 DEF Snapshots
      <4> QED BY <4>1, <4>2, <1>1
    <3> QED BY <1>3, <3>1, <3>2
  <2>2. /\ pc' = [pc EXCEPT ![b] = to]
        /\ UNCHANGED <<tree, index, head, lease, worker, task, base, attempts, status, result,
                       fate, outside, interrupts, errors>>
    BY <1>3 DEF ReadHead, ReadStatus
  <2> QED BY <1>1, <2>1, <2>2
<1>4. CASE Inspect(b) \/ Recheck(b) \/ LookAfter(b)
  BY <1>3, <1>4 DEF Inspect, Recheck, LookAfter, Pcs
<1>5. CASE Admit(b) \/ Compare(b) \/ Begin(b) \/ EnterInvoke(b) \/ LeaveInvoke(b)
         \/ ReturnResult(b)
  <2>1. CASE Admit(b)
    BY <1>1, <2>1 DEF Admit, Pcs
  <2>2. CASE Compare(b)
    BY <1>1, <2>2 DEF Compare, Pcs
  <2>3. CASE Begin(b)
    BY <1>1, <2>3 DEF Begin, Pcs
  <2>4. CASE EnterInvoke(b) \/ LeaveInvoke(b)
    <3>1. /\ pc' \in {[pc EXCEPT ![b] = "running"], [pc EXCEPT ![b] = "stopping"]}
          /\ UNCHANGED <<tree, index, head, lease, worker, task, base, look, attempts, status,
                         result, fate, outside, interrupts, errors>>
      BY <2>4 DEF EnterInvoke, LeaveInvoke
    <3>2. {"running", "stopping"} \subseteq Pcs
      BY DEF Pcs
    <3>3. pc' \in [Brokers -> Pcs]
      BY <1>1, <3>1, <3>2
    <3> QED BY <1>1, <3>1, <3>3
  <2>5. CASE ReturnResult(b)
    BY <1>1, <2>5 DEF ReturnResult, Pcs
  <2> QED BY <1>5, <2>1, <2>2, <2>3, <2>4, <2>5
<1>6. CASE TakeLease(b) \/ StartAttempt(b) \/ Release(b) \/ PersistInterrupted(b)
  <2>1. CASE TakeLease(b)
    BY <1>1, <2>1 DEF TakeLease, Pcs
  <2>2. CASE StartAttempt(b)
    BY <1>1, <2>2 DEF StartAttempt, Pcs
  <2>3. CASE Release(b)
    BY <1>1, <2>3 DEF Release, Pcs
  <2>4. CASE PersistInterrupted(b)
    <3>1. /\ result' \in {result, [result EXCEPT ![b] = "interrupted"]}
          /\ status' \in {status, [status EXCEPT ![b] = "interrupted"]}
          /\ pc' \in {[pc EXCEPT ![b] = "persist_status"], [pc EXCEPT ![b] = "release"]}
          /\ UNCHANGED <<tree, index, head, lease, worker, task, base, look, attempts, fate,
                         outside, interrupts, errors>>
      BY <2>4 DEF PersistInterrupted
    <3>2. "interrupted" \in Final /\ {"persist_status", "release"} \subseteq Pcs
      BY DEF Final, Pcs
    <3>3. result' \in [Brokers -> Final \cup {"none"}]
      BY <1>1, <3>1, <3>2
    <3>4. status' \in [Brokers -> Final \cup {"none", "running"}]
      BY <1>1, <3>1, <3>2
    <3>5. pc' \in [Brokers -> Pcs]
      BY <1>1, <3>1, <3>2
    <3> QED BY <1>1, <3>1, <3>3, <3>4, <3>5
  <2> QED BY <1>6, <2>1, <2>2, <2>3, <2>4
<1>7. CASE FinishAttempt(b)
  <2>1. Candidates(task[b])[Len(attempts[b]) + 1] \in PROVIDERS
    <3>1. Candidates(task[b]) \in Seq(PROVIDERS)
      BY <1>1, <1>7, CandidatesOf DEF FinishAttempt, Reasonable
    <3>2. Len(attempts[b]) < Len(Candidates(task[b])) /\ Len(attempts[b]) \in Nat
      BY <1>1, <1>7 DEF FinishAttempt, Reasonable, Trying
    <3> QED BY <3>1, <3>2
  <2> DEFINE provider == Candidates(task[b])[Len(attempts[b]) + 1]
  <2>2. PICK p \in Outcomes :
          attempts' = [attempts EXCEPT ![b] = Append(@,
                        [provider |-> provider, outcome |-> p, reason |-> Classify(provider, p)])]
    BY <1>7 DEF FinishAttempt
  <2>3. Classify(provider, p) \in Reasons
    BY <2>1, ClassifyIsHonest DEF BrokerAssumption
  <2>4. [provider |-> provider, outcome |-> p, reason |-> Classify(provider, p)] \in Attempts
    BY <2>1, <2>3 DEF Attempts
  <2> HIDE DEF provider
  <2>5. attempts' \in [Brokers -> Seq(Attempts)]
    BY <1>1, <2>2, <2>4
  <2>6. pc' \in [Brokers -> Pcs] /\ worker' \subseteq Brokers
    BY <1>1, <1>7 DEF FinishAttempt, Pcs
  <2> QED BY <1>1, <1>7, <2>5, <2>6 DEF FinishAttempt
<1>8. CASE Judge(b)
  <2> DEFINE n == Len(attempts[b])
  <2>1. PICK reason : /\ reason \in {LastReason(b), "workspace_changed"}
                      /\ attempts' = [attempts EXCEPT ![b][n].reason = reason]
    BY <1>8 DEF Judge
  <2>2. attempts[b] \in Seq(Attempts) /\ n \in 1..n
    BY <1>1, <1>8 DEF Judge, Reasonable, Judged
  <2>3. attempts[b][n] \in Attempts
    BY <2>2
  <2>4. LastReason(b) \in Reasons /\ "workspace_changed" \in Reasons
    BY <2>3 DEF LastReason, Attempts, Reasons
  <2>5. [attempts[b][n] EXCEPT !.reason = reason] \in Attempts
    <3>1. PICK a : a = attempts[b][n]
      OBVIOUS
    <3>2. [a EXCEPT !.reason = reason] \in Attempts
      BY <3>1, <2>1, <2>3, <2>4 DEF Attempts
    <3> QED BY <3>1, <3>2
  <2>6. PICK last : last = [attempts[b][n] EXCEPT !.reason = reason]
    OBVIOUS
  <2>7. attempts' = [attempts EXCEPT ![b] = [attempts[b] EXCEPT ![n] = last]]
    BY <2>1, <2>6
  <2>8. [attempts[b] EXCEPT ![n] = last] \in Seq(Attempts)
    BY <2>2, <2>5, <2>6
  <2>9. attempts' \in [Brokers -> Seq(Attempts)]
    BY <1>1, <2>7, <2>8
  <2>10. /\ pc' \in [Brokers -> Pcs]
         /\ UNCHANGED <<tree, index, head, lease, worker, task, base, look, status, result,
                        fate, outside, interrupts, errors>>
    <3>1. \E p \in {"attempt", "result"} : pc' = [pc EXCEPT ![b] = p]
      BY <1>8 DEF Judge
    <3>2. {"attempt", "result"} \subseteq Pcs
      BY DEF Pcs
    <3> QED BY <1>1, <1>8, <3>1, <3>2 DEF Judge
  <2> QED BY <1>1, <2>9, <2>10
<1>9. CASE WriteResult(b) \/ WriteStatus(b)
  <2>1. \A reason : Verdict(reason) \in Final
    BY DEF Verdict, Final
  <2>2. PICK v : v = Verdict(LastReason(b))
    OBVIOUS
  <2>3. v \in Final
    BY <2>1, <2>2
  <2>4. CASE WriteResult(b)
    BY <1>1, <2>2, <2>3, <2>4 DEF WriteResult, Pcs
  <2>5. CASE WriteStatus(b)
    BY <1>1, <2>2, <2>3, <2>5 DEF WriteStatus, Pcs
  <2> QED BY <1>9, <2>4, <2>5
<1>10. CASE Disturb(b)
  <2>1. CASE Interrupt(b) \/ InterruptExposed(b)
    <3>1. pc' \in [Brokers -> Pcs]
      <4>1. AfterInterrupt(b)
        BY <2>1 DEF Interrupt, InterruptExposed
      <4>2. \E p \in {"over", "release", "persist"} : pc' = [pc EXCEPT ![b] = p]
        BY <4>1 DEF AfterInterrupt
      <4> QED BY <1>1, <4>2 DEF Pcs
    <3>2. fate' \in [Brokers -> {"none", "refused", "returned", "interrupted", "cut", "error",
                                 "killed"}]
      BY <1>1, <2>1 DEF Interrupt, InterruptExposed
    <3>3. worker' \subseteq Brokers /\ interrupts' \in Nat
      BY <1>1, <2>1 DEF Interrupt, InterruptExposed
    <3>4. UNCHANGED <<tree, index, head, lease, task, base, look, attempts, status, result,
                      outside, errors>>
      BY <2>1 DEF Interrupt, InterruptExposed
    <3> QED BY <1>1, <3>1, <3>2, <3>3, <3>4
  <2>2. CASE Raise(b)
    BY <1>1, <2>2 DEF Raise, Pcs
  <2>3. CASE Kill(b)
    BY <1>1, <2>3 DEF Kill, Pcs
  <2> QED BY <1>10, <2>1, <2>2, <2>3 DEF Disturb
<1> QED BY <1>2, <1>4, <1>5, <1>6, <1>7, <1>8, <1>9, <1>10 DEF Step

-----------------------------------------------------------------------------
(* The steps *)

\* What is to be shown of a step of broker b.
Steps(b) == Frame(b) /\ Mine(b)'

\* _run_task_impl before the lease: nothing is written yet.
LEMMA StartRunStep ==
    ASSUME BrokerAssumption, IndInv, NEW b \in Brokers, StartRun(b)
    PROVE  Steps(b)
<1>1. TypeOK /\ Mine(b) /\ pc[b] = "idle"
  BY MineOfAll DEF StartRun
<1>2. PICK raw \in RawTasks :
        IF _validate_task(raw)
        THEN /\ task' = [task EXCEPT ![b] = [mode |-> raw.mode, providers |-> raw.providers,
                                             fallback |-> raw.fallback]]
             /\ Goto(b, "info") /\ UNCHANGED fate
        ELSE Ends(b, "refused") /\ UNCHANGED task
  BY DEF StartRun
<1>3. UNCHANGED <<git, lease, worker, base, look, attempts, files, bounds>>
  BY DEF StartRun
<1>4. Frame(b)
  BY <1>1, <1>2, <1>3 DEF Frame, TypeOK, Goto, Ends, Mine, Control, Ending, files, bounds
<1>5. pc'[b] \in {"info", "over"} /\ fate'[b] \in {"none", "refused"}
  BY <1>1, <1>2 DEF TypeOK, Goto, Ends, Mine, Control, Ending
<1>6. pc'[b] = "info" => fate'[b] = "none"
  BY <1>1, <1>2 DEF TypeOK, Goto, Ends, Mine, Control, Ending
<1>7. pc'[b] = "info" => Len(task'[b].providers) \in 1..2
  BY <1>1, <1>2 DEF TypeOK, Goto, Ends, _validate_task
<1>8. OwnedBy(b)' /\ Control(b)'
  BY <1>1, <1>3, <1>5, <1>6 DEF Mine, OwnedBy, Control, Guarded, Ending
<1>9. Reasonable(b)'
  <2>1. attempts'[b] = <<>>
    BY <1>1, <1>3 DEF Mine, Reasonable, Undecided
  <2> QED BY <2>1, <1>5, <1>7 DEF Reasonable, Undecided, Trying, Judged
<1>10. Recorded(b)'
  BY <1>1, <1>3, <1>5 DEF Mine, Recorded, Undecided, files, bounds
<1>11. Seen(b)'
  BY <1>5 DEF Seen
<1> QED BY <1>4, <1>8, <1>9, <1>10, <1>11 DEF Steps, Mine

\* A step inside a run: the position changes, and what belongs to b alone.
Passes(b, q) ==
    /\ pc' = [pc EXCEPT ![b] = q]
    /\ UNCHANGED <<tree, index, head, lease, worker, fate, outside, interrupts, errors>>
    /\ \A c \in Brokers \ {b} :
         /\ task'[c] = task[c] /\ base'[c] = base[c] /\ look'[c] = look[c]
         /\ attempts'[c] = attempts[c] /\ status'[c] = status[c] /\ result'[c] = result[c]

LEMMA PassesKeeps ==
    ASSUME IndInv, NEW b \in Brokers, NEW q \in Pcs \ Ending, Passes(b, q),
           pc[b] \notin Ending, q \in Guarded => pc[b] \in Guarded,
           pc[b] \in {"starting", "running", "stopping"}
             => q \in {"starting", "running", "stopping"}
    PROVE  Frame(b) /\ OwnedBy(b)' /\ Control(b)' /\ pc'[b] = q
<1>1. TypeOK /\ OwnedBy(b) /\ Control(b)
  BY MineOfAll DEF Mine
<1>2. pc'[b] = q /\ \A c \in Brokers \ {b} : pc'[c] = pc[c]
  BY <1>1 DEF Passes, TypeOK
<1>3. interrupts' >= interrupts /\ errors' >= errors
  BY <1>1 DEF Passes, TypeOK
<1>4. Frame(b)
  BY <1>2, <1>3 DEF Passes, Frame, git
<1>5. OwnedBy(b)'
  BY <1>1, <1>2 DEF Passes, OwnedBy, Control, Ending
<1>6. Control(b)'
  BY <1>1, <1>2 DEF Passes, Control, Ending
<1> QED BY <1>2, <1>4, <1>5, <1>6

\* _inspect_workspace: the first of the two Git calls.
LEMMA ReadHeadStep ==
    ASSUME IndInv, NEW b \in Brokers, NEW from, NEW to, ReadHead(b, from, to),
           <<from, to>> \in {<<"info", "info_status">>, <<"recheck", "recheck_status">>,
                             <<"after", "after_status">>}
    PROVE  Steps(b)
<1>1. TypeOK /\ Mine(b) /\ pc[b] = from
  BY MineOfAll DEF ReadHead
<1>2. Passes(b, to)
  BY <1>1 DEF ReadHead, Passes, Goto, git, files, bounds, TypeOK
<1>3. /\ Frame(b) /\ OwnedBy(b)' /\ Control(b)' /\ pc'[b] = to
  BY <1>1, <1>2, PassesKeeps DEF Pcs, Ending, Guarded
<1>4. /\ task' = task /\ attempts' = attempts /\ status' = status /\ result' = result
      /\ look'[b].head = head /\ head' = head
  BY <1>1 DEF ReadHead, files, git, TypeOK, Snapshots
<1>5. Reasonable(b)'
  BY <1>1, <1>3, <1>4 DEF Mine, Reasonable, Undecided, Trying, Judged
<1>6. Recorded(b)'
  BY <1>1, <1>3, <1>4 DEF Mine, Recorded, Undecided
<1>7. Seen(b)'
  BY <1>3, <1>4 DEF Seen
<1> QED BY <1>3, <1>5, <1>6, <1>7 DEF Steps, Mine

\* ... and the second, which completes what the first one saw.
LEMMA ReadStatusStep ==
    ASSUME IndInv, NEW b \in Brokers, NEW from, NEW to, ReadStatus(b, from, to),
           <<from, to>> \in {<<"info_status", "admit">>, <<"recheck_status", "compare">>,
                             <<"after_status", "judge">>}
    PROVE  Steps(b)
<1>1. TypeOK /\ Mine(b) /\ pc[b] = from
  BY MineOfAll DEF ReadStatus
<1>2. Passes(b, to)
  BY <1>1 DEF ReadStatus, Passes, Goto, git, files, bounds, TypeOK
<1>3. /\ Frame(b) /\ OwnedBy(b)' /\ Control(b)' /\ pc'[b] = to
  BY <1>1, <1>2, PassesKeeps DEF Pcs, Ending, Guarded
<1>4. /\ task' = task /\ attempts' = attempts /\ status' = status /\ result' = result
      /\ tree' = tree /\ index' = index /\ head' = head
  BY DEF ReadStatus, files, git
<1>5. Reasonable(b)'
  BY <1>1, <1>3, <1>4 DEF Mine, Reasonable, Undecided, Trying, Judged
<1>6. Recorded(b)'
  BY <1>1, <1>3, <1>4 DEF Mine, Recorded, Undecided
<1>7. ASSUME Quiet' PROVE Seen(b)'
  <2>1. CASE to = "admit"
    BY <1>3, <2>1 DEF Seen
  <2>2. CASE to # "admit"
    <3>1. look[b].head = head
      BY <1>1, <1>3, <1>7, <2>2, QuietBefore DEF Mine, Seen
    <3>2. look'[b] = [look[b] EXCEPT !.unstaged = tree # index, !.staged = index # head]
      BY <1>1 DEF ReadStatus, Snapshot, TypeOK
    <3>3. look[b] \in Snapshots
      BY <1>1 DEF TypeOK
    <3>4. look'[b] = Snapshot'
      BY <3>1, <3>2, <3>3, <1>4 DEF Snapshots, Snapshot
    <3> QED BY <1>3, <2>2, <3>4 DEF Seen
  <2> QED BY <2>1, <2>2
<1> QED BY <1>3, <1>5, <1>6, <1>7 DEF Steps, Mine

\* A run that ends, or goes to the finally clause, with the lease as it is: what
\* b itself has recorded stays, the fate is the new one.
Leaves(b, q, f) ==
    /\ pc' = [pc EXCEPT ![b] = q] /\ fate' = [fate EXCEPT ![b] = f]
    /\ UNCHANGED <<tree, index, head, lease, worker, task, attempts, status, result, outside,
                   interrupts>>
    /\ errors' >= errors
    /\ \A c \in Brokers \ {b} : base'[c] = base[c] /\ look'[c] = look[c]

LEMMA LeavesKeeps ==
    ASSUME IndInv, NEW b \in Brokers, NEW q \in {"release", "over"}, NEW f, Leaves(b, q, f),
           pc[b] \notin {"running", "stopping", "release", "over"},
           pc[b] \in Guarded <=> q = "release",
           f \in {"refused", "error", "returned", "cut"},
           f = "cut" <=> fate[b] = "cut" \/ pc[b] = "starting",
           f = "cut" => errors' # 0,
           f = "returned" => pc[b] = "event"
    PROVE  Steps(b)
<1>1. TypeOK /\ Mine(b)
  BY MineOfAll
<1>2. /\ pc'[b] = q /\ fate'[b] = f
      /\ \A c \in Brokers \ {b} : pc'[c] = pc[c] /\ fate'[c] = fate[c]
  BY <1>1 DEF Leaves, TypeOK
<1>3. fate[b] # "killed"
  BY <1>1 DEF Mine, Control
<1>4. Frame(b)
  BY <1>1, <1>2, <1>3 DEF Leaves, Frame, git, TypeOK
<1>5. OwnedBy(b)'
  BY <1>1, <1>2, <1>3 DEF Leaves, OwnedBy, Mine
<1>6. Control(b)'
  BY <1>1, <1>2 DEF Leaves, Control, Mine, Ending, Guarded
<1>7. Reasonable(b)'
  <2>1. q = "release" => pc[b] \notin {"idle", "over"}
    BY DEF Guarded
  <2> QED BY <1>1, <1>2, <2>1 DEF Leaves, Reasonable, Mine, Undecided, Trying, Judged
<1>8. Recorded(b)'
  BY <1>1, <1>2 DEF Leaves, Recorded, Mine, Undecided
<1>9. Seen(b)'
  BY <1>2 DEF Seen
<1> QED BY <1>4, <1>5, <1>6, <1>7, <1>8, <1>9 DEF Steps, Mine

\* base_commit, linked and clean worktree: the baseline is what was read.
LEMMA AdmitStep ==
    ASSUME IndInv, NEW b \in Brokers, Admit(b)
    PROVE  Steps(b)
<1>1. TypeOK /\ Mine(b) /\ pc[b] = "admit"
  BY MineOfAll DEF Admit
<1>2. /\ UNCHANGED <<git, lease, worker, task, look, attempts, files, bounds>>
      /\ \A c \in Brokers \ {b} : base'[c] = base[c]
  BY <1>1 DEF Admit, TypeOK
<1>3. CASE Ends(b, "refused")
  <2>1. Leaves(b, "over", "refused")
    BY <1>1, <1>2, <1>3 DEF Leaves, Ends, Goto, git, files, bounds, TypeOK
  <2>2. fate[b] = "none"
    BY <1>1 DEF Mine, Control, Ending
  <2> QED BY <1>1, <2>1, <2>2, LeavesKeeps DEF Guarded
<1>4. CASE Goto(b, "lease") /\ UNCHANGED fate
  <2>1. Passes(b, "lease")
    BY <1>1, <1>2, <1>4 DEF Passes, Goto, git, files, bounds
  <2>2. Frame(b) /\ OwnedBy(b)' /\ Control(b)' /\ pc'[b] = "lease"
    BY <1>1, <2>1, PassesKeeps DEF Pcs, Ending, Guarded
  <2>3. Reasonable(b)' /\ Recorded(b)' /\ Seen(b)'
    BY <1>1, <1>2, <2>2 DEF Mine, Reasonable, Recorded, Seen, Undecided, Trying, Judged, files
  <2> QED BY <2>2, <2>3 DEF Steps, Mine
<1> QED BY <1>3, <1>4 DEF Admit

\* flock: the loser is refused, the winner is alone.
LEMMA TakeLeaseStep ==
    ASSUME BrokerAssumption, IndInv, NEW b \in Brokers, TakeLease(b)
    PROVE  Steps(b)
<1>1. TypeOK /\ Mine(b) /\ pc[b] = "lease"
  BY MineOfAll DEF TakeLease
<1>2. UNCHANGED <<git, worker, task, base, look, attempts, files, bounds>>
  BY DEF TakeLease
<1>3. fate[b] = "none"
  BY <1>1 DEF Mine, Control, Ending
<1>4. CASE Ends(b, "refused") /\ UNCHANGED lease
  <2>1. Leaves(b, "over", "refused")
    BY <1>1, <1>2, <1>4 DEF Leaves, Ends, Goto, git, files, bounds, TypeOK
  <2> QED BY <1>1, <1>3, <2>1, LeavesKeeps DEF Guarded
<1>5. CASE lease = NoBroker /\ lease' = b /\ Goto(b, "recheck") /\ UNCHANGED fate
  <2>1. pc'[b] = "recheck" /\ \A c \in Brokers \ {b} : pc'[c] = pc[c]
    BY <1>1, <1>5 DEF Goto, TypeOK
  <2>2. Frame(b)
    BY <1>1, <1>2, <1>5, <2>1 DEF Frame, BrokerAssumption, TypeOK, git, files, bounds
  <2>3. OwnedBy(b)' /\ Control(b)'
    BY <1>1, <1>2, <1>3, <1>5, <2>1 DEF Mine, OwnedBy, Control, Ending
  <2>4. Reasonable(b)' /\ Recorded(b)' /\ Seen(b)'
    BY <1>1, <1>2, <2>1 DEF Mine, Reasonable, Recorded, Seen, Undecided, Trying, Judged, files
  <2> QED BY <2>2, <2>3, <2>4 DEF Steps, Mine
<1> QED BY <1>4, <1>5 DEF TakeLease

\* workspace_changed_before_start, or the baseline is what was read under the lease.
LEMMA CompareStep ==
    ASSUME IndInv, NEW b \in Brokers, Compare(b)
    PROVE  Steps(b)
<1>1. TypeOK /\ Mine(b) /\ pc[b] = "compare"
  BY MineOfAll DEF Compare
<1>2. UNCHANGED <<git, lease, worker, task, base, look, attempts, files, bounds>>
  BY DEF Compare
<1>3. fate[b] = "none"
  BY <1>1 DEF Mine, Control, Ending
<1>4. CASE Goto(b, "release") /\ fate' = [fate EXCEPT ![b] = "error"]
  <2>1. Leaves(b, "release", "error")
    BY <1>1, <1>2, <1>4 DEF Leaves, Goto, git, files, bounds, TypeOK
  <2> QED BY <1>1, <1>3, <2>1, LeavesKeeps DEF Guarded, Pcs
<1>5. CASE look[b] = base[b] /\ Goto(b, "begin") /\ UNCHANGED fate
  <2>1. Passes(b, "begin")
    BY <1>1, <1>2, <1>5 DEF Passes, Goto, git, files, bounds
  <2>2. Frame(b) /\ OwnedBy(b)' /\ Control(b)' /\ pc'[b] = "begin"
    BY <1>1, <2>1, PassesKeeps DEF Pcs, Ending, Guarded
  <2>3. Reasonable(b)' /\ Recorded(b)'
    BY <1>1, <1>2, <2>2 DEF Mine, Reasonable, Recorded, Undecided, Trying, Judged, files
  <2>4. ASSUME Quiet' PROVE Seen(b)'
    <3>1. Snapshot = base[b]
      BY <1>1, <1>5, <2>2, <2>4, QuietBefore DEF Mine, Seen
    <3>2. Snapshot' = Snapshot
      BY <1>2 DEF Snapshot, git
    <3> QED BY <1>2, <2>2, <3>1, <3>2 DEF Seen
  <2> QED BY <2>2, <2>3, <2>4 DEF Steps, Mine
<1> QED BY <1>4, <1>5 DEF Compare

\* The run directory.
LEMMA BeginStep ==
    ASSUME IndInv, NEW b \in Brokers, Begin(b)
    PROVE  Steps(b)
<1>1. TypeOK /\ Mine(b) /\ pc[b] = "begin"
  BY MineOfAll DEF Begin
<1>2. /\ UNCHANGED <<git, task, base, look, attempts, result>>
      /\ status' = [status EXCEPT ![b] = "running"]
  BY DEF Begin
<1>3. Passes(b, "attempt")
  BY <1>1 DEF Begin, Passes, Goto, git, bounds, TypeOK
<1>4. Frame(b) /\ OwnedBy(b)' /\ Control(b)' /\ pc'[b] = "attempt"
  BY <1>1, <1>3, PassesKeeps DEF Pcs, Ending, Guarded
<1>5. Reasonable(b)'
  <2>1. attempts[b] = <<>> /\ Len(task[b].providers) \in 1..2 /\ task[b] \in Tasks
    BY <1>1 DEF Mine, Reasonable, Undecided, TypeOK
  <2>2. Len(Candidates(task[b])) \in 1..2
    BY <2>1, CandidatesOf
  <2> QED BY <1>2, <1>4, <2>1, <2>2 DEF Reasonable, Undecided, Trying, Judged
<1>6. Recorded(b)'
  BY <1>1, <1>4 DEF Recorded, Undecided
<1>7. ASSUME Quiet' PROVE Seen(b)'
  <2>1. Snapshot = base[b]
    BY <1>1, <1>4, <1>7, QuietBefore DEF Mine, Seen
  <2>2. Snapshot' = Snapshot
    BY <1>2 DEF Snapshot, git
  <2> QED BY <1>2, <1>4, <2>1, <2>2 DEF Seen
<1> QED BY <1>4, <1>5, <1>6, <1>7 DEF Steps, Mine

\* The provider starts under the lease.
LEMMA StartAttemptStep ==
    ASSUME IndInv, NEW b \in Brokers, StartAttempt(b)
    PROVE  Steps(b)
<1>1. TypeOK /\ Mine(b) /\ pc[b] = "attempt"
  BY MineOfAll DEF StartAttempt
<1>2. /\ UNCHANGED <<git, lease, task, base, look, attempts, files, fate, bounds>>
      /\ worker' = worker \cup {b}
      /\ pc'[b] = "starting" /\ \A c \in Brokers \ {b} : pc'[c] = pc[c]
  BY <1>1 DEF StartAttempt, Goto, TypeOK
<1>3. lease = b /\ fate[b] = "none"
  BY <1>1 DEF Mine, Control, Guarded, Pcs, Ending
<1>4. Frame(b)
  BY <1>1, <1>2 DEF Frame, files, bounds, git, TypeOK
<1>5. OwnedBy(b)' /\ Control(b)'
  BY <1>2, <1>3 DEF OwnedBy, Control, Ending
<1>6. Reasonable(b)' /\ Recorded(b)' /\ Seen(b)'
  BY <1>1, <1>2 DEF Mine, Reasonable, Recorded, Seen, Undecided, Trying, Judged
<1> QED BY <1>4, <1>5, <1>6 DEF Steps, Mine

\* _invoke enters its try block.
LEMMA EnterInvokeStep ==
    ASSUME IndInv, NEW b \in Brokers, EnterInvoke(b)
    PROVE  Steps(b)
<1>1. TypeOK /\ Mine(b) /\ pc[b] = "starting"
  BY MineOfAll DEF EnterInvoke
<1>2. UNCHANGED <<git, task, base, look, attempts, files>>
  BY DEF EnterInvoke
<1>3. Passes(b, "running")
  BY <1>1 DEF EnterInvoke, Passes, Goto, git, files, bounds
<1>4. Frame(b) /\ OwnedBy(b)' /\ Control(b)' /\ pc'[b] = "running"
  BY <1>1, <1>3, PassesKeeps DEF Pcs, Ending, Guarded
<1>5. Reasonable(b)' /\ Recorded(b)' /\ Seen(b)'
  BY <1>1, <1>2, <1>4 DEF Mine, Reasonable, Recorded, Seen, Undecided, Trying, Judged
<1> QED BY <1>4, <1>5 DEF Steps, Mine

\* _invoke enters its finally clause.
LEMMA LeaveInvokeStep ==
    ASSUME IndInv, NEW b \in Brokers, LeaveInvoke(b)
    PROVE  Steps(b)
<1>1. TypeOK /\ Mine(b) /\ pc[b] = "running"
  BY MineOfAll DEF LeaveInvoke
<1>2. UNCHANGED <<git, task, base, look, attempts, files>>
  BY DEF LeaveInvoke
<1>3. Passes(b, "stopping")
  BY <1>1 DEF LeaveInvoke, Passes, Goto, git, files, bounds
<1>4. Frame(b) /\ OwnedBy(b)' /\ Control(b)' /\ pc'[b] = "stopping"
  BY <1>1, <1>3, PassesKeeps DEF Pcs, Ending, Guarded
<1>5. Reasonable(b)' /\ Recorded(b)' /\ Seen(b)'
  BY <1>1, <1>2, <1>4 DEF Mine, Reasonable, Recorded, Seen, Undecided, Trying, Judged
<1> QED BY <1>4, <1>5 DEF Steps, Mine

\* _attempt returns: the provider is gone, its end is classified.
LEMMA FinishAttemptStep ==
    ASSUME BrokerAssumption, IndInv, NEW b \in Brokers, FinishAttempt(b)
    PROVE  Steps(b)
<1>1. TypeOK /\ Mine(b) /\ pc[b] = "stopping"
  BY MineOfAll DEF FinishAttempt
<1> DEFINE provider == Candidates(task[b])[Len(attempts[b]) + 1]
<1>2. PICK p \in Outcomes :
        attempts' = [attempts EXCEPT ![b] = Append(@,
                      [provider |-> provider, outcome |-> p, reason |-> Classify(provider, p)])]
  BY DEF FinishAttempt
<1>3. PICK new : new = [provider |-> provider, outcome |-> p, reason |-> Classify(provider, p)]
  OBVIOUS
<1> HIDE DEF provider
<1>4. /\ new.reason = Classify(new.provider, new.outcome)
      /\ attempts'[b] = Append(attempts[b], new)
      /\ \A c \in Brokers \ {b} : attempts'[c] = attempts[c]
  BY <1>1, <1>2, <1>3 DEF TypeOK
<1>5. /\ UNCHANGED <<git, lease, task, base, look, files, fate, bounds>>
      /\ worker' = worker \ {b}
      /\ pc'[b] = "after" /\ \A c \in Brokers \ {b} : pc'[c] = pc[c]
  BY <1>1 DEF FinishAttempt, Goto, TypeOK
<1>6. Frame(b)
  BY <1>1, <1>4, <1>5 DEF Frame, files, bounds, git, TypeOK
<1>7. OwnedBy(b)' /\ Control(b)'
  BY <1>1, <1>5 DEF Mine, OwnedBy, Control, Ending, Guarded, Pcs
<1>8. Reasonable(b)'
  <2>1. /\ attempts[b] \in Seq(Attempts) /\ Len(attempts[b]) < Len(Candidates(task[b]))
        /\ Len(task[b].providers) \in 1..2 /\ task[b] \in Tasks
    BY <1>1 DEF Mine, Reasonable, Trying, TypeOK
  <2>2. Len(attempts[b]) \in 0..1
    <3>1. Len(Candidates(task[b])) \in 1..2
      BY <2>1, CandidatesOf
    <3>2. Len(attempts[b]) \in Nat
      BY <2>1
    <3>3. PICK m \in Nat, l \in 1..2 : m = Len(attempts[b]) /\ l = Len(Candidates(task[b]))
      BY <3>1, <3>2
    <3>4. m < l
      BY <2>1, <3>3
    <3>5. m \in 0..1
      BY <3>4
    <3> QED BY <3>3, <3>5
  <2>3. /\ Len(attempts'[b]) = Len(attempts[b]) + 1 /\ DOMAIN attempts'[b] = 1..Len(attempts'[b])
        /\ attempts'[b][Len(attempts[b]) + 1] = new
        /\ \A k \in DOMAIN attempts[b] : attempts'[b][k] = attempts[b][k]
    BY <1>4, <2>1
  <2>4. ASSUME NEW k \in DOMAIN attempts'[b]
        PROVE  attempts'[b][k].reason \in
                 {Classify(attempts'[b][k].provider, attempts'[b][k].outcome), "workspace_changed"}
    <3>1. CASE k = Len(attempts[b]) + 1
      BY <3>1, <2>3, <1>4
    <3>2. CASE k \in DOMAIN attempts[b]
      BY <3>2, <2>3, <1>1 DEF Mine, Reasonable
    <3> QED BY <3>1, <3>2, <2>1, <2>3
  <2>5. Len(attempts'[b]) = 2 => attempts'[b][1].reason \in FALLBACK_REASONS
                                 /\ task[b].mode = "read-only"
    <3> SUFFICES ASSUME Len(attempts'[b]) = 2
                 PROVE  attempts'[b][1].reason \in FALLBACK_REASONS /\ task[b].mode = "read-only"
      OBVIOUS
    <3>1. Len(attempts[b]) = 1 /\ 1 \in DOMAIN attempts[b] /\ attempts[b] # <<>>
      <4>1. Len(attempts[b]) = 1
        <5>1. PICK m \in 0..1 : m = Len(attempts[b])
          BY <2>2
        <5>2. m + 1 = 2
          BY <2>3, <5>1
        <5> QED BY <5>1, <5>2
      <4>2. DOMAIN attempts[b] = 1..1
        BY <2>1, <4>1
      <4> QED BY <4>1, <4>2
    <3> QED BY <3>1, <2>3, <1>1 DEF Mine, Reasonable, Trying
  <2>6. attempts'[b] # <<>> /\ Len(attempts'[b]) <= 2
    BY <2>1, <2>2, <2>3
  <2> QED BY <1>5, <2>1, <2>4, <2>5, <2>6 DEF Reasonable, Undecided, Trying, Judged
<1>9. Recorded(b)' /\ Seen(b)'
  BY <1>1, <1>5 DEF Mine, Recorded, Seen, Undecided
<1> QED BY <1>6, <1>7, <1>8, <1>9 DEF Steps, Mine

\* What Judge does to the last attempt.
Rewrites(b, reason) == attempts' = [attempts EXCEPT ![b][Len(attempts[b])].reason = reason]
Rewritten(b, reason) ==
    /\ Len(attempts'[b]) = Len(attempts[b]) /\ attempts'[b] # <<>>
    /\ DOMAIN attempts'[b] = DOMAIN attempts[b]
    /\ LastReason(b)' = reason
    /\ \A k \in DOMAIN attempts[b] :
         /\ attempts'[b][k].provider = attempts[b][k].provider
         /\ attempts'[b][k].outcome = attempts[b][k].outcome
         /\ attempts'[b][k].reason =
              IF k = Len(attempts[b]) THEN reason ELSE attempts[b][k].reason
    /\ \A c \in Brokers \ {b} : attempts'[c] = attempts[c]

LEMMA JudgedAttempts ==
    ASSUME IndInv, NEW b \in Brokers, NEW reason, attempts[b] # <<>>, Rewrites(b, reason)
    PROVE  Rewritten(b, reason)
<1>1. attempts \in [Brokers -> Seq(Attempts)]
  BY DEF IndInv, TypeOK
<1> DEFINE n == Len(attempts[b])
<1>2. n \in DOMAIN attempts[b] /\ n \in Nat \ {0} /\ attempts[b][n] \in Attempts
  BY <1>1
<1>3. PICK last : last = [attempts[b][n] EXCEPT !.reason = reason]
  OBVIOUS
<1>4. /\ last.provider = attempts[b][n].provider /\ last.outcome = attempts[b][n].outcome
      /\ last.reason = reason
  <2>1. PICK a : a = attempts[b][n]
    OBVIOUS
  <2>2. a \in Attempts
    BY <1>2, <2>1
  <2> QED BY <1>3, <2>1, <2>2 DEF Attempts
<1>5. attempts' = [attempts EXCEPT ![b] = [attempts[b] EXCEPT ![n] = last]]
  BY <1>3 DEF Rewrites
<1>6. /\ attempts'[b] = [attempts[b] EXCEPT ![n] = last]
      /\ \A c \in Brokers \ {b} : attempts'[c] = attempts[c]
  BY <1>1, <1>5
<1>7. /\ DOMAIN attempts'[b] = DOMAIN attempts[b] /\ Len(attempts'[b]) = n
      /\ attempts'[b][n] = last
      /\ \A k \in DOMAIN attempts[b] : k # n => attempts'[b][k] = attempts[b][k]
  <2>1. [attempts[b] EXCEPT ![n] = last] \in Seq({attempts[b][k] : k \in 1..n} \cup {last})
    BY <1>1, <1>2
  <2> QED BY <1>1, <1>2, <1>6, <2>1
<1>8. attempts'[b] # <<>>
  BY <1>2, <1>7
<1> QED BY <1>2, <1>4, <1>6, <1>7, <1>8 DEF LastReason, Rewritten

\* What the attempt left behind decides about a fallback.
LEMMA JudgeStep ==
    ASSUME IndInv, NEW b \in Brokers, Judge(b)
    PROVE  Steps(b)
<1>1. TypeOK /\ Mine(b) /\ pc[b] = "judge" /\ attempts[b] # <<>>
  BY MineOfAll DEF Judge, Mine, Reasonable, Judged
<1> DEFINE n == Len(attempts[b])
           said == LastReason(b)
<1>2. PICK reason :
        /\ reason = IF Violates(b, said = "success") THEN "workspace_changed" ELSE said
        /\ Rewrites(b, reason)
        /\ Goto(b, IF reason # "success" /\ FallsBack(b, reason) THEN "attempt" ELSE "result")
  BY DEF Judge, Rewrites
<1>3. UNCHANGED <<git, lease, worker, task, base, look, files, fate, bounds>>
  BY DEF Judge
<1>4. /\ Len(attempts'[b]) = n /\ attempts'[b] # <<>>
      /\ DOMAIN attempts'[b] = DOMAIN attempts[b]
      /\ LastReason(b)' = reason
      /\ \A k \in DOMAIN attempts[b] :
           /\ attempts'[b][k].provider = attempts[b][k].provider
           /\ attempts'[b][k].outcome = attempts[b][k].outcome
           /\ attempts'[b][k].reason = IF k = n THEN reason ELSE attempts[b][k].reason
      /\ \A c \in Brokers \ {b} : attempts'[c] = attempts[c]
  BY <1>1, <1>2, JudgedAttempts DEF Rewritten
<1>5. PICK q \in {"attempt", "result"} :
        /\ Goto(b, q)
        /\ q = "attempt" <=> reason # "success" /\ FallsBack(b, reason)
  BY <1>2
<1>6. Passes(b, q)
  BY <1>3, <1>4, <1>5 DEF Passes, Goto, git, files, bounds
<1>7. Frame(b) /\ OwnedBy(b)' /\ Control(b)' /\ pc'[b] = q
  BY <1>1, <1>6, PassesKeeps DEF Pcs, Ending, Guarded
<1>8. n \in 1..2 /\ DOMAIN attempts[b] = 1..n
  <2>1. attempts[b] \in Seq(Attempts) /\ n <= 2
    BY <1>1 DEF Mine, Reasonable, TypeOK
  <2>2. n \in Nat /\ n # 0 /\ DOMAIN attempts[b] = 1..n
    BY <1>1, <2>1
  <2>3. PICK m \in Nat : m = n
    BY <2>2
  <2>4. m \in 1..2
    <3>1. m <= 2 /\ m # 0
      BY <2>1, <2>2, <2>3
    <3> QED BY <3>1
  <2> QED BY <2>2, <2>3, <2>4
<1>9. task[b] \in Tasks /\ Len(task[b].providers) \in 1..2
  BY <1>1 DEF Mine, Reasonable, TypeOK
<1>10. Len(Candidates(task[b])) \in 1..2
  BY <1>9, CandidatesOf
<1>11. Reasonable(b)'
  <2>1. \A k \in DOMAIN attempts'[b] :
          attempts'[b][k].reason \in
            {Classify(attempts'[b][k].provider, attempts'[b][k].outcome), "workspace_changed"}
    <3>1. reason \in {attempts[b][n].reason, "workspace_changed"}
      BY <1>2 DEF LastReason
    <3>2. \A k \in DOMAIN attempts[b] :
            attempts[b][k].reason \in
              {Classify(attempts[b][k].provider, attempts[b][k].outcome), "workspace_changed"}
      BY <1>1 DEF Mine, Reasonable
    <3> QED BY <3>1, <3>2, <1>4, <1>8
  <2>2. q = "attempt" => n < Len(Candidates(task[b]))
    BY <1>5 DEF FallsBack
  <2>3. n = 2 \/ q = "attempt" =>
          attempts'[b][1].reason \in FALLBACK_REASONS /\ task[b].mode = "read-only"
    <3>1. CASE n = 2
      <4>1. attempts[b][1].reason \in FALLBACK_REASONS /\ task[b].mode = "read-only"
        BY <1>1, <3>1 DEF Mine, Reasonable
      <4> QED BY <4>1, <3>1, <1>4, <1>8
    <3>2. CASE n = 1 /\ q = "attempt"
      <4>1. reason \in FALLBACK_REASONS /\ task[b].mode = "read-only"
        BY <1>5, <3>2 DEF FallsBack
      <4> QED BY <4>1, <3>2, <1>4, <1>8
    <3> QED BY <3>1, <3>2, <1>8
  <2> QED BY <1>3, <1>4, <1>5, <1>7, <1>8, <1>9, <2>1, <2>2, <2>3
          DEF Reasonable, Undecided, Trying, Judged
<1>12. Recorded(b)'
  BY <1>5, <1>7 DEF Recorded, Undecided
<1>13. ASSUME Quiet' PROVE Seen(b)'
  <2>1. look[b] = Snapshot
    BY <1>1, <1>7, <1>13, QuietBefore DEF Mine, Seen
  <2>2. Snapshot' = Snapshot /\ look'[b] = look[b] /\ base'[b] = base[b]
    BY <1>3 DEF Snapshot, git
  <2>3. q = "attempt" => Snapshot = base[b]
    BY <1>5, <2>1 DEF FallsBack, Changed
  <2>4. reason = "success" => ~Violates(b, TRUE)
    <3> SUFFICES ASSUME reason = "success" PROVE ~Violates(b, TRUE)
      OBVIOUS
    <3>1. ~Violates(b, said = "success") /\ said = "success"
      BY <1>2
    <3>2. (said = "success") = TRUE
      BY <3>1
    <3> QED BY <3>1, <3>2
  <2>5. Violates(b, TRUE)' = Violates(b, TRUE)
    BY <1>3 DEF Violates, Changed
  <2> QED BY <1>4, <1>5, <1>7, <2>1, <2>2, <2>3, <2>4, <2>5 DEF Seen
<1> QED BY <1>7, <1>11, <1>12, <1>13 DEF Steps, Mine

\* The two files of a run that was judged.
LEMMA WriteResultStep ==
    ASSUME IndInv, NEW b \in Brokers, WriteResult(b)
    PROVE  Steps(b)
<1>1. TypeOK /\ Mine(b) /\ pc[b] = "result"
  BY MineOfAll DEF WriteResult
<1>2. /\ UNCHANGED <<git, task, base, look, attempts, status>>
      /\ result'[b] = Verdict(LastReason(b))
      /\ \A c \in Brokers \ {b} : result'[c] = result[c]
  BY <1>1 DEF WriteResult, TypeOK
<1>3. Passes(b, "status")
  BY <1>1, <1>2 DEF WriteResult, Passes, Goto, git, bounds
<1>4. Frame(b) /\ OwnedBy(b)' /\ Control(b)' /\ pc'[b] = "status"
  BY <1>1, <1>3, PassesKeeps DEF Pcs, Ending, Guarded
<1>5. Reasonable(b)'
  BY <1>1, <1>2, <1>4 DEF Mine, Reasonable, Undecided, Trying, Judged
<1>6. Recorded(b)'
  BY <1>2, <1>4 DEF Recorded, Undecided, LastReason
<1>7. ASSUME Quiet' PROVE Seen(b)'
  <2>1. look[b] = Snapshot /\ (LastReason(b) = "success" => ~Violates(b, TRUE))
    BY <1>1, <1>4, <1>7, QuietBefore DEF Mine, Seen
  <2>2. Snapshot' = Snapshot /\ LastReason(b)' = LastReason(b)
        /\ Violates(b, TRUE)' = Violates(b, TRUE)
    BY <1>2 DEF Snapshot, LastReason, Violates, Changed, git
  <2> QED BY <1>2, <1>4, <2>1, <2>2 DEF Seen
<1> QED BY <1>4, <1>5, <1>6, <1>7 DEF Steps, Mine

LEMMA WriteStatusStep ==
    ASSUME IndInv, NEW b \in Brokers, WriteStatus(b)
    PROVE  Steps(b)
<1>1. TypeOK /\ Mine(b) /\ pc[b] = "status"
  BY MineOfAll DEF WriteStatus
<1>2. /\ UNCHANGED <<git, task, base, look, attempts, result>>
      /\ status'[b] = Verdict(LastReason(b))
      /\ \A c \in Brokers \ {b} : status'[c] = status[c]
  BY <1>1 DEF WriteStatus, TypeOK
<1>3. Passes(b, "event")
  BY <1>1, <1>2 DEF WriteStatus, Passes, Goto, git, bounds
<1>4. Frame(b) /\ OwnedBy(b)' /\ Control(b)' /\ pc'[b] = "event"
  BY <1>1, <1>3, PassesKeeps DEF Pcs, Ending, Guarded
<1>5. Reasonable(b)'
  BY <1>1, <1>2, <1>4 DEF Mine, Reasonable, Undecided, Trying, Judged
<1>6. Recorded(b)'
  <2>1. result[b] = Verdict(LastReason(b))
    BY <1>1 DEF Mine, Recorded
  <2>2. Verdict(LastReason(b)) \in Final
    BY DEF Verdict, Final
  <2> QED BY <1>2, <1>4, <2>1, <2>2 DEF Recorded, Undecided
<1> QED BY <1>4, <1>5, <1>6 DEF Steps, Mine, Seen

\* run.finished: the files agree.
LEMMA ReturnResultStep ==
    ASSUME IndInv, NEW b \in Brokers, ReturnResult(b)
    PROVE  Steps(b)
<1>1. TypeOK /\ Mine(b) /\ pc[b] = "event"
  BY MineOfAll DEF ReturnResult
<1>2. Leaves(b, "release", "returned")
  BY <1>1 DEF ReturnResult, Leaves, Goto, git, files, bounds, TypeOK
<1>3. fate[b] = "none"
  BY <1>1 DEF Mine, Control, Ending
<1> QED BY <1>1, <1>2, <1>3, LeavesKeeps DEF Guarded, Pcs

\* The finally clause: the lease is free, whatever the fate.
LEMMA ReleaseStep ==
    ASSUME BrokerAssumption, IndInv, NEW b \in Brokers, Release(b)
    PROVE  Steps(b)
<1>1. TypeOK /\ Mine(b) /\ pc[b] = "release"
  BY MineOfAll DEF Release
<1>2. lease = b /\ lease' = NoBroker
  BY <1>1 DEF Mine, Control, Release
<1>3. /\ UNCHANGED <<git, worker, task, base, look, attempts, files, fate, bounds>>
      /\ pc'[b] = "over" /\ \A c \in Brokers \ {b} : pc'[c] = pc[c]
  BY <1>1 DEF Release, Goto, TypeOK
<1>4. Frame(b)
  BY <1>1, <1>2, <1>3 DEF Frame, BrokerAssumption, TypeOK, git, files, bounds
<1>5. OwnedBy(b)' /\ Control(b)'
  BY <1>1, <1>3 DEF Mine, OwnedBy, Control, Ending, Guarded
<1>6. Reasonable(b)'
  BY <1>1, <1>3 DEF Mine, Reasonable, Undecided, Trying, Judged
<1>7. Recorded(b)' /\ Seen(b)'
  BY <1>1, <1>3 DEF Mine, Recorded, Seen, Undecided, files, bounds
<1> QED BY <1>4, <1>5, <1>6, <1>7 DEF Steps, Mine

\* _persist_interrupted_run: first the result, then the status.
LEMMA PersistInterruptedStep ==
    ASSUME IndInv, NEW b \in Brokers, PersistInterrupted(b)
    PROVE  Steps(b)
<1>1. TypeOK /\ Mine(b) /\ pc[b] \in {"persist", "persist_status"}
  BY MineOfAll DEF PersistInterrupted
<1>2. /\ UNCHANGED <<git, lease, worker, task, base, look, attempts, fate, bounds>>
      /\ \A c \in Brokers \ {b} :
           pc'[c] = pc[c] /\ status'[c] = status[c] /\ result'[c] = result[c]
  BY <1>1 DEF PersistInterrupted, Goto, TypeOK
<1>3. \/ pc[b] = "persist" /\ pc'[b] = "persist_status" /\ result'[b] = "interrupted"
      \/ /\ pc[b] = "persist_status" /\ pc'[b] = "release"
         /\ status'[b] = "interrupted" /\ result'[b] = result[b]
  BY <1>1 DEF PersistInterrupted, Goto, TypeOK
<1>4. fate[b] \in {"interrupted", "cut"} /\ lease = b
  BY <1>1 DEF Mine, Control, Guarded, Pcs
<1>5. Frame(b)
  BY <1>1, <1>2, <1>4 DEF Frame, TypeOK, git, bounds
<1>6. OwnedBy(b)' /\ Control(b)'
  BY <1>1, <1>2, <1>3, <1>4 DEF Mine, OwnedBy, Control, Ending, Guarded
<1>7. Reasonable(b)'
  BY <1>1, <1>2, <1>3 DEF Mine, Reasonable, Undecided, Trying, Judged
<1>8. Recorded(b)'
  BY <1>1, <1>2, <1>3, <1>4 DEF Mine, Recorded, Undecided, bounds
<1>9. Seen(b)'
  BY <1>3 DEF Seen
<1> QED BY <1>5, <1>6, <1>7, <1>8, <1>9 DEF Steps, Mine

-----------------------------------------------------------------------------
(* What goes wrong *)

\* SIGINT or SIGTERM: before the try block the run is over with nothing written,
\* in it the run goes on to say so, and a second one finds interrupts counted.
LEMMA InterruptSteps ==
    ASSUME IndInv, NEW b \in Brokers, Interrupt(b) \/ InterruptExposed(b)
    PROVE  Steps(b)
<1>1. TypeOK /\ Mine(b) /\ pc[b] \in Pcs \ {"idle", "release", "over"}
  BY MineOfAll DEF Interrupt, InterruptExposed, Exposed, Pcs
<1>2. PICK q \in {"over", "release", "persist"} :
        /\ pc' = [pc EXCEPT ![b] = q]
        /\ q = "over" <=> pc[b] \notin Guarded
        /\ q = "release" <=> pc[b] \in {"persist", "persist_status"}
  <2>1. AfterInterrupt(b)
    BY DEF Interrupt, InterruptExposed
  <2>2. {"persist", "persist_status"} \subseteq Guarded
    BY DEF Guarded, Pcs
  <2> QED BY <2>1, <2>2 DEF AfterInterrupt, Goto
<1>3. PICK f \in {"interrupted", "cut"} :
        /\ fate' = [fate EXCEPT ![b] = f]
        /\ f = "interrupted" => b \notin worker'
        /\ fate[b] = "cut" => f = "cut"
  BY <1>1 DEF Interrupt, InterruptExposed, Exposed, TypeOK, Mine, OwnedBy, Control
<1>4. /\ worker' \in {worker, worker \ {b}} /\ interrupts' = interrupts + 1
      /\ UNCHANGED <<tree, index, head, lease, task, base, look, attempts, status, result,
                     outside, errors>>
  BY DEF Interrupt, InterruptExposed, git, files
<1>5. /\ pc'[b] = q /\ fate'[b] = f
      /\ \A c \in Brokers \ {b} : pc'[c] = pc[c] /\ fate'[c] = fate[c]
  BY <1>1, <1>2, <1>3 DEF TypeOK
<1>6. fate[b] # "killed"
  BY <1>1 DEF Mine, Control
<1>7. Frame(b)
  <2>1. interrupts' >= interrupts /\ errors' >= errors
    BY <1>1, <1>4 DEF TypeOK
  <2> QED BY <1>3, <1>4, <1>5, <1>6, <2>1 DEF Frame, git
<1>8. OwnedBy(b)'
  BY <1>3, <1>5 DEF OwnedBy
<1>9. Control(b)'
  <2>1. q # "over" => lease = b
    BY <1>1, <1>2 DEF Mine, Control
  <2> QED BY <1>4, <1>5, <2>1 DEF Control, Ending, Guarded
<1>10. Reasonable(b)'
  BY <1>1, <1>4, <1>5 DEF Mine, Reasonable, Undecided, Trying, Judged
<1>11. Recorded(b)'
  <2>1. interrupts' >= 1
    BY <1>1, <1>4 DEF TypeOK
  <2>2. q = "over" => status[b] = result[b]
    BY <1>1, <1>2 DEF Mine, Recorded, Undecided, Guarded
  <2>3. q = "release" => ~(interrupts' <= 1)
    <3>1. q = "release" => interrupts >= 1
      BY <1>1, <1>2 DEF Mine, Recorded
    <3> QED BY <3>1, <1>1, <1>4 DEF TypeOK
  <2> QED BY <1>4, <1>5, <2>1, <2>2, <2>3 DEF Recorded, Undecided
<1>12. Seen(b)'
  BY <1>5 DEF Seen
<1> QED BY <1>7, <1>8, <1>9, <1>10, <1>11, <1>12 DEF Steps, Mine

\* A Git call or a write raises.
LEMMA RaiseStep ==
    ASSUME IndInv, NEW b \in Brokers, Raise(b)
    PROVE  Steps(b)
<1>1. TypeOK /\ Mine(b)
  BY MineOfAll
<1>2. pc[b] \in Pcs \ {"idle", "admit", "running", "stopping", "release", "over"}
  BY DEF Raise, Guarded, Pcs
<1>3. PICK q \in {"release", "over"}, f \in {"cut", "error"} :
        /\ pc' = [pc EXCEPT ![b] = q] /\ fate' = [fate EXCEPT ![b] = f]
        /\ pc[b] \in Guarded <=> q = "release"
        /\ f = "cut" <=> fate[b] = "cut" \/ pc[b] = "starting"
  BY <1>1, <1>2 DEF Raise, Exposed, Goto, TypeOK
<1>4. errors' = errors + 1
  BY DEF Raise
<1>5. errors' >= errors /\ errors' # 0
  BY <1>1, <1>4 DEF TypeOK
<1>6. Leaves(b, q, f)
  BY <1>3, <1>5 DEF Raise, Leaves, git, files
<1> QED BY <1>2, <1>3, <1>5, <1>6, LeavesKeeps

\* SIGKILL: the lease is free, the provider lives on.
LEMMA KillStep ==
    ASSUME BrokerAssumption, IndInv, NEW b \in Brokers, Kill(b)
    PROVE  Steps(b)
<1>1. TypeOK /\ Mine(b)
  BY MineOfAll
<1>2. /\ UNCHANGED <<git, worker, task, base, look, attempts, files, outside, interrupts, errors>>
      /\ pc'[b] = "over" /\ fate'[b] = "killed"
      /\ \A c \in Brokers \ {b} : pc'[c] = pc[c] /\ fate'[c] = fate[c]
      /\ lease' = IF lease = b THEN NoBroker ELSE lease
  BY <1>1 DEF Kill, Ends, Goto, TypeOK
<1>3. Frame(b)
  BY <1>1, <1>2 DEF Frame, BrokerAssumption, TypeOK, git, files
<1>4. OwnedBy(b)' /\ Control(b)'
  BY <1>2 DEF OwnedBy, Control, Ending, Guarded
<1>5. Reasonable(b)'
  BY <1>1, <1>2 DEF Mine, Reasonable, Undecided, Trying, Judged
<1>6. Recorded(b)' /\ Seen(b)'
  BY <1>2 DEF Recorded, Seen, Undecided
<1> QED BY <1>3, <1>4, <1>5, <1>6 DEF Steps, Mine

-----------------------------------------------------------------------------
(* The worktree *)

\* Nobody but its provider, which is running, changes the worktree of a broker
\* that holds the lease: what the broker has seen stays true.
LEMMA WorktreeKeeps ==
    ASSUME IndInv, Worktree
    PROVE  IndInv'
<1>1. TypeOK /\ WorkersAreOwned
  BY DEF IndInv
<1>2. UNCHANGED <<lease, pc, task, base, look, attempts, status, result, fate, interrupts, errors>>
  BY DEF Worktree, WorkerChanges, SomebodyChanges, OrphanEnds, files, bounds
<1>3. worker' \subseteq worker
  BY DEF Worktree, WorkerChanges, SomebodyChanges, OrphanEnds
<1>4. {tree', index', head'} \subseteq Contents /\ outside' \in Nat
  <2>1. CASE WorkerChanges
    BY <1>1, <2>1 DEF WorkerChanges, ChangeTree, TypeOK
  <2>2. CASE SomebodyChanges
    BY <1>1, <2>2 DEF SomebodyChanges, ChangeTree, TypeOK
  <2>3. CASE \E b \in Brokers : OrphanEnds(b)
    BY <1>1, <2>3 DEF OrphanEnds, TypeOK, git, bounds
  <2> QED BY <2>1, <2>2, <2>3 DEF Worktree
<1>5. TypeOK'
  BY <1>1, <1>2, <1>3, <1>4 DEF TypeOK
<1>6. ASSUME NEW b \in Brokers PROVE Mine(b)'
  <2>1. Mine(b)
    BY MineOfAll
  <2>2. OwnedBy(b)' /\ Control(b)' /\ Reasonable(b)' /\ Recorded(b)'
    BY <2>1, <1>2, <1>3
       DEF Mine, OwnedBy, Control, Reasonable, Recorded, LastReason, Candidates, Verdict
  <2>3. ASSUME Quiet' PROVE Seen(b)'
    <3>1. Quiet
      <4>1. outside = 0
        <5>1. outside' = 0 /\ outside \in Nat
          BY <1>1, <2>3 DEF Quiet, TypeOK
        <5>2. outside' = outside \/ outside' = outside + 1
          BY DEF Worktree, WorkerChanges, SomebodyChanges, OrphanEnds, bounds
        <5> QED BY <5>1, <5>2
      <4> QED BY <2>3, <4>1, <1>2 DEF Quiet
    <3>2. ~SomebodyChanges
      BY <1>1, <2>3 DEF SomebodyChanges, Quiet, TypeOK
    <3>3. CASE WorkerChanges
      <4>1. PICK w \in worker : TRUE
        BY <3>3 DEF WorkerChanges
      <4>2. lease = w /\ pc[w] \in {"starting", "running", "stopping"}
        BY <1>1, <3>1, <4>1 DEF WorkersAreOwned, Quiet, TypeOK
      <4>3. pc[b] \in Guarded => pc[b] \in {"starting", "running", "stopping"}
        BY <2>1, <4>2 DEF Mine, Control
      <4>4. pc[b] \notin {"recheck_status", "after_status", "compare", "judge", "result",
                          "status", "begin", "attempt"}
        BY <4>3 DEF Guarded, Pcs
      <4> QED BY <1>2, <4>4 DEF Seen
    <3>4. CASE \E c \in Brokers : OrphanEnds(c)
      <4>1. UNCHANGED <<tree, index, head>>
        BY <3>4 DEF OrphanEnds, git
      <4>2. Seen(b)
        BY <2>1, <3>1 DEF Mine
      <4>3. Snapshot' = Snapshot /\ head' = head
        BY <4>1 DEF Snapshot
      <4> QED BY <4>2, <4>3, <1>2 DEF Seen, LastReason, Violates, Changed, _has_index_changes
    <3> QED BY <3>2, <3>3, <3>4 DEF Worktree
  <2> QED BY <2>2, <2>3 DEF Mine
<1>7. \A b \in Brokers : Mine(b)'
  BY <1>6
<1> QED BY <1>5, <1>7, MineOfAllNext

-----------------------------------------------------------------------------
(* The invariant *)

LEMMA InitIsSound == ASSUME BrokerAssumption, Init PROVE IndInv
<1>1. TypeOK
  <2>1. NoTask \in Tasks
    BY DEF NoTask, Tasks, MODES
  <2>2. NoLook \in Snapshots
    BY DEF NoLook, Snapshots, BrokerAssumption
  <2> QED BY <2>1, <2>2 DEF Init, TypeOK, BrokerAssumption, Pcs, Final
<1>2. ASSUME NEW b \in Brokers PROVE Mine(b)
  BY <1>2 DEF Init, Mine, OwnedBy, Control, Reasonable, Recorded, Seen, Ending, Guarded,
              Undecided, Trying, Judged
<1> QED BY <1>1, <1>2, MineOfAll

LEMMA StepKeeps ==
    ASSUME BrokerAssumption, IndInv, [Next]_vars
    PROVE  IndInv'
<1>1. CASE Worktree
  BY <1>1, WorktreeKeeps
<1>2. ASSUME NEW b \in Brokers, StartRun(b) \/ Step(b) \/ Disturb(b) PROVE IndInv'
  <2>1. TypeOK'
    BY <1>2, TypeKept
  <2>2. Steps(b)
    <3>1. CASE StartRun(b)
      BY <3>1, StartRunStep
    <3>2. CASE Inspect(b) \/ Recheck(b) \/ LookAfter(b)
      BY <3>2, ReadHeadStep, ReadStatusStep DEF Inspect, Recheck, LookAfter
    <3>3. CASE Admit(b)
      BY <3>3, AdmitStep
    <3>4. CASE TakeLease(b)
      BY <3>4, TakeLeaseStep
    <3>5. CASE Compare(b)
      BY <3>5, CompareStep
    <3>6. CASE Begin(b)
      BY <3>6, BeginStep
    <3>7. CASE StartAttempt(b)
      BY <3>7, StartAttemptStep
    <3>8. CASE EnterInvoke(b) \/ LeaveInvoke(b)
      BY <3>8, EnterInvokeStep, LeaveInvokeStep
    <3>9. CASE FinishAttempt(b)
      BY <3>9, FinishAttemptStep
    <3>10. CASE Judge(b)
      BY <3>10, JudgeStep
    <3>11. CASE WriteResult(b)
      BY <3>11, WriteResultStep
    <3>12. CASE WriteStatus(b)
      BY <3>12, WriteStatusStep
    <3>13. CASE ReturnResult(b)
      BY <3>13, ReturnResultStep
    <3>14. CASE Release(b)
      BY <3>14, ReleaseStep
    <3>15. CASE PersistInterrupted(b)
      BY <3>15, PersistInterruptedStep
    <3>16. CASE Interrupt(b) \/ InterruptExposed(b)
      BY <3>16, InterruptSteps
    <3>17. CASE Raise(b)
      BY <3>17, RaiseStep
    <3>18. CASE Kill(b)
      BY <3>18, KillStep
    <3> QED BY <1>2, <3>1, <3>2, <3>3, <3>4, <3>5, <3>6, <3>7, <3>8, <3>9, <3>10, <3>11, <3>12,
               <3>13, <3>14, <3>15, <3>16, <3>17, <3>18 DEF Step, Disturb
  <2> QED BY <2>1, <2>2, FrameKeeps DEF Steps
<1>3. CASE UNCHANGED vars
  <2>1. TypeOK'
    BY <1>3 DEF IndInv, TypeOK, vars
  <2>2. WorkersAreOwned'
    BY <1>3 DEF IndInv, WorkersAreOwned, vars
  <2>3. ASSUME NEW b \in Brokers
        PROVE  (Control(b) /\ Reasonable(b) /\ Recorded(b) /\ (Quiet => Seen(b)))'
    <3>1. Control(b) /\ Reasonable(b) /\ Recorded(b) /\ (Quiet => Seen(b))
      BY DEF IndInv
    <3> QED BY <3>1, <1>3 DEF vars, Control, Reasonable, Recorded, Seen, Quiet, LastReason,
                              Violates, Changed, Snapshot
  <2> QED BY <2>1, <2>2, <2>3 DEF IndInv
<1> QED BY <1>1, <1>2, <1>3 DEF Next

-----------------------------------------------------------------------------
(* The theorems *)

LEMMA AttemptsAreHonest ==
    ASSUME BrokerAssumption, IndInv, NEW b \in Brokers, NEW k \in DOMAIN attempts[b]
    PROVE  LET a == attempts[b][k] IN
           /\ a.provider \in PROVIDERS /\ a.outcome \in ProcessEnds
           /\ a.reason \in {Classify(a.provider, a.outcome), "workspace_changed"}
<1>1. attempts[b] \in Seq(Attempts)
  BY DEF IndInv, TypeOK
<1>2. attempts[b][k] \in Attempts
  BY <1>1
<1>3. Outcomes \subseteq ProcessEnds
  BY DEF BrokerAssumption
<1>4. Reasonable(b)
  BY DEF IndInv
<1> QED BY <1>2, <1>3, <1>4 DEF Attempts, Reasonable

LEMMA BaselinesFollow == ASSUME BrokerAssumption, IndInv PROVE BaselineIsMet
<1>1. ASSUME NEW b \in Brokers, pc[b] = "attempt", Quiet PROVE Snapshot = base[b]
  BY <1>1 DEF IndInv, Seen
<1>2. StartsFromBaseline
  BY <1>1 DEF StartsFromBaseline
<1>3. FallbackMeetsBaseline
  <2> SUFFICES ASSUME NEW b \in Brokers, pc[b] = "attempt", Len(attempts[b]) = 1
               PROVE  /\ task[b].mode = "read-only"
                      /\ Quiet => Snapshot = base[b] /\ (Clean(base[b]) => tree = base[b].head)
    BY DEF FallbackMeetsBaseline
  <2>1. attempts[b] # <<>>
    <3>1. Len(<<>>) # 1
      OBVIOUS
    <3> QED BY <3>1, Zenon
  <2>2. task[b].mode = "read-only"
    BY <2>1 DEF IndInv, Reasonable, Trying
  <2>3. Snapshot = base[b] /\ Clean(base[b]) => tree = base[b].head
    <3>1. Snapshot = base[b] /\ Clean(base[b]) => Clean(Snapshot) /\ base[b].head = Snapshot.head
      BY Zenon
    <3>2. Snapshot.head = head /\ (Clean(Snapshot) => tree = index /\ index = head)
      BY DEF Snapshot, Clean
    <3> QED BY <3>1, <3>2
  <2> QED BY <1>1, <2>2, <2>3
<1>4. FallbackHasACause
  <2> SUFFICES ASSUME NEW b \in Brokers,
                      Len(attempts[b]) = 2 \/ (pc[b] = "attempt" /\ attempts[b] # <<>>)
               PROVE  LET p == attempts[b][1].outcome IN
                      /\ ~p.timed_out /\ (p.overflow => p.unavailable)
                      /\ p.unavailable \/ p.exit # 0 \/ p.errors \/ p.subtype = "budget"
    BY DEF FallbackHasACause
  <2> DEFINE a == attempts[b][1]
  <2>1. 1 \in DOMAIN attempts[b]
    BY DEF IndInv, TypeOK
  <2>2. a.reason \in FALLBACK_REASONS
    BY DEF IndInv, Reasonable, Trying
  <2>3. /\ a.provider \in PROVIDERS /\ a.outcome \in ProcessEnds
        /\ a.reason \in {Classify(a.provider, a.outcome), "workspace_changed"}
    BY <2>1, AttemptsAreHonest
  <2>4. Classify(a.provider, a.outcome) \in FALLBACK_REASONS
    BY <2>2, <2>3 DEF FALLBACK_REASONS
  <2> QED BY <2>3, <2>4, ClassifyIsHonest
<1> QED BY <1>2, <1>3, <1>4 DEF BaselineIsMet

LEMMA ReportsFollow == ASSUME BrokerAssumption, IndInv PROVE ReportsAreTrue
<1>1. CompletedIsHarmless
  <2> SUFFICES ASSUME NEW b \in Brokers, pc[b] \in {"result", "status"},
                      LastReason(b) = "success", Quiet
               PROVE  /\ head = base[b].head
                      /\ task[b].mode = "workspace-write" => index = head
                      /\ task[b].mode = "read-only" => Snapshot = base[b]
    BY DEF CompletedIsHarmless
  <2>1. look[b] = Snapshot /\ ~Violates(b, TRUE)
    BY DEF IndInv, Seen
  <2>2. task[b].mode \in MODES
    <3>1. task[b] \in Tasks
      BY DEF IndInv, TypeOK
    <3> QED BY <3>1 DEF Tasks
  <2>3. Snapshot.head = head /\ (Snapshot.staged <=> index # head)
    BY DEF Snapshot
  <2>4. CASE task[b].mode = "read-only"
    <3>1. Snapshot = base[b]
      BY <2>1, <2>4 DEF Violates, Changed
    <3> QED BY <3>1, <2>3, <2>4
  <2>5. CASE task[b].mode = "workspace-write"
    <3>1. look[b].head = base[b].head /\ ~look[b].staged
      BY <2>1, <2>5 DEF Violates, _has_index_changes
    <3> QED BY <3>1, <2>1, <2>3, <2>5
  <2> QED BY <2>2, <2>4, <2>5 DEF MODES
<1>2. EndedRunsSaySo
  BY DEF IndInv, Recorded, EndedRunsSaySo
<1>3. SuccessIsEarned
  <2> SUFFICES ASSUME NEW b \in Brokers, NEW k \in DOMAIN attempts[b],
                      attempts[b][k].reason = "success"
               PROVE  LET a == attempts[b][k] IN
                      /\ ~Stopped(a.outcome) /\ a.outcome.exit = 0 /\ ~a.outcome.malformed
                      /\ a.provider # "opencode" => ~a.outcome.errors
    BY DEF SuccessIsEarned
  <2> DEFINE a == attempts[b][k]
  <2>1. /\ a.provider \in PROVIDERS /\ a.outcome \in ProcessEnds
        /\ Classify(a.provider, a.outcome) = "success"
    BY AttemptsAreHonest
  <2> QED BY <2>1, ClassifyIsHonest
<1> QED BY <1>1, <1>2, <1>3 DEF ReportsAreTrue

\* The invariant holds of every run, for any number of brokers, tasks and ways a
\* provider may end (_run_task_impl).
THEOREM BrokerInvariant == ASSUME BrokerAssumption PROVE Spec => []IndInv
<1>1. Init => IndInv
  BY InitIsSound
<1>2. IndInv /\ [Next]_vars => IndInv'
  BY StepKeeps
<1> QED BY <1>1, <1>2, PTL DEF Spec

\* Workers of one worktree are serialised: a provider that is alive works under
\* the lease of the broker that waits for it, unless that broker was killed, or a
\* signal met its _invoke between Popen and the try block or in the finally clause, or
\* a thread could not be started before that block (_run_task_impl, _invoke).
THEOREM WorkersOwned == ASSUME BrokerAssumption PROVE Spec => []WorkersAreOwned
<1>1. IndInv => WorkersAreOwned
  BY DEF IndInv
<1> QED BY <1>1, BrokerInvariant, PTL

\* An attempt starts from the worktree the run was admitted with; a second one
\* has a cause that the first provider's process showed (_run_task_impl,
\* _classify_codex, _classify_claude, _classify_opencode).
THEOREM BaselineMet == ASSUME BrokerAssumption PROVE Spec => []BaselineIsMet
<1>1. IndInv => BaselineIsMet
  BY BaselinesFollow
<1> QED BY <1>1, BrokerInvariant, PTL

\* A run that reports completed left no commit and nothing staged, a success is
\* not read into a process that failed, and the two files of a run that is over
\* agree (_run_task_impl, _persist_interrupted_run).
THEOREM ReportsTrue == ASSUME BrokerAssumption PROVE Spec => []ReportsAreTrue
<1>1. IndInv => ReportsAreTrue
  BY ReportsFollow
<1> QED BY <1>1, BrokerInvariant, PTL

-----------------------------------------------------------------------------
(* The inside of one _invoke, for any number of children and any limits: the *)
(* group is gone when the call returns, and two readers with one limit lose  *)
(* nothing silently.                                                         *)

\* write() of a process of the group into a pipe.
LEMMA WriteKeeps ==
    ASSUME InvokeAssumption, InvokeInv, NEW s \in Streams, Write(s)
    PROVE  InvokeInv'
<1>1. InvokeTypeOK /\ GroupEnds /\ NothingVanishes /\ OverflowIsReal /\ Writing
  BY DEF InvokeInv, Write
<1>2. PICK n \in 1..PipeSize :
        /\ pipe[s] + n <= PipeSize /\ written + n <= MaxOutput
        /\ pipe' = [pipe EXCEPT ![s] = @ + n] /\ written' = written + n
  BY DEF Write
<1>3. UNCHANGED <<leader, children, captured, output_overflow, timed_out, reader, phase, round,
                  raising, interruptions>>
  BY DEF Write, group
<1>4. PICK out \in Nat, err \in Nat : out = pipe["stdout"] /\ err = pipe["stderr"]
  BY <1>1 DEF InvokeTypeOK, Streams, InvokeAssumption
<1>5. /\ captured \in Nat /\ written \in Nat /\ n \in Nat /\ MAX_CAPTURE_BYTES \in Nat
      /\ PipeSize \in Nat /\ MaxOutput \in Nat
  BY <1>1 DEF InvokeTypeOK, InvokeAssumption
<1>6. \/ s = "stdout" /\ pipe'["stdout"] = out + n /\ pipe'["stderr"] = err
      \/ s = "stderr" /\ pipe'["stdout"] = out /\ pipe'["stderr"] = err + n
  BY <1>1, <1>2, <1>4 DEF InvokeTypeOK, Streams
<1>7. InvokeTypeOK'
  <2>1. pipe' \in [Streams -> 0..PipeSize]
    <3>1. pipe[s] + n \in 0..PipeSize
      <4>1. pipe[s] \in Nat
        BY <1>1, <1>5 DEF InvokeTypeOK
      <4> QED BY <4>1, <1>2, <1>5
    <3> QED BY <1>1, <1>2, <3>1 DEF InvokeTypeOK
  <2>2. written' \in 0..MaxOutput
    BY <1>2, <1>5
  <2> QED BY <1>1, <1>3, <2>1, <2>2 DEF InvokeTypeOK
<1>8. GroupEnds'
  BY <1>1, <1>3 DEF GroupEnds, Writing
<1>9. NothingVanishes'
  <2>1. \A r \in Streams : reader[r] # "done"
    BY <1>1 DEF NothingVanishes
  <2>2. captured + out + err <= written /\ (~output_overflow => captured + out + err = written)
    BY <1>1, <1>4 DEF NothingVanishes
  <2>3. captured' + pipe'["stdout"] + pipe'["stderr"] <= written'
    BY <1>2, <1>3, <1>5, <1>6, <2>2
  <2>4. ~output_overflow' => captured' + pipe'["stdout"] + pipe'["stderr"] = written'
    BY <1>2, <1>3, <1>5, <1>6, <2>2
  <2>5. \A r \in Streams : reader'[r] # "done"
    BY <1>3, <2>1
  <2> QED BY <2>3, <2>4, <2>5 DEF NothingVanishes
<1>10. OverflowIsReal'
  BY <1>1, <1>2, <1>3, <1>5 DEF OverflowIsReal
<1> QED BY <1>7, <1>8, <1>9, <1>10 DEF InvokeInv

\* read_stream: what fits under capture_lock is kept, the rest sets the mark.
LEMMA ReadStreamKeeps ==
    ASSUME InvokeAssumption, InvokeInv, NEW s \in Streams, ReadStream(s)
    PROVE  InvokeInv'
<1>1. InvokeTypeOK /\ GroupEnds /\ NothingVanishes /\ OverflowIsReal /\ reader[s] = "reading"
  BY DEF InvokeInv, ReadStream
<1>2. UNCHANGED <<leader, children, written, timed_out, phase, round, raising, interruptions>>
  BY DEF ReadStream, group
<1>3. PICK out \in Nat, err \in Nat : out = pipe["stdout"] /\ err = pipe["stderr"]
  BY <1>1 DEF InvokeTypeOK, Streams, InvokeAssumption
<1>4. /\ captured \in Nat /\ written \in Nat /\ MAX_CAPTURE_BYTES \in Nat /\ PipeSize \in Nat
      /\ captured <= MAX_CAPTURE_BYTES /\ output_overflow \in BOOLEAN
  BY <1>1 DEF InvokeTypeOK, InvokeAssumption
<1>5. GroupEnds' /\ (Writing' <=> Writing)
  BY <1>1, <1>2 DEF GroupEnds, Writing
<1>6. CASE /\ pipe[s] = 0 /\ ~Writing
           /\ reader' = [reader EXCEPT ![s] = "done"]
           /\ UNCHANGED <<pipe, captured, output_overflow>>
  <2>1. InvokeTypeOK'
    BY <1>1, <1>2, <1>6 DEF InvokeTypeOK
  <2>2. NothingVanishes'
    BY <1>1, <1>2, <1>5, <1>6 DEF NothingVanishes, InvokeTypeOK
  <2>3. OverflowIsReal'
    BY <1>1, <1>2, <1>6 DEF OverflowIsReal
  <2> QED BY <1>5, <2>1, <2>2, <2>3 DEF InvokeInv
<1>7. ASSUME NEW n \in 1..pipe[s], pipe' = [pipe EXCEPT ![s] = @ - n], Keep(n),
             UNCHANGED reader
      PROVE  InvokeInv'
  <2>1. n \in Nat /\ n <= pipe[s] /\ pipe[s] \in 0..PipeSize
    BY <1>1, <1>7 DEF InvokeTypeOK, InvokeAssumption
  <2>2. \/ s = "stdout" /\ n <= out /\ pipe'["stdout"] = out - n /\ pipe'["stderr"] = err
        \/ s = "stderr" /\ n <= err /\ pipe'["stdout"] = out /\ pipe'["stderr"] = err - n
    BY <1>1, <1>3, <1>7, <2>1 DEF InvokeTypeOK, Streams
  <2>3. PICK rest \in Nat : rest = MAX_CAPTURE_BYTES - captured
    BY <1>4
  <2>4. \/ n <= rest /\ captured' = captured + n /\ output_overflow' = output_overflow
        \/ n > rest /\ captured' = captured + rest /\ output_overflow' = TRUE
    <3>1. CASE n <= rest
      <4>1. captured' = captured + n
        BY <1>7, <2>3, <3>1 DEF Keep
      <4>2. ~(n > rest)
        BY <2>1, <3>1
      <4>3. output_overflow' = output_overflow
        <5>1. output_overflow' = (output_overflow \/ n > rest)
          BY <1>7, <2>3 DEF Keep
        <5> QED BY <1>4, <4>2, <5>1
      <4> QED BY <3>1, <4>1, <4>3
    <3>2. CASE n > rest
      <4>1. ~(n <= rest)
        BY <2>1, <3>2
      <4>2. captured' = captured + rest /\ output_overflow' = TRUE
        BY <1>7, <2>3, <3>2, <4>1 DEF Keep
      <4> QED BY <3>2, <4>2
    <3>3. n <= rest \/ n > rest
      BY <2>1
    <3> QED BY <3>1, <3>2, <3>3, Zenon
  <2>5. InvokeTypeOK'
    <3>1. pipe[s] - n \in 0..PipeSize
      BY <1>4, <2>1
    <3>2. pipe' \in [Streams -> 0..PipeSize]
      BY <1>1, <1>7, <3>1 DEF InvokeTypeOK
    <3>3. captured' \in 0..MAX_CAPTURE_BYTES
      BY <1>4, <2>1, <2>3, <2>4
    <3> QED BY <1>1, <1>2, <1>4, <1>7, <2>4, <3>2, <3>3 DEF InvokeTypeOK
  <2>6. captured + out + err <= written /\ (~output_overflow => captured + out + err = written)
    BY <1>1, <1>3 DEF NothingVanishes
  <2>7. NothingVanishes'
    <3>1. captured' + pipe'["stdout"] + pipe'["stderr"] <= written'
      BY <1>2, <1>4, <2>1, <2>2, <2>3, <2>4, <2>6
    <3>2. ~output_overflow' => captured' + pipe'["stdout"] + pipe'["stderr"] = written'
      BY <1>2, <1>4, <2>1, <2>2, <2>3, <2>4, <2>6
    <3>3. \A r \in Streams : reader'[r] = "done" => pipe'[r] = 0 /\ ~Writing'
      BY <1>1, <1>5, <1>7 DEF NothingVanishes, InvokeTypeOK
    <3> QED BY <3>1, <3>2, <3>3 DEF NothingVanishes
  <2>8. OverflowIsReal'
    <3>1. CASE n <= rest /\ captured' = captured + n /\ output_overflow' = output_overflow
      <4>1. output_overflow => rest = 0
        BY <1>1, <1>4, <2>3 DEF OverflowIsReal
      <4>2. ~output_overflow
        BY <4>1, <3>1, <1>7
      <4> QED BY <4>2, <3>1 DEF OverflowIsReal
    <3>2. CASE n > rest /\ captured' = captured + rest /\ output_overflow' = TRUE
      <4>1. captured' = MAX_CAPTURE_BYTES
        BY <3>2, <1>4, <2>3
      <4>2. captured + n <= written
        BY <1>4, <2>1, <2>2, <2>6
      <4>3. written' > captured'
        BY <3>2, <1>2, <1>4, <2>1, <2>3, <4>2
      <4> QED BY <4>1, <4>3 DEF OverflowIsReal
    <3> QED BY <2>4, <3>1, <3>2
  <2> QED BY <1>5, <2>5, <2>7, <2>8 DEF InvokeInv
<1> QED BY <1>6, <1>7 DEF ReadStream

\* Everything else leaves the pipes alone, and the dead are dead.
LEMMA OutputStays ==
    ASSUME InvokeInv, UNCHANGED <<pipe, written, captured, output_overflow>>,
           \A s \in Streams : reader'[s] = "done" => reader[s] = "done",
           ~Writing => ~Writing'
    PROVE  NothingVanishes' /\ OverflowIsReal'
BY DEF InvokeInv, NothingVanishes, OverflowIsReal

\* Processes that fork and end by themselves.
LEMMA GroupKeeps ==
    ASSUME InvokeAssumption, InvokeInv, Fork \/ Exit
    PROVE  InvokeInv'
<1>1. InvokeTypeOK /\ GroupEnds
  BY DEF InvokeInv
<1>2. UNCHANGED <<pipe, written, captured, output_overflow, reader, timed_out, phase, round, raising,
                  interruptions>>
  BY DEF Fork, Exit, output
<1>3. InvokeTypeOK'
  <2>1. leader' \in {"running", "zombie", "reaped"} /\ children' \subseteq Children
    BY <1>1 DEF Fork, Exit, InvokeTypeOK
  <2> QED BY <1>1, <1>2, <2>1 DEF InvokeTypeOK
<1>4. ~Writing => ~Writing'
  BY DEF Fork, Exit, Writing
<1>5. GroupEnds'
  <2>1. leader = "reaped" /\ children = {} => leader' = "reaped" /\ children' = {}
    BY DEF Fork, Exit
  <2> QED BY <1>1, <1>2, <1>4, <2>1 DEF GroupEnds
<1> QED BY <1>2, <1>3, <1>4, <1>5, OutputStays DEF InvokeInv

\* The main thread: the polling loop, _terminate_process and the joins.
LEMMA MainKeeps ==
    ASSUME InvokeAssumption, InvokeInv, Main
    PROVE  InvokeInv'
<1>1. InvokeTypeOK /\ GroupEnds /\ phase \in Phases /\ round \in 0..3
  BY DEF InvokeInv, InvokeTypeOK
<1>2. CASE Poll
  <2>1. UNCHANGED <<children, pipe, written, captured, output_overflow, reader, raising,
                    interruptions>>
    BY <1>2 DEF Poll, output
  <2>2. ~Writing => ~Writing'
    BY <1>2 DEF Poll, Writing, Reaped
  <2>3. /\ leader' \in {"running", "zombie", "reaped"} /\ phase' \in {"final", "stop"}
        /\ round' \in {0, round} /\ timed_out' \in BOOLEAN
    BY <1>1, <1>2 DEF Poll, Reaped, InvokeTypeOK
  <2>4. InvokeTypeOK'
    BY <1>1, <2>1, <2>3 DEF InvokeTypeOK, Phases
  <2>5. GroupEnds'
    BY <1>1, <2>2, <2>3 DEF GroupEnds
  <2> QED BY <2>1, <2>2, <2>4, <2>5, OutputStays DEF InvokeInv
<1>3. CASE Escalate
  <2>1. /\ UNCHANGED <<pipe, written, captured, output_overflow, reader, timed_out, phase, raising,
                       interruptions>>
        /\ round' = round + 1 /\ round < 3 /\ phase \in {"handler", "stop", "final"}
    BY <1>3 DEF Escalate, Terminating, output
  <2>2. /\ leader' \in {leader, "zombie"} /\ (leader' = "zombie" => leader \in {"running", "zombie"})
        /\ children' \subseteq children
    BY <1>3 DEF Escalate, Signals
  <2>3. round' \in 0..3
    BY <1>1, <2>1
  <2>4. InvokeTypeOK'
    BY <1>1, <2>1, <2>2, <2>3 DEF InvokeTypeOK
  <2>5. ~Writing => ~Writing'
    BY <2>2 DEF Writing
  <2>6. round' = 3 => ~Writing'
    BY <1>1, <1>3 DEF Escalate, Signals, Writing, InvokeTypeOK
  <2>7. GroupEnds'
    BY <2>1, <2>6 DEF GroupEnds
  <2> QED BY <2>1, <2>4, <2>5, <2>7, OutputStays DEF InvokeInv
<1>4. CASE Reap
  <2>1. /\ UNCHANGED <<children, pipe, written, captured, output_overflow, reader, timed_out, phase,
                       round, raising, interruptions>>
        /\ leader = "zombie" /\ leader' = "reaped"
    BY <1>4 DEF Reap, output
  <2>2. ~Writing => ~Writing'
    BY <2>1 DEF Writing
  <2>3. InvokeTypeOK' /\ GroupEnds'
    BY <1>1, <2>1, <2>2 DEF InvokeTypeOK, GroupEnds
  <2> QED BY <2>1, <2>2, <2>3, OutputStays DEF InvokeInv
<1>5. CASE Terminated
  <2>1. UNCHANGED <<leader, children, pipe, written, captured, output_overflow, reader, timed_out,
                    raising, interruptions>>
    BY <1>5 DEF Terminated, output, group
  <2>2. Writing' <=> Writing
    BY <2>1 DEF Writing
  <2>3. leader = "reaped" /\ children = {}
    BY <1>1, <1>5 DEF Terminated, group_exists, GroupEnds, Writing
  <2>4. phase' \in {"raised", "final", "join"} /\ round' = 0
    BY <1>5 DEF Terminated, Terminating
  <2>5. InvokeTypeOK' /\ GroupEnds'
    BY <1>1, <2>1, <2>3, <2>4 DEF InvokeTypeOK, GroupEnds, Phases
  <2> QED BY <2>1, <2>2, <2>5, OutputStays DEF InvokeInv
<1>6. CASE JoinReader \/ Return
  <2>1. /\ UNCHANGED <<leader, children, pipe, written, captured, output_overflow, timed_out,
                       round, raising, interruptions>>
        /\ phase = "join" /\ phase' \in {"join", "raised", "returned"}
    BY <1>6 DEF JoinReader, Return, output, group
  <2>2. /\ reader' \in [Streams -> {"created", "reading", "done", "closed"}]
        /\ \A s \in Streams : reader'[s] = "done" => reader[s] = "done"
    BY <1>1, <1>6 DEF JoinReader, Return, output, InvokeTypeOK
  <2>3. Writing' <=> Writing
    BY <2>1 DEF Writing
  <2>4. InvokeTypeOK' /\ GroupEnds'
    BY <1>1, <2>1, <2>2, <2>3 DEF InvokeTypeOK, GroupEnds, Phases
  <2> QED BY <2>1, <2>2, <2>3, <2>4, OutputStays DEF InvokeInv
<1>7. CASE StartReader \/ EnterTry
  <2>1. /\ UNCHANGED <<leader, children, pipe, written, captured, output_overflow, timed_out,
                       round, raising, interruptions>>
        /\ phase' \in {"start", "armed", "poll"}
    BY <1>7 DEF StartReader, EnterTry, output, group
  <2>2. /\ reader' \in [Streams -> {"created", "reading", "done", "closed"}]
        /\ \A s \in Streams : reader'[s] = "done" => reader[s] = "done"
    BY <1>1, <1>7 DEF StartReader, EnterTry, output, InvokeTypeOK
  <2>3. Writing' <=> Writing
    BY <2>1 DEF Writing
  <2>4. InvokeTypeOK' /\ GroupEnds'
    BY <1>1, <2>1, <2>2, <2>3 DEF InvokeTypeOK, GroupEnds, Phases
  <2> QED BY <2>1, <2>2, <2>3, <2>4, OutputStays DEF InvokeInv
<1> QED BY <1>2, <1>3, <1>4, <1>5, <1>6, <1>7 DEF Main

\* SIGINT or SIGTERM to the broker, before the try block, in the loop or in the
\* finally clause, and a thread that cannot be started.
LEMMA InterruptsKeep ==
    ASSUME InvokeAssumption, InvokeInv, Interrupted
    PROVE  InvokeInv'
<1>1. InvokeTypeOK /\ GroupEnds
  BY DEF InvokeInv
<1>2. /\ UNCHANGED <<leader, children, pipe, written, captured, output_overflow, reader, timed_out>>
      /\ raising' = TRUE /\ phase' \in {"handler", "stop", "cut"} /\ round' \in {0, round}
  BY DEF Interrupted, InterruptStart, StartFails, InterruptLoop, InterruptFinally, group, output
<1>3. interruptions' \in 0..MaxInterruptions
  BY <1>1 DEF Interrupted, InterruptStart, StartFails, InterruptLoop, InterruptFinally,
              InvokeTypeOK, InvokeAssumption
<1>4. Writing' <=> Writing
  BY <1>2 DEF Writing
<1>5. InvokeTypeOK'
  BY <1>1, <1>2, <1>3 DEF InvokeTypeOK, Phases
<1>6. GroupEnds'
  BY <1>1, <1>2, <1>4 DEF GroupEnds
<1> QED BY <1>2, <1>4, <1>5, <1>6, OutputStays DEF InvokeInv

LEMMA InvokeInitIsSound == ASSUME InvokeAssumption, InvokeInit PROVE InvokeInv
<1>1. InvokeTypeOK
  <2>1. 0 \in 0..PipeSize /\ 0 \in 0..MaxOutput /\ 0 \in 0..MAX_CAPTURE_BYTES
        /\ 0 \in 0..MaxInterruptions
    BY DEF InvokeAssumption
  <2>2. pipe \in [Streams -> 0..PipeSize] /\ reader \in [Streams -> {"created", "reading", "done", "closed"}]
    BY <2>1 DEF InvokeInit
  <2>3. {output_overflow, timed_out, raising} \subseteq BOOLEAN
    BY DEF InvokeInit
  <2>4. written \in 0..MaxOutput /\ captured \in 0..MAX_CAPTURE_BYTES /\ round \in 0..3
        /\ interruptions \in 0..MaxInterruptions
    BY <2>1 DEF InvokeInit
  <2>5. leader \in {"running", "zombie", "reaped"} /\ children \subseteq Children /\ phase \in Phases
    BY DEF InvokeInit, Phases
  <2> QED BY <2>2, <2>3, <2>4, <2>5 DEF InvokeTypeOK
<1>2. GroupEnds /\ NothingVanishes /\ OverflowIsReal
  BY DEF InvokeInit, GroupEnds, NothingVanishes, OverflowIsReal, Streams
<1> QED BY <1>1, <1>2 DEF InvokeInv

LEMMA InvokeStepKeeps == ASSUME InvokeAssumption, InvokeInv, [InvokeNext]_invokeVars PROVE InvokeInv'
<1>1. CASE InvokeNext
  BY <1>1, MainKeeps, GroupKeeps, WriteKeeps, ReadStreamKeeps, InterruptsKeep DEF InvokeNext, Others
<1>2. CASE UNCHANGED invokeVars
  BY <1>2 DEF invokeVars, InvokeInv, InvokeTypeOK, GroupEnds, NothingVanishes, OverflowIsReal, Writing
<1> QED BY <1>1, <1>2

LEMMA InvokeSoundFollows == ASSUME InvokeAssumption, InvokeInv PROVE InvokeIsSound
<1>1. NothingOutlivesInvoke
  BY DEF InvokeInv, GroupEnds, NothingOutlivesInvoke
<1>2. NoSilentLoss
  <2> SUFFICES ASSUME ~output_overflow, \A s \in Streams : reader[s] = "done"
               PROVE  captured = written
    BY DEF NoSilentLoss
  <2>1. pipe["stdout"] = 0 /\ pipe["stderr"] = 0
    BY DEF InvokeInv, NothingVanishes, Streams
  <2>2. captured \in Nat /\ captured + 0 + 0 = written
    BY <2>1 DEF InvokeInv, NothingVanishes, InvokeTypeOK, InvokeAssumption
  <2> QED BY <2>2
<1> QED BY <1>1, <1>2 DEF InvokeIsSound, InvokeInv

\* Nothing the provider started outlives _invoke, unless an exception leaves it
\* before its try block or from its finally clause, where nothing catches it; and its
\* output is not lost without the overflow mark, nor marked for nothing, for any
\* number of children and any limits (_invoke, _terminate_process, read_stream).
THEOREM InvokeSound == ASSUME InvokeAssumption PROVE InvokeSpec => []InvokeIsSound
<1>1. InvokeInit => InvokeInv
  BY InvokeInitIsSound
<1>2. InvokeInv /\ [InvokeNext]_invokeVars => InvokeInv'
  BY InvokeStepKeeps
<1>3. InvokeInv => InvokeIsSound
  BY InvokeSoundFollows
<1> QED BY <1>1, <1>2, <1>3, PTL DEF InvokeSpec
=============================================================================
