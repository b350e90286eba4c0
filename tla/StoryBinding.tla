----------------------------- MODULE StoryBinding -----------------------------
(***************************************************************************)
(* How the result of a job finds its way into a scene of a story           *)
(* (core/story/binding.py, replay_selection.py, repository.py, and the     *)
(* story half of core/jobs/completion.py).  A worker that finishes a job   *)
(* binds it live, replacing what the role holds; the same worker, and the  *)
(* retry loop or startup recovery after it, converge the job by replay,    *)
(* which chooses among the succeeded candidates and never replaces         *)
(* anything.  Meanwhile the story is edited, rows of the job table may be  *)
(* unreadable and the process may crash.                                   *)
(*                                                                         *)
(* One role of one scene is modelled: roles share only the lock, under     *)
(* which a mutation is one step.  Jobs are numbered in the order of their  *)
(* created_at.                                                             *)
(***************************************************************************)
EXTENDS Integers, FiniteSets

CONSTANTS
    Jobs,           \* a set of naturals
    Workers,        \* job runner threads
    Loop,           \* the pass of startup recovery or of run_retry_loop
    None,
    MaxCrashes,     \* bound: crashes of the process
    MaxEdits,       \* bound: edits of the scene list, deletion included
    MaxFaults,      \* bound: rows corrupted, failed syncs, unreadable stories
    MaxTrouble      \* bound: all of these together

Actors == Workers \cup {Loop}

ASSUME BindingAssumption ==
    /\ Jobs \subseteq Nat /\ IsFiniteSet(Jobs) /\ None \notin Jobs
    /\ Loop \notin Workers
    /\ {MaxCrashes, MaxEdits, MaxFaults, MaxTrouble} \subseteq Nat

VARIABLES
    target,     \* whether a job names this scene and role, or no scene
    outputs,    \* whether its result has outputs
    status, row, asset, done,
    story, readable, scene,     \* the document
    role, jobIds,               \* asset_ids[role], by its job, and job_ids
    pc, job,                    \* what an actor does, for which job
    index,                      \* SceneCandidateIndex of an actor
    todo,                       \* pending_jobs of the pass
    edited,                     \* the scene was removed or the story deleted
    replayed,                   \* ghost: the last binding made by replay, chosen or not
    crashes, edits, faults

fixed == <<target, outputs>>
jobState == <<status, row, asset, done>>
doc == <<story, readable, scene, role, jobIds, edited>>
actors == <<pc, job, index, todo>>
counters == <<crashes, edits, faults>>
vars == <<fixed, jobState, doc, actors, replayed, counters>>

NoIndex == [candidates |-> {}, tainted |-> FALSE, known |-> {}, built |-> FALSE]

Init ==
    /\ target \in [Jobs -> {"here", "none"}]
    /\ outputs \in [Jobs -> BOOLEAN]
    /\ status = [j \in Jobs |-> "running"] /\ row = [j \in Jobs |-> "good"]
    /\ asset = [j \in Jobs |-> FALSE] /\ done = [j \in Jobs |-> FALSE]
    /\ story = "present" /\ readable = TRUE /\ scene = TRUE
    /\ role = None /\ jobIds = {} /\ edited = FALSE
    /\ pc = [a \in Actors |-> "idle"] /\ job = [a \in Actors |-> None]
    /\ index = [a \in Actors |-> NoIndex] /\ todo = {}
    /\ replayed = [job |-> None, known |-> {}, chosen |-> FALSE]
    /\ crashes = 0 /\ edits = 0 /\ faults = 0

-----------------------------------------------------------------------------
MoreTrouble == crashes + edits + faults < MaxTrouble
MayCrash == crashes < MaxCrashes /\ MoreTrouble
MayEdit == edits < MaxEdits /\ MoreTrouble
MayFail == faults < MaxFaults /\ MoreTrouble

Succeeded == {j \in Jobs : status[j] = "succeeded"}

\* select_scene_bound_params.
SceneBound(j) == target[j] = "here"

\* Mutant: a candidate that will never have an asset may win.
HasUsableOutputAny(j) == TRUE

\* _has_usable_output.
HasUsableOutput(j) == outputs[j] \/ asset[j]

Go(a, where) == pc' = [pc EXCEPT ![a] = where]

\* A worker ends a job: mark_succeeded writes the row, then syncs the asset.
MarkSucceeded(w) ==
    /\ pc[w] = "idle"
    /\ \E j \in Jobs :
        /\ status[j] = "running" /\ \A v \in Workers : job[v] # j
        /\ status' = [status EXCEPT ![j] = "succeeded"]
        /\ job' = [job EXCEPT ![w] = j] /\ Go(w, "sync")
    /\ UNCHANGED <<fixed, row, asset, done, doc, index, todo, replayed, counters>>

\* The sync may raise; the event is then never published.
SyncAsset(w) ==
    /\ pc[w] = "sync"
    /\ \/ /\ asset' = [asset EXCEPT ![job[w]] = outputs[job[w]]]
          /\ Go(w, "bind") /\ UNCHANGED <<job, counters>>
       \/ /\ MayFail /\ faults' = faults + 1
          /\ Go(w, "idle") /\ job' = [job EXCEPT ![w] = None]
          /\ UNCHANGED <<asset, crashes, edits>>
    /\ UNCHANGED <<fixed, status, row, done, doc, index, todo, replayed>>

\* What _bind requires before it takes the lock.
Bindable(j) == row[j] = "good" /\ status[j] = "succeeded" /\ SceneBound(j) /\ asset[j]

\* mutate with _apply_binding: the story is read under the lock.
Bind(j) == role' = j /\ jobIds' = jobIds \cup {j}
DocReadable == story = "present" /\ readable

CanBind(j) == Bindable(j) /\ DocReadable /\ scene

\* The subscriber of the binder: bind_job.
LiveBind(w) ==
    /\ pc[w] = "bind" /\ Go(w, "converge")
    /\ IF CanBind(job[w]) THEN Bind(job[w]) ELSE UNCHANGED <<role, jobIds>>
    /\ UNCHANGED <<fixed, jobState, story, readable, scene, edited, job, index, todo,
                   replayed, counters>>

-----------------------------------------------------------------------------
\* Mutant: any undecodable succeeded row taints every role.
BuildIndexAlarmed ==
    [candidates |-> {j \in Succeeded : row[j] = "good" /\ SceneBound(j)},
     tainted |-> \E j \in Succeeded : row[j] # "good",
     known |-> {j \in Succeeded : SceneBound(j) /\ HasUsableOutput(j)},
     built |-> TRUE]

\* build_scene_candidate_index: an undecodable row matters if its params name
\* this role or cannot be read at all.  known is a ghost: what the index would
\* hold if every row could be decoded.
BuildIndex ==
    [candidates |-> {j \in Succeeded : row[j] = "good" /\ SceneBound(j)},
     tainted |-> \E j \in Succeeded : row[j] = "opaque" \/ (row[j] = "poison" /\ SceneBound(j)),
     known |-> {j \in Succeeded : SceneBound(j) /\ HasUsableOutput(j)},
     built |-> TRUE]

Pending == {j \in Succeeded : ~done[j] /\ row[j] = "good"}

\* One tick: list_terminal_pending_completion, then one index for all of them.
TickStart ==
    /\ pc[Loop] = "idle" /\ todo = {} /\ Pending # {}
    /\ todo' = Pending /\ index' = [index EXCEPT ![Loop] = BuildIndex]
    /\ UNCHANGED <<fixed, jobState, doc, pc, job, replayed, counters>>

TickNext ==
    /\ pc[Loop] = "idle"
    /\ \E j \in todo :
        /\ todo' = todo \ {j} /\ job' = [job EXCEPT ![Loop] = j] /\ Go(Loop, "converge")
    /\ UNCHANGED <<fixed, jobState, doc, index, replayed, counters>>

\* Back to what an actor did before; the index of a pass is kept until its end.
Return(a) ==
    /\ Go(a, "idle") /\ job' = [job EXCEPT ![a] = None]
    /\ index' = IF a = Loop /\ todo # {} THEN index ELSE [index EXCEPT ![a] = NoIndex]

\* converge_job: reads the row, syncs the asset.
Converge(a) ==
    LET j == job[a]
    IN /\ pc[a] = "converge"
       /\ \/ /\ row[j] = "good" /\ ~done[j]
             /\ asset' = [asset EXCEPT ![j] = @ \/ outputs[j]]
             /\ Go(a, IF SceneBound(j) THEN "precheck" ELSE "finish")
             /\ UNCHANGED <<job, index, counters>>
          \/ /\ row[j] # "good" \/ done[j]
             /\ Return(a) /\ UNCHANGED <<asset, counters>>
          \/ /\ row[j] = "good" /\ ~done[j] /\ MayFail
             /\ faults' = faults + 1
             /\ Return(a) /\ UNCHANGED <<asset, crashes, edits>>
       /\ UNCHANGED <<fixed, status, row, done, doc, todo, replayed>>

\* The first read of converge_scene_binding, get_for_recovery.
PreCheck(a) ==
    LET j == job[a]
    IN /\ pc[a] = "precheck"
       /\ \/ /\ story = "deleted" \/ (DocReadable /\ ~scene)
             /\ Go(a, "finish") /\ UNCHANGED <<job, index>>
          \/ /\ story = "present" /\ ~readable
             /\ Return(a)
          \/ /\ DocReadable /\ scene /\ (j \in jobIds \/ role # None)
             /\ Go(a, "replayAgain") /\ UNCHANGED <<job, index>>
          \/ /\ DocReadable /\ scene /\ j \notin jobIds /\ role = None
             /\ IF HasUsableOutput(j) THEN Go(a, "choose") /\ UNCHANGED <<job, index>>
                ELSE Return(a)
       /\ UNCHANGED <<fixed, jobState, doc, todo, replayed, counters>>

\* _select_winner: the newest.
SelectWinner(candidates) == CHOOSE k \in candidates : \A l \in candidates : l <= k

\* Choose a candidate from the index of the pass, or from a fresh one.
Choose(a) ==
    LET j == job[a]
        ix == IF index[a].built THEN index[a] ELSE BuildIndex
        usable == {k \in ix.candidates : HasUsableOutput(k)}
    IN /\ pc[a] = "choose"
       /\ IF ix.tainted THEN Return(a)
          ELSE IF usable # {} /\ SelectWinner(usable) # j
          THEN Go(a, "finish") /\ UNCHANGED <<job, index>>
          ELSE Go(a, "replay") /\ index' = [index EXCEPT ![a] = ix] /\ UNCHANGED job
       /\ UNCHANGED <<fixed, jobState, doc, todo, replayed, counters>>

\* Mutant: the lock is taken, but the role is not looked at again.
ReplayBindsTrusting(j) == CanBind(j)

\* replay_job_safely: only an empty role, and a job not yet recorded.
ReplayBinds(j) == CanBind(j) /\ j \notin jobIds /\ role = None

Replay(a) ==
    LET j == job[a]
    IN /\ pc[a] \in {"replay", "replayAgain"}
       /\ IF row[j] # "good"
          THEN Return(a) /\ UNCHANGED <<role, jobIds, replayed>>
          ELSE /\ IF ReplayBinds(j)
                  THEN /\ Bind(j)
                       /\ replayed' = [job |-> j, known |-> index[a].known,
                                       chosen |-> pc[a] = "replay"]
                  ELSE UNCHANGED <<role, jobIds, replayed>>
               /\ Go(a, IF ReplayBinds(j) \/ pc[a] = "replayAgain" THEN "finish" ELSE "recheck")
               /\ UNCHANGED <<job, index>>
       /\ UNCHANGED <<fixed, jobState, story, readable, scene, edited, todo, counters>>

\* The story is read again before a replay without effect is believed.
ReCheck(a) ==
    /\ pc[a] = "recheck"
    /\ IF story = "deleted" \/ (DocReadable /\ (~scene \/ role # None))
       THEN Go(a, "finish") /\ UNCHANGED <<job, index>>
       ELSE Return(a)
    /\ UNCHANGED <<fixed, jobState, doc, todo, replayed, counters>>

\* mark_completion_done.
Finish(a) ==
    /\ pc[a] = "finish"
    /\ done' = [done EXCEPT ![job[a]] = TRUE]
    /\ Return(a)
    /\ UNCHANGED <<fixed, status, row, asset, doc, todo, replayed, counters>>

Step(a) ==
    Converge(a) \/ PreCheck(a) \/ Choose(a) \/ Replay(a) \/ ReCheck(a) \/ Finish(a)

-----------------------------------------------------------------------------
(* The environment.                                                        *)

\* DELETE of the story, under the lock.
DeleteStory ==
    /\ story = "present" /\ MayEdit /\ edits' = edits + 1
    /\ story' = "deleted" /\ role' = None /\ jobIds' = {} /\ edited' = TRUE
    /\ UNCHANGED <<fixed, jobState, readable, scene, actors, replayed, crashes, faults>>

\* _merge_scene_list with fewer scenes, or with more again: a scene that comes
\* back under the same id starts empty.
RegenerateScenes ==
    /\ DocReadable /\ MayEdit /\ edits' = edits + 1
    /\ scene' = ~scene /\ role' = None /\ jobIds' = {} /\ edited' = TRUE
    /\ UNCHANGED <<fixed, jobState, story, readable, actors, replayed, crashes, faults>>

\* A file or a row that cannot be read, and that can be again.
StoryHiccup ==
    /\ \/ readable /\ MayFail /\ faults' = faults + 1 /\ readable' = FALSE
       \/ ~readable /\ readable' = TRUE /\ UNCHANGED faults
    /\ UNCHANGED <<fixed, jobState, story, scene, role, jobIds, edited, actors, replayed,
                   crashes, edits>>

RowFault ==
    /\ \E j \in Succeeded :
        \/ /\ row[j] = "good" /\ MayFail /\ faults' = faults + 1
           /\ \E bad \in {"poison", "opaque"} : row' = [row EXCEPT ![j] = bad]
        \/ row[j] # "good" /\ row' = [row EXCEPT ![j] = "good"] /\ UNCHANGED faults
    /\ UNCHANGED <<fixed, status, asset, done, doc, actors, replayed, crashes, edits>>

\* Startup recovery ends the jobs that were active as failed; here they may still
\* succeed after a restart, which is more than the code does.
Crash ==
    /\ MayCrash /\ crashes' = crashes + 1
    /\ pc' = [a \in Actors |-> "idle"] /\ job' = [a \in Actors |-> None]
    /\ index' = [a \in Actors |-> NoIndex] /\ todo' = {}
    /\ UNCHANGED <<fixed, jobState, doc, replayed, edits, faults>>

Worker(w) == MarkSucceeded(w) \/ SyncAsset(w) \/ LiveBind(w) \/ Step(w)
RetryLoop == TickStart \/ TickNext \/ Step(Loop)
Environment == DeleteStory \/ RegenerateScenes \/ StoryHiccup \/ RowFault \/ Crash

Idle ==
    /\ \A a \in Actors : pc[a] = "idle"
    /\ \A j \in Jobs : status[j] = "succeeded"
    /\ todo = {} /\ Pending = {}
    /\ UNCHANGED vars

Next == (\E w \in Workers : Worker(w)) \/ RetryLoop \/ Environment \/ Idle

\* Threads that can go on do, and the retry loop ticks for ever.  Nothing
\* promises that a job ends, a story is edited or a fault is repaired.
Fairness ==
    /\ \A w \in Workers : WF_vars(SyncAsset(w) \/ LiveBind(w) \/ Step(w))
    /\ WF_vars(RetryLoop)

Spec == Init /\ [][Next]_vars /\ Fairness

-----------------------------------------------------------------------------
Pcs == {"idle", "sync", "bind", "converge", "precheck", "choose", "replay", "replayAgain",
        "recheck", "finish"}
Indexes == [candidates : SUBSET Jobs, tainted : BOOLEAN, known : SUBSET Jobs, built : BOOLEAN]

TypeOK ==
    /\ target \in [Jobs -> {"here", "none"}] /\ outputs \in [Jobs -> BOOLEAN]
    /\ status \in [Jobs -> {"running", "succeeded"}]
    /\ row \in [Jobs -> {"good", "poison", "opaque"}]
    /\ asset \in [Jobs -> BOOLEAN] /\ done \in [Jobs -> BOOLEAN]
    /\ story \in {"present", "deleted"} /\ {readable, scene, edited} \subseteq BOOLEAN
    /\ role \in Jobs \cup {None} /\ jobIds \subseteq Jobs
    /\ pc \in [Actors -> Pcs] /\ job \in [Actors -> Jobs \cup {None}]
    /\ index \in [Actors -> Indexes] /\ todo \subseteq Jobs
    /\ replayed \in [job : Jobs \cup {None}, known : SUBSET Jobs, chosen : BOOLEAN]
    /\ {crashes, edits, faults} \subseteq Nat

\* Jobs that could fill the role.
Able == {j \in Succeeded : SceneBound(j) /\ outputs[j]}

(* What a bound role says: its job succeeded, has an asset and is recorded   *)
(* on the scene, which exists (binding.py:132-217).                          *)
BoundRoleIsSound ==
    role # None => /\ role \in jobIds /\ status[role] = "succeeded" /\ asset[role]
                   /\ SceneBound(role) /\ story = "present" /\ scene

(* An old result never replaces what a role holds: once bound, it changes    *)
(* only by a live binding or an edit of the story, although a replay decides *)
(* long after it has read the story (binding.py:112-116).                    *)
ReplayNeverOverwrites ==
    [][ role # None /\ role' # role
        => \/ edits' # edits
           \/ \E w \in Workers : pc[w] = "bind" /\ role' = job[w] ]_vars

(* A role is never given up: as long as the scene was not edited and the     *)
(* role is empty, one of the succeeded jobs that could fill it is still      *)
(* pending, whatever failed, crashed or lost the choice meanwhile            *)
(* (replay_selection.py:225-238, 376-398).                                   *)
RoleNeverAbandoned ==
    role = None /\ ~edited /\ Able # {} => \E j \in Able : ~done[j]

(* The replay takes the newest candidate its index could know of, and none   *)
(* at all while a newer one cannot be decoded (replay_selection.py:133-146), *)
(* unless the pre-check found the role taken, so that nothing was chosen,    *)
(* and the scene was removed and came back before the lock.                  *)
ReplayTakesTheNewest ==
    (\A k \in replayed.known : k <= replayed.job) \/ (~replayed.chosen /\ edited)

(* Whatever fails, crashes or loses a choice, a role is filled soundly, with *)
(* the newest candidate, or a candidate stays pending for it                 *)
(* (binding.py, replay_selection.py).                                        *)
RolesAreKept ==
    TypeOK /\ BoundRoleIsSound /\ RoleNeverAbandoned /\ ReplayTakesTheNewest

-----------------------------------------------------------------------------
(* What is true at every step.                                              *)

Outranked(j) == \E k \in Able : j < k

\* Both fields are written together, a scene is only lost by an edit, and an
\* asset or the end of a job's completion have their cause.
Document ==
    /\ role = None <=> jobIds = {}
    /\ story = "deleted" \/ ~scene => edited
    /\ \A j \in Jobs : (asset[j] => outputs[j]) /\ (done[j] => status[j] = "succeeded")

\* An index that is not tainted misses no candidate of its time, and the job an
\* actor converges with it is among them.
Indexed(a) ==
    /\ index[a].candidates \subseteq {j \in Succeeded : SceneBound(j)}
    /\ ~index[a].tainted => index[a].known \subseteq index[a].candidates
    /\ \A k \in index[a].known : outputs[k]
    /\ index[a].built /\ pc[a] # "idle" /\ SceneBound(job[a]) => job[a] \in index[a].candidates
    /\ a \in Workers /\ pc[a] \in {"idle", "sync"} => ~index[a].built

\* A job that was chosen is the newest its index knows of; a job is finished
\* without a binding only for a newer one, a bound role or an edit.
Follows(a) ==
    /\ pc[a] # "idle" => job[a] \in Succeeded
    /\ pc[a] \in {"precheck", "choose", "replay", "recheck"} => SceneBound(job[a])
    /\ pc[a] = "choose" => outputs[job[a]]
    /\ pc[a] \in {"replay", "recheck"} => \A k \in index[a].known : k <= job[a]
    /\ pc[a] = "replayAgain" => role # None \/ edited
    /\ pc[a] = "finish" /\ job[a] \in Able => role # None \/ edited \/ Outranked(job[a])

\* The jobs a pass has still to visit are in its index.
PassIsIndexed ==
    /\ todo \subseteq Succeeded
    /\ todo # {} => index[Loop].built
    /\ \A j \in todo : SceneBound(j) => j \in index[Loop].candidates

LosersAreOutranked ==
    role = None /\ ~edited => \A j \in Able : done[j] => Outranked(j)

IndInv ==
    /\ TypeOK /\ BoundRoleIsSound /\ Document
    /\ \A a \in Actors : Indexed(a) /\ Follows(a)
    /\ PassIsIndexed /\ LosersAreOutranked /\ ReplayTakesTheNewest

-----------------------------------------------------------------------------
\* Rows that would keep a pass from choosing.
Calm ==
    /\ readable
    /\ \A j \in Jobs : row[j] = "good" \/ (row[j] = "poison" /\ ~SceneBound(j))

(* Once the story can be read and no undecodable row could concern it, every *)
(* job with outputs converges; an undecodable job of no scene does not stop  *)
(* it (replay_selection.py:170-190).                                         *)
Waiting(j) == status[j] = "succeeded" /\ outputs[j]
Converged(j) == done[j] \/ row[j] # "good"
Settles == <>[]Calm => \A j \in Jobs : Waiting(j) ~> Converged(j)
===============================================================================
