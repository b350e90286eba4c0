# Verification of Creative AI Studio

TLA+ models of the concurrent core of Creative AI Studio, checked with TLC and
proved with TLAPS.  Paths below are relative to the repository.

## The system

A user asks, through the HTTP API, for images, audio, video and text.  Each
request becomes a *job*: a row of a SQLite table, an entry of an in-memory
queue, a runner thread that executes it with a generator on a leased model, and
side effects (assets, story scenes, batch stages) that follow its completion.
Beside the program stands the agent broker, a script that runs coding agents on
the repository's own worktree.

| Part | State | Operations | Hard because |
|---|---|---|---|
| `core/jobs/statuses.py` | none | the status vocabulary and the transition contract | every writer must respect it, through races |
| `core/storage/repositories/job_repository.py` | the jobs table: status, payload, `completion_state` | insert, read, guarded update, quarantine of undecodable rows | a committed write may be reported as an exception; rows may not decode |
| `core/jobs/service.py` | none of its own | create, enqueue, cancel, mark succeeded, mark failed, finalize a cancellation | cancel races with the runner |
| `core/jobs/queue.py`, `lanes.py` | one FIFO per lane | enqueue (idempotent), dequeue | refilled by requeues, recovery and retries |
| `core/jobs/runner.py`, `cancellation.py` | thread position, cancellation events | `run_once`, `process_job` and its error paths | several storage calls per job, each may fail |
| `core/jobs/completion.py`, `events.py` | poison-retry candidates | `converge_job`, retry loop | effects are applied by whichever thread comes first, and retried |
| `core/jobs/startup_recovery.py` | none | seven ordered steps at each start | the process may have died anywhere, recovery included |
| `core/batches/` | a JSON document per batch: stages, items, intent to cancel | create, enqueue stage, reconcile child, advance, promote, cancel, resume | advanced by job events of several threads and by recovery; ids saved before rows exist |
| `core/models/cache.py`, `service.py` | cached runtimes, leases, load, execution and admission locks | acquire, load, release, invalidate, evict | eviction and cleanup outside the lock, lock ordering |
| `core/story/`, `routes/stories.py` | story documents: scenes, chapters, bound media | bind, replay, expand, merge, acknowledge | results arrive after the document has changed |
| `generators/image` | LoRA loaded into the shared pipeline, files | resolve references, inspect the lease, apply LoRA, infer, save | what one job leaves in the model the next one inherits |
| `generators/audio` | callback, parameters and seed on the shared model; samples | music, narration | errors inside the lease cost a reload; budgets in two units |
| `generators/text` | attempts, responses, files | generate, repair once, extract JSON | cancellation between the attempts |
| `generators/video` | frames, staging, partial and delivered files | render, assemble, mux, break subtitles | clean-up of a failure at any step; decoder cache |
| `generators/*/providers.py` | transport threads, consent | gate, send with a timeout, retry, redact | a late answer beside a retry |
| `scripts/agent_broker.py` | a worktree, a lease file, run records, a process group | run, invoke, fall back, report | signals, orphans, two brokers on one worktree |
| `core/storage/ownership.py` | a lock file | acquire, release | one process per data directory |
| model loading, prompting, quality, projects, bible, feedback, web and desktop apps, other scripts | files or none | data processing, user interface | not concurrent |

Interactions: the API thread calls `JobService`; the service writes the table,
pushes the queue and publishes events; the runner thread polls the queue, calls
a generator, which leases a runtime, and publishes; a *terminal* event runs
`CompletionConverger.handle_job_event` in the publishing thread, which syncs
assets, advances the story and reconciles the batch, then records
`completion_state = done`; a retry thread repeats that for finished jobs still
pending; startup recovery runs alone before either thread starts.

## Modules

| Module | Models |
|---|---|
| `JobStatuses` | the vocabulary, `ALLOWED_TRANSITIONS`, the guard of a conditional write (`Admits`), what quarantine and cancel make of a status |
| `JobLifecycle` | the abstract specification of one job's life |
| `JobPipeline` | jobs through service, queue, runner, convergence, retry loop, crash and recovery |
| `JobPipelineProofs`, `JobOwnershipProofs` | its theorems, the second module on top of the first |
| `RuntimeLeases`, `RuntimeLeasesProofs` | the cache of loaded models, its leases and locks; the theorems |
| `BatchService`, `BatchServiceProofs` | one batch: its record, its child rows, the threads that call the service, recovery; the theorems |
| `StoryBinding`, `StoryBindingProofs` | media bound to scenes, live and by replay; the theorems |
| `StoryText`, `StoryTextProofs` | text results merged into the document; the theorems |
| `ImageGeneration`, `MusicGeneration`, `SpeechGeneration`, `TextGeneration`, `VideoGeneration` | jobs of each generator on its shared runtime |
| `ImageReferences` | which reference image conditions a job |
| `ProviderCall` | a request to a remote provider |
| `VideoAssembly` | a delivery, its files and its budgets |
| `Generators`, `GeneratorsProofs` | the eight modules above side by side, what they owe in common; the theorems |
| `SpeechChunks`, `JsonExtract`, `SubtitleLines`, `AssemblyFrames` | pure algorithms against reference definitions |
| `BrokerClassify` | what the agent broker makes of inputs and outcomes |
| `AgentBroker`, `BrokerInvoke`, `AgentBrokerProofs` | its runs on one worktree; the inside of `_invoke`; the theorems of both |

The `MC` modules hold the instances; they extend or instantiate what they check.
`Generators`, `MCAlgorithms`, `MCStory` and `MCBroker` put components side by
side that do not share state: in each behaviour one of them works (a variable says
which) and the variables of the others stay as they are, so one run answers for
all of them.

A definition whose comment begins with "Mutant" is a faulty variant of the one
below it; no specification uses it, it serves to show that a property notices.

### JobPipeline

State and code:

| Variable | Code |
|---|---|
| `row`, `poison`, `completion` | the `status` column, whether the row decodes, `completion_state` |
| `assets`, `settled` | assets recorded for a succeeded job; story and batch effects applied |
| `queue` | `JobQueue._lanes` |
| `token` | `CancellationRegistry` (no event, clear, set) |
| `pc`, `job`, `seen` | position of each thread, the job it handles, the status it read last |
| `candidates`, `todo`, `kept` | `_poison_retry_candidates`, the rows the current tick or recovery step has yet to visit, `still_pending` |
| `creating` | progress of each create call |
| `held` | finished jobs whose story or batch cannot catch up for now |
| `runs` | history: how often the generator of a job was started |

There is one action per access to shared state, so threads interleave between
any two of them.  A read of the table may raise; a guarded update may raise
before or after its commit (`UpdateIfStatus`, after `_update` which writes and
re-reads in separate connections).  `Fails` counts these against `MaxFaults`.
`Crash` clears everything in memory at any point after the start has begun; an
exception that escapes `run_startup_recovery` ends the process and is a `Crash`.
`CorruptRow` makes a row undecodable and may turn the status of an unfinished job
into something that is no status ("garbled"); `RepairRow` is an operator's repair.
A completion attempt ends settled, by a failure of storage, or, for a job in `held`,
with the RETRYABLE or UNRESOLVED that `completion.py:497-531` answers although nothing
failed.  `HoldUp` and `LetGo` put a finished job whose completion is pending there and
take it out, in any order and without a bound: some jobs stay for ever, such as
a scene-bound one that succeeded without outputs.

Abstractions: progress reports, event payloads and the content of rows are left
out.  The event published for a quarantined row converges nothing because the
row still does not decode, so it has no action.  The batch branch of poison
quarantine, where a row belongs to a batch that is being cancelled, belongs to
the batch model.

### RuntimeLeases

State and code:

| Variable | Code |
|---|---|
| `slot`, `lru` | `ModelRuntimeCache._entries` and its order, as the set of pairs "used before" |
| `state`, `leases`, `runtime`, `executor` | `state`, `lease_count`, `runtime`, `execution_lock` of a `RuntimeEntry` |
| `loader` | the load lock of each model (`lock_for`) |
| `slots` | the semaphore of `RuntimeAdmissionController` |
| `handed` | ready entries for which a `RuntimeHandle` was given out |
| `pc`, `want`, `holds` | position of each thread, the model it asked for, the entry it reserved or leased |
| `drain`, `retrying` | `_StaleDrainOperation.entry`; inside `_acquire_entry_after_revalidation_failure` |
| `victims`, `after` | retired or replaced entries the thread has yet to clean up; where it goes on |

A call passes admission (`Admit`), the load lock (`TakeLoadLock`),
`acquire_or_reserve` (`PinReady`, `MeetDraining`, `RetireVictim`,
`ReserveLoading` or `RefuseBusy`, which exclude each other), `Load`,
`PublishReadyAndPin`, the execution lock (`TakeExecutionLock`, `Revalidate`), use
(`ExitHandle`) and the teardown (`ReleaseExecutionLock`, `ReleaseLease`, `Dismiss`).
`ReleaseHandle` is `release(had_exception=True)` on a handle given out earlier, by any
thread and any number of times: it invalidates the entry before it looks whether the
handle was released already, and a thread that uses the entry goes on "spoiled".  A section under the metadata lock is one step;
`CleanUp` runs outside it and `FinishRetirement` is the section after it.
`TimeOut` is a deadline passing at any of the four waits; `Pause` ends the slice.
`ResolveRuntime`, `ResolveGet`, `Put` and `ResolveReturn` are the older interface.

Abstractions: an entry is a number, and an entry that nothing refers to is used
again, so that runs of any length need few of them (generations exist in the
code to tell entries apart in logs).  The bucket of a model is fixed.  Not modelled: the
rejection of nested calls, which needs a thread to be in two calls; the release of a
handle that was never entered (every generator uses `with`); `put` called
directly, outside the load lock, or with the object that is cached; an exception
that ends a clean-up or lands between two instructions, which the code documents
as accepted.

### BatchService

| Variable | Code |
|---|---|
| `batch` | the JSON record: status, current stage, items with their child ids, `cancel_requested`, `advance_error` |
| `rows`, `poison`, `pending` | status of each child row, whether it decodes, completion not yet done |
| `alerts`, `suspects` | job_failed events under way for quarantined rows; `_poison_retry_candidates` |
| `queue` | the in-memory `JobQueue` |
| `minted` | ids drawn so far: an id stands in the record before its row exists |
| `pc`, `call` | each thread's position and the locals of its call |
| `reliable` | `batch_cancellation_scan_was_fully_reliable` |

Every mutation of the record is a critical section of the repository's lock and
one action; rows change between those sections.  `AssignIds`, `CheckCancelled`,
`CreateOrReuseJob`, `AuthorizeAndExpose` and `RevokeChild` are the steps of
`_enqueue_stage`, `FinishCreate` ends the creation; `derive_status`, `AdvanceDue` and the ranking of winners are
operators over the record (`Ranked` is `sorted` over a set of
positions); `Boot*` are the batch steps of recovery.  A storage
fault makes a read or write of the record raise.  Abstractions: the reads of the
rows in one recompute are one step; the active statuses of a child are one
("running"); only queued rows become undecodable; a terminal event is delivered
by whichever thread is free.  The ids of an instance are
`1..MaxJobs`, a bound that stands in the guard of `AssignIds`.

### Generators

All five job modules share one shape, the code's: validate, acquire the lease
(`owner`), probes of the job row that *record* what they find (`held`), the model
call, the end of the lease, and only then the recorded error or the files.
`RaiseInLease` is an exception that leaves the `with` block and so drops the
cached runtime (`cached`).  What is wrong with a request or with a model is fixed before the
work (`raises`, `controls`), so `DroppedForCause` can say from the request alone which
leases may cost a reload: in music, text and video a runtime is dropped if and only if the model
raised or was interrupted in its work, or the request is a storyboard with an infinite control.
Faults are calls that raise, cancellations arrive at any step.

* `ImageGeneration`: `active` is `active_lora_path`, `adapters` and `weights` are
  what is really in the pipeline; changing them may fail between any two calls.
* `MusicGeneration`: `callback`, `params`, `rng` stand on the shared model;
  segments are reported by a callback that counts tokens.
* `SpeechGeneration`: the numbers are the code's (600 s, 96000 Hz, 128 chunks, 6
  characters a second), so that rounding between seconds and samples is real.
* `TextGeneration`: a response is known by its attempt; `files` are evidence files.
* `VideoGeneration`: drawn storyboards with a probe per frame, and a learned
  model behind one call, which ends with a result or an exception (its own, that of a
  cancellation, or that of a result nobody can use) and may have written files by then.
* `ImageReferences`: `job`, `bible`, `store` may be edited until the worker has
  resolved them; strengths are in tenths.
* `ProviderCall`: one thread per attempt; a thread given up runs on.
* `VideoAssembly`: `staging`, `partial`, `preview`, `output` are the files on disk;
  durations in hundredths, the rate in tenths, budgets scaled down.

Abstractions: pixels, samples and prompts; `unlink` does not fail; a generation
context is always present; the credential is resolved inside the gate; the
rounding of `int(steps * (1 - strength))` is exact in tenths.  The WAV of a
narration, text files and an encoded GIF whose quality report raises stay on disk
(images and assemblies do not), and a failed GIF encoder may leave a partial
file: no property claims otherwise.  Files of a learned video callable that was
interrupted stay too, and `CancelledLeavesNothing` excepts exactly these.

### Algorithms

`SpeechChunks` (every text of up to 5 characters, chunks of up to 3),
`JsonExtract` (every response of up to 6 tokens, and of 6 after a word, compared with
a grammar of objects, lists and strings),
`SubtitleLines` (texts of up to 5 characters, lines of up to 3; Japanese path
only, the Latin wrapper is not modelled) and `AssemblyFrames` (two clips, sources
that hold more or fewer frames than they report, a decoder that restarts and keeps
the length it found for the next clip) are operators, recursive where the code loops,
run once on every input.

### StoryBinding and StoryText

`StoryBinding` has one role of one scene; jobs are numbered by `created_at`;
`index` is the `SceneCandidateIndex` of a pass, built once and used while jobs go
on succeeding.  The read of the asset and the mutation of the document are one
step.  `StoryText` has the document (`scenes`, `chapters`, `unassigned`,
`sources`), the text jobs, and the window of `apply_story_result` between its
checks and the lock (`reading`); a job that ended may be applied at any time and
again.  A chapter carries two ghosts: `basis`, the earlier prose it was written or reviewed
against, and `late`, whether that had changed when the text or the acknowledgement
arrived.  Loglines, beats and characters are one "other"
merge.  What the models make visible without a property against it: a scene
recreated under the same positional id may receive the media of an old pending
job; a scene-bound job that succeeded without outputs is retried for ever;
applying the same untitled prose twice appends it twice.

### Agent broker

`BrokerClassify` holds the pure functions: task validation and the reading of a
provider's end, with texts as sets of phrase families.  `AgentBroker` is a run:
two Git calls per snapshot, the flock, attempts, fallback, `status.json` and
`result.json`, signals, errors and SIGKILL at any step.  `BrokerInvoke` opens one
attempt: process group, pipes of bounded size, two readers with one capture
limit, the deadline and the INT, TERM, KILL escalation.  Both have the window between
`Popen` and the try block: `AgentBroker` as "starting" (`EnterInvoke` leaves it), `BrokerInvoke` as the
phases "start" (threads) and "armed" (signal handler).  There, and in the finally clause
("stopping"), an exception leaves `_invoke` with the provider alive: positions `Exposed`,
`InterruptExposed`, `InterruptStart`, `StartFails`, and the fate "cut".  A run whose result is
already written and which is then interrupted is recorded as interrupted; an
error leaves `status.json` at "running"; a killed or cut broker leaves its provider
alive without a lease: the properties say exactly that.

## Runs

| Run | Instance | Checks |
|---|---|---|
| `pipeline` | 1 job, 2 runner threads, 1 client, 2 faults, 1 crash, 1 corruption | inductive invariant `QueueInv`, ownership, settled completions, queue, refinement of `JobLifecycle` |
| `pipeline_live` | 1 job, 2 threads, 1 client, 1 fault, 2 crashes, fairness | accepted jobs are finished, and completed unless held up again and again; cancellations finish |
| `repaired` | 1 job, 1 thread, 2 faults, 1 crash, 1 corruption | violated: see the findings |
| `leases` | 2 threads that acquire, resolve and unload, 2 models, 1 bucket of 1, deadlines | exclusive use, pins and admission slots, owned transitions, no leaked runtime, no deadlock |
| `leases_drain` | 3 threads for 2 admission slots, one of them unloads, fairness | budget and slots, busy is transient, sleepers are woken |
| `batches` | 2 threads, stages of 1 or 2 items, 3 child ids (no reachable batch needs a fourth); a crash and one of failed read, damaged row, broken reference, explicit advance, or a crash, a damaged row and a failed read; with 2 items a crash only, and one request at a time after it | children accounted for, stages follow winners, decisions kept, quiet is done |
| `batches_live` | 2 threads, 1 item, 1 crash, a promotion, fairness | cancelled and interrupted batches settle |
| `batches_restart` | 2 threads, 2 items, 1 crash | violated: see the findings |
| `broker` | 2 brokers with 2 tasks and 2 outcomes, an interrupt, an error, a kill; 1 broker with 5 tasks and 7 outcomes; one `_invoke` with 2 children, 2 pipes, 2 interrupts | serialised workers, baselines, true reports, nothing outlives `_invoke`, an end |
| `generators` | 2 jobs per generator with 1 or 2 faults, 10 narrations, a provider with 2 retries and 7 kinds of error, timelines of up to 3 scenes, jobs with 0 to 2 references | shared models, files, results, limits, retries, references, an end |
| `algorithms` | all inputs within the bounds above | nothing lost, the grammar, line rules, frames |
| `story` | 2 scene jobs, 1 worker, the retry loop, 2 troubles out of a crash, edits and a fault; 3 jobs for scenes and scripts by overlapping routes; 3 chapter jobs with 3 titles for 2 chapters, regenerated, reviewed and applied again in any order | replays, roles, edits, staleness, settling |

Bounds.  Jobs share only the queue and the retry loop's sets, so one job shows
every race on a row; the proofs cover any number of jobs and lanes.  Two faults
are what it takes to defeat `_resolve_claim_failure`; two crashes put one in the middle of a recovery.
Two runner threads are more than the API starts (one), as `WorkerPool` allows.
The runs of `JobPipeline`, `BatchService` and `MCBroker` say
`CHECK_DEADLOCK FALSE`: once all jobs, batches or broker runs of the instance are
over the system is at rest.  The runs of
`RuntimeLeases` check deadlock, which is how the lock order (admission, load,
execution, with clean-ups in between) is shown to be sound: an idle thread can
always begin a call, so a deadlock is every thread waiting in one.

Two models and a budget of one make every load of the second model evict the
first; a pinned or loading first model makes it fail.  A third thread adds a
second waiter on an execution lock, and a second lease that drains after an
invalidation.  The pools of entries never bind: in every reachable state of the
instances some entry is unreferenced (`\E e \in Entries : Unreferenced(e)`
is an invariant of each), so `ReserveLoading` and `Put` always find one.
The run `leases` has a VIEW: the state of an unreferenced entry, which is overwritten before
anything reads it, does not tell two states apart.
`WithinBudget` is about callers of `acquire_runtime` only:
`put` may exceed a budget when what it would evict is pinned, and
`OverflowIsPinned` says that nothing else keeps a bucket above it.

Two jobs per generator are what it takes for one to inherit what the other left
on a shared model; the requests are chosen so that each refusal, each form and
each rounding edge occurs.  Two brokers are what it takes to share a worktree;
the broker with all outcomes works alone because nothing about an outcome depends
on a second broker.  Two candidates are what it takes for a replay to choose, two
edits for a scene to go and come back between two reads; two
chapters and three jobs for a result to be overtaken by the one it was seeded
from.  In `batches` a first stage with
two items meets a crash only, one with a single item also a second trouble: what
a fault does to an item does not depend on its neighbours, what a crash between
two rows does is seen with two.  An undecodable row is retried only after a start
whose read of it failed, hence the three troubles together.

Properties worth a word.  `OwnedUnlessTwoFaults` says a single storage failure
never leaves an active job without an owner; a second one inside
`_resolve_claim_failure` does, until the next start, and the code accepts that
(`runner.py:478`).  `NoStepStrands` lists the only ways a queued job can be left
out of the queue: a create call that reported an error, a failed read of startup
step 6, a hand-made repair.  `AcceptedIsCompleted` claims that a job is finished without
a condition and that its completion is recorded only for one that is not held up again and
again.  `UseIsExclusive` says that an entry in use is ready, or invalid
because some handle of it was released with an exception since the use began
("spoiled"): its user is still alone with it, and nobody else will get it.

Composite properties.  A property of a composed run is a conjunction of named
parts of the component modules, one line each: `SharedModelsStayHealthy`, for
instance, is `OwnLoraOnly`, `CachedRuntimeIsClean` and `HealthyRuntimeKept` for
images, `NothingLeftOnModel`, `DrawnAsAsked` and `DroppedForCause` for
music, and so on.  The parts are stated and explained where the state is.

### Findings

`repaired`.  `completion.py:269` says of a repaired poison row that reads
preparing, running or postprocessing that its worker "is confirmed gone".  The
run shows a candidate registered by startup step 1 that is repaired before step
6, re-enqueued by step 6 and claimed by a runner thread of this process: the
retry tick then fails the running job.

`batches_restart`.  `batches/service.py:1299` says of an item cancelled before
its row existed "Such an item can never run".  The recheck of `_enqueue_stage`
passes, `cancel` marks the item, the row is created, and the process dies before
`_authorize_and_expose` revokes it: at the next start `cancel` skips the item
because it is cancelled already, and startup step 6 enqueues its row.

Met while modelling; the models have the code's behaviour, and the properties are
stated around it:

* Broker: `docs/cross-agent-harness.md:228` says workers of one worktree are
  serialised.  A second signal while `_invoke` terminates its provider in the
  finally clause (`agent_broker.py:1033`), a signal or a failing `Thread.start`
  between `Popen` (`:940`) and the try block (`:1018`), or SIGKILL, leaves a provider alive
  whose lease is free (`WorkersAreOwned` excepts exactly these).
* Leases: `release(had_exception=True)` calls `mark_invalid` before it looks at
  `_released` (`service.py:641-646`), so a late or repeated release of an old handle
  invalidates a runtime that another thread is using; `UseIsExclusive` allows for it.
* Speech: `speech.py:218-226` says a request-caused refusal never invalidates a
  healthy runtime; the estimate in samples raises inside the lease (`:282`,
  `:495`).  3591 characters in 3 chunks with gaps of 0.75 s are exactly 600 s
  and, at 22050 Hz, one sample more than 600 s.
* JSON: `text_runtimes.py:663` promises the first object of a response; two code
  fences inside a string of the object are taken for fences around it, and the
  response is refused; so is a response that is a list as a whole, although it is
  read when a word stands before it (`:678-687`).
* Video: `generator.py:120-123` calls a bad control a "pure input error, never a
  runtime fault"; `int(float("inf"))` (`runtime.py:128-132`) raises OverflowError, which
  `:176-181` does not catch, and the runtime is dropped.  The files of a learned
  callable that is interrupted are not discarded (`generator.py:187-194`,
  `runtime.py:485-493`).
* Subtitles: `subtitle_line_breaking.py:149-150` says one pass is enough; when a
  wrapped line consists of prohibited characters only, the next boundary pulls
  onto the emptied line, and a line begins with them again.
* Assembly: `assembly.py:87-91` says every budget is checked before a file is
  decoded; rounding scenes to frames can exceed 600 s, which `_build_audio_mix`
  (`:936`) refuses after everything has been rendered.
* Assembly: two clips of one source that promises a frame too many are sampled
  differently, as 0,1,2,2 and then 0,1,1,2 of three frames: the count that is corrected at the
  end of the source (`:1214`) holds from the next clip on (`:837-838`).
* Replay: `replay_selection.py:102-107` says the candidates cannot change while
  an index is in use; a job may succeed during the pass, and an older one is then
  bound (`ReplayTakesTheNewest` is relative to what the index could know).
* Replay: `replay_selection.py:332-333` says that for a role found taken at the
  pre-check `replay_job_safely` would independently do nothing.  When the scene
  list loses the scene and gets it back before the lock is taken, it binds the job
  without a choice, an older one too (`ReplayTakesTheNewest` excepts exactly this;
  the proof needed the exception, one edit had been too few for TLC to show it).
* Staleness: `schemas.py:137-143` says the list is non-empty exactly for chapters
  not regenerated or acknowledged.  A job seeded before an earlier chapter changed clears
  the flag when it is applied afterwards (`merge.py:172-183`): one that was
  overtaken, and also an old one that a single editor applies again
  (`routes/stories.py:589-680`).  `NoSilentStaleness` excepts exactly these, marked `late`.

## Fairness

The runner and retry threads are loops that poll until they are stopped, an API
call that began is carried on, a generator returns, and a process that is down is
started again: weak fairness of each thread's step.  `RetryPending(j)` has strong
fairness because every tick visits every pending job, while the thread's being
busy with another job disables the action for a moment.  Nothing is assumed of what
holds a completion up: the claim is about jobs for which that ends for good.

In `RuntimeLeases` a thread that can go on does (loaders, clean-ups and
generators return); nothing is assumed of who gets a lock, so no property says
that a particular waiter does.

`BatchService`: threads inside a call go on, workers finish what they claimed,
the process starts again after a crash.  `Generators`: job threads go on, and
the deadlines of a transport and of the encoder pass; transports and encoders
themselves may hang, and a local image provider is called without a limit, so
`WorkEnds` excepts it.  `MCBroker`: a broker process goes on and its deadlines
pass; the provider promises nothing.  `MCStory`: a completion that began and the
retry loop go on; a job need not end.

## Proofs

A theorem holds for every value of the constants that satisfies the named
assumptions of its module, so for any number of jobs, lanes, threads, models and
entries.  In each proof module one lemma per action shows what the action does to
the inductive invariant; the theorems at its end need only those lemmas.

### The job pipeline

The assumptions are that threads are distinct, lanes are total and bounds are
naturals.  There are three invariants, each the next one's premise.

`JobPipelineProofs`: `IndInv` gives `TypeOK`, `ExclusiveOwner`, `RunsOnce` and
`DoneIsSettled`, and that `Spec` implements `JobLifecycle!Spec`.  A thread past
the claim holds a row that is neither absent nor queued, so a second claim cannot
succeed; a generator that was started has left its row past preparing and nothing
moves it back, so it is not started again; a thread about to record a completion
has applied the effects to a row that is finished and so no longer changes.  Each
action changes the shared state only in the ways `Preserves` lists; invariant and
refinement survive by `Preserves` alone.

`JobOwnershipProofs`: `OwnershipInv` gives `OwnedUnlessTwoFaults`.  To say that a
begun row keeps an owner one must know where its owner believes it to be
(`Follows`): between two calls of a runner thread the row can only have been
cancelled behind its back, because rows that decode stay out of the poison paths
(`IntactIsClean`) and recovery is over before a runner thread exists
(`DownIsQuiet`).  So a guarded write of the thread fails only on a cancelled row
or on a storage failure, and `_resolve_claim_failure` is reached only after the
first failure.  `CancelsAreRecorded` says that an event that is set belongs to a
row that can only be finished; `RecoveryFinishes` that a start leaves no begun
row behind.  An action is a worker's move, a client's or another's, and each kind
has the little it may do to rows of other threads as a predicate of its own.

In the second half of the module `QueueInv` gives `QueueConsistent`, and
`NoStepStrands` as an action property.  A job that is out of the queue and in no runner thread's hands
was left there by an error, or the retry tick or startup step 6 is still going to
visit it: `TickIsThorough` and `RecoveryQueues` are what those two loops know of
the jobs they have not visited yet.

### The runtime leases

`RuntimeLeasesProofs` shows `UseIsExclusive`, `TransitionsAreOwned`,
`NoRuntimeLeaks`, `PinsAreSound` and `LimitsAreKept`, assuming that threads and
models are finite sets, budgets and capacity positive.  A use is exclusive because of the execution
lock alone: `ReleaseHandle` changes the state of an entry, never its holder, its
leases or its place, and only of entries that are READY.  `Control` relates the
position of a thread to the entry it holds and to the locks; `OrderIsStrict` is
the order of `_entries`.  What is counted is kept apart: an action changes a
lease count, or the free admission slots, only together with the thread that
holds the lease or the slot (`LeaseMoves`, `SlotMoves`), and from this alone
follows that counts are cardinalities of sets of holders, by the library's facts
about finite sets.  That a bucket is over its budget only while
something in it is pinned or loading is not inductive: `put` evicts in order of
use and never what it has just put.  `OverflowIsTight` is: a bucket over its
budget has at most one entry to spare, the one put last.  It needs that the
victims `put` selects by their rank in the order of use are as many as the
overflow (`LeastRanks`: if fewer elements than that are selected although others
remain, a remaining element with a smallest set of predecessors would be
selected too, because strict inclusion of finite sets is well founded).

### The batches

`BatchServiceProofs` shows `ChildrenAreAccounted`, `StagesFollowWinners` and
`DecisionsAreKept` from `BatchAssumption` only: for any number of threads, items,
stages and ids.  `CoreInv` restates `IndInv` with what it says of the record
apart from what it says of the calls (`Bridge`).  `Sound` is the first part: an
item that is over reads as its row does (`OutcomesOf`), every id drawn belongs to
exactly one item, no item is ahead of the current stage, and every stage before it
is over and was followed by its winners.

Every action is a `Moves`: a move of the record (none, created, restated after
its rows, restated and then advanced, given ids), moves of the rows, a move of
the queue.  One lemma per action shows which; `MovesKeep` shows invariant and
`OutcomesKept` from that alone.  The part a reader would not expect is
`OutcomesOf`, whose one exception is an item that a cancel under way found at the
current stage.  Without it recomputing the record could change an outcome of a
past stage, and with it the winners the next stage was built on.
Ranks carry the rest: in a finite strict order the number of predecessors numbers
the elements (`RanksNumber`), so `rank_winners` lists the best `keep_top_n` and
fresh ids are distinct and without gaps (`CountsNumber`).

### The agent broker

`AgentBrokerProofs` shows `WorkersAreOwned`, `BaselineIsMet` and `ReportsAreTrue`
from `BrokerAssumption` (task files have the types JSON gives them, the ends of a
process those of `ProcessEnds`): for any number of brokers on one worktree and any
tasks and outcomes.  `IndInv` has per broker where it may be and what it holds
there (`Control`), what its attempts prove (`Reasonable`), what its files say
(`Recorded`), and what its snapshots still tell (`Seen`), the last only while
nobody but providers under a lease changes the worktree (`Quiet`).

A step is one broker's: `Frame` is what it leaves alone, `Mine` what that broker
knows afterwards, and `FrameKeeps` gives the invariant.  That `Seen` survives the
steps of others is the heart of it: it speaks only of positions at which the
broker holds the lease and no provider of it is alive, and without a kill or a cut
`_invoke` every living provider works under the lease of its broker
(`WorktreeKeeps`).  `ClassifyIsHonest` is the fact about the three classifiers:
a reason to fall back, and a success, are read only into ends that show it.

For `_invoke` it shows `InvokeIsSound`.  `GroupEnds`: a group that got SIGKILL
has no process that could write or fork.  `NothingVanishes`: what was written is in
a pipe, kept, or beyond the limit, whatever the two readers do in between; it names
the two streams, because a sum over any set of them is defined by recursion.

### The story

`StoryBindingProofs` shows `RolesAreKept` and `ReplayNeverOverwrites` for any finite
set of jobs (`BindingAssumption`).  That a role is not given up is not inductive,
since a completion ends long after the choice that lets it end.  `LosersAreOutranked`
is: a job that is done while the role of an unedited scene is empty has a newer job
that could fill it; the newest has none, so it is pending.  `Follows` carries the
reason from the choice to the end, `Indexed` says that an untainted index missed
nothing and contains the job an actor converges with it, also when a pass has kept
it for long (`PassIsIndexed`).  What no step undoes (`Grows`: successes, edits, a
bound role of an unedited scene) keeps all of this for the actors that do not move.
It also proves the comment "job itself always usable here"
(`replay_selection.py:382`): step 8 of `ChooseKeeps`.

`StoryTextProofs` is about the texts, from `TextAssumption` (the bounds are
naturals), for any number of jobs and titles.  `TextInv` is the document with its
types: titles are unique, a warning names an earlier chapter, and nothing is ever
parked, because the route's check and the merge's choice of a scene are made on the
same document (`ScriptMerges`).  It gives `TypeOK` and `LinesNeverParked`, and with
one lemma per merge `MediaSurvives`, whatever overlaps.  `EditorInv` is the
inductive form of `NoSilentStaleness`, for jobs applied in any order and again: what a
chapter was written or reviewed against (`BasisIsEarlier`), and what an editor has read
(`ReviewIsEarlier`), are chapters before it, so a merge that replaces a chapter can
outdate only later ones, which are the ones it flags.  `ProsePlaces` says where a text
goes and what becomes of every chapter; the two invariants need nothing else of it.
`EditsSurvive` of the run `story` is these properties for its two instances.

### The generators

`GeneratorsProofs` shows the six safety properties of `Generators`
(`SharedModelsStayHealthy`, `StoppedWorkLeavesNothing`, `SuccessIsWhole`,
`WithinLimits`, `ProviderRetriesAreSound`, `ReferencesAreApplied`) for any jobs,
requests, LoRAs, errors, faults and timelines.  The assumptions are the module's
own: what the request classes admit (`PicturesAssumption`, `SongsAssumption`,
`NarrationsAssumption`, `ReferencesAssumption`), that `no job` is none, and naturals
for the limits.  `PolicyAssumption` is that of `__post_init__`; what it says of the
powers of the multiplier stands there outright because it would need an induction.

`GeneratorsInv` is the invariant of the medium at work.  Each medium has its own,
stated in its module with one named part for each thing the code keeps in step, a
lemma that a step keeps it (`ImageKept`, ...) and one that the properties follow from
it (`ImageConsequences`, ...); the proof of the six theorems uses nothing else.  For a
job on a shared model there are five such things:

* where it stands: the one thread inside the lease is the `owner`
  (`OwnerIsInLease`), so the steps of a job that is not cannot touch the model;
* what stands on the model: the adapters in the pipeline are those of `active` unless
  a call between the two raised, and then the runtime is dropped with the lease
  (`PipelineIsAsClaimed`); a callback and a seed belong to the job that generates and
  come off on every way out (`ModelIsOnLoan`);
* what a loop has done: variations, segments, chunks and attempts are counted, each
  with its image, report, samples or response (`VariationsInOrder`,
  `ReportsFollowCount`, `ChunksAreComplete`, `CallsInOrder`);
* why a lease ends early: the owner's runtime is cached as long as it is leased
  (`LeasedIsCached`, `LeaseIsHeld`), so a step that drops it is one of those that raise,
  and these name their cause in the request (`DroppedForCause`);
* which errors and files belong to each place: a held error reaches the end of the
  lease, and the files on disk are the ones that are named there (`ErrorsAreHeld`,
  `FilesInOrder`, `FilesAreNamed`, `CancelledInTime`).

Narration needs one thing more: `CountsFollowChunks` keeps the samples so far, with all
gaps still to come, within the limit *in samples* of the rate the model really had, and
the estimate in seconds is not used for it, since the rounding between the two is where
`OutputWithinLimit` is tight.

A request to a provider has one verdict and one backoff for each attempt the caller
gave up, all of them worth a retry (`CountsAgree`), and threads are born of permitted
calls only (`ThreadsArePermitted`); that a late thread changes nothing follows because
the caller looks at the thread of the `current` attempt.  A delivery keeps within its
frames because `FrameTotal` counts the set of frames, not their sum: a scene without a
duration is refused before a frame is drawn, so the frames drawn are a subset of those
counted, and no recursion is needed (`TimelineIsAdmitted`); `FilesFollowPhases` says
which file exists in which phase.  A reference is chosen once from all that count, and
edits after the choice do not reach it (`ReferencesInv`).

### Only model-checked

* Liveness (`Settles`, `CancelSettles`, `BatchSettles`, `WorkEnds`, `BrokerEnds`, ...):
  fairness and ENABLED are out of the prover's reach.
* The algorithms: what a recursive definition computes for every input needs an
  induction the installed provers cannot do.
* `QuietIsDone`: not true for every value of the constants.  `create_batch` reads
  the record three times before it gives up, so three failed reads leave a quiet
  batch undone; the run's bound on faults is part of what it says.
* The two findings: `RepairedHasNoWorker` and `CancelledItemsNeverRun` are false.

## Plan

1. Done: every component modelled has its runs, and every safety and action property
   of a passing run but `QuietIsDone` and the algorithms has its theorem.
2. Left: the visual fan-out and the timeline of a story, the Latin subtitle wrapper and
   the loader's admission of models are the parts of the code that could still be
   modelled with profit.

## Not modelled

* Loading of models and manifests, prompting, quality scoring: calls into
  libraries and stateless data shaping (`JsonExtract` is the part of
  `text_runtimes.py` with an algorithm of its own).
* The data directory lock (`ownership.py`): one process per directory is assumed
  by the single `Boot` thread.
* Assets, projects, bible and feedback stores: single files without concurrency
  of their own; the image generator's view of assets and bible is in
  `ImageReferences`.
* The visual fan-out, the timeline and the continuity memory of stories; the
  Latin subtitle wrapper; the arithmetic of the audio mix.
* `WorkerPool.stop`, which gives up joining a worker after a timeout: the API
  starts one runner thread and not the pool, and a shutdown is covered as a crash
  at any point.
* HTTP routes other than those of stories and batches, the web and desktop apps,
  the other scripts: request parsing and user interface.
