# A verification of the music data pipeline

The repository turns a directory of audio files into annotations. Every audio goes through a
gate (music or not), Discogs MIR (song or instrumental), three full-track stages (CPU MIR,
SongFormer structure, caption), section ASR if it is a song, and ends in exactly one of four
partitions: annotated, review, rejected, retry. Two runners drive the same six model services:
`run_pipeline.sh` stage by stage, `run_stream_pipeline.sh` audio by audio.

This directory holds TLA+ modules for the parts whose correctness lies in their control, TLC
configurations that check them on small instances, and proofs, checked by TLAPS, that hold for
every instance. The code is the reference: `PROJECT.json` maps each definition to the lines it
stands for. Paths below are relative to `src/`.

Contents: 1 inventory, 2 modules and the code they model, 3 properties and runs, 4 bounds,
5 fairness, 6 proofs, 7 what the code does not guarantee, 8 what is not modelled, 9 what is left.

## 1. Inventory

### Components, their state and their operations

| component (source) | state | operations | modelled in |
|---|---|---|---|
| Tables of the streaming runner (`scripts/stream_state.py`) | SQLite: one row per audio (`stream_items`), one per audio and stage (`stream_stages`) | register_items, recover_running, set_item_status, prepare / claim / finish / fail_stage, reads | `StreamState` |
| Streaming runner (`scripts/stream_pipeline.py`) | the tables, annotation files, partition files; in memory the inventory queue, the set of seen ids, futures in flight, health cache | run: recover, repair, drain, scan, submit, wait, finalize, validate; the producer thread; one executor thread per call | `StreamPipeline`, `TrackLifecycle` |
| Inventory (`scripts/calc_duration.py`) | the hash cache file, the inventory file | scan, stat, hash, probe, group duplicates, reuse, write | `Inventory` |
| Final validation (`scripts/validate_pipeline_output.py`) | none | reads the partitions, raises | `Validate` of `StreamPipeline` and of `BatchRunner` |
| Service client and its callers (`scripts/service_client.py`, `service_batch_infer.py`) | an output file | infer, with immediate retries, under `_infer_one`'s own | `ServiceCalls` |
| Inference service (`scripts/service_api.py`) | bounded queue, in-flight table, LRU response cache, worker task, executor thread, life-cycle state | start, submit, the batching worker, stop | `BatchService` |
| Service runtimes (`scripts/serve_*.py`) | a model; CPU MIR lanes; Discogs' frame buffer; SongFormer's decode prefetch | process_batch | `ServiceBatches`, `CascadeGate`, `SectionAsr` |
| Service manager (`scripts/model_service_manager.py`) | one state file per service: pid and start time | start, stop, restart, status | `ServiceManager` |
| Batch runner (`run_pipeline.sh`, `scripts/service_batch_infer.py`, `pipeline_state.py`) | one or several JSONL files per stage, manifests, retry files, the annotation tree | resume, infer what is missing, partition, combine retries, publish, validate | `BatchRunner` |
| Annotation storage (`scripts/annotation_storage.py`) | the annotation tree, a staging and a backup directory | atomic write; publish a tree, recover an interrupted one | `AnnotationPublish`, `AtomicTree` |
| Fast Gate (`scripts/fast_gate_core.py`, `fast_music_gate.py`, `serve_fast_gate.py`) | decoder pool, pending windows, posteriors; four appended files | classify_records in two stages; resume, buffers, append | `CascadeGate`, `GateRun` |
| Discogs MIR (`scripts/discogs_mir_infer.py`) | decoder pool, frame buffer; four appended files | prefetch, batch frames, route, append, resume | `DiscogsRun`, `RoutingRun` |
| SongFormer stage (`SongFormer/infer_jsonl.py`, `audio_prefetch.py`) | task and result queues, worker processes, a prediction and a marker per track | put, collect, supervise, terminate, commit, merge | `SongFormerRun` |
| Sections and their lyrics (`scripts/pipeline_core.py`, `structure_postprocess.py`, `section_asr_infer.py`, `serve_section_asr.py`) | one record per track | postprocess_sections; decode, transcribe, crop, resume | `SectionPlan`, `SectionAsr` |
| Ray graph (`MusicToolsPipeline/ray_inference.py`, `workers/*`) | two bounded queues, actors, supervised references | resume, load, infer, save, end markers, supervision, publication | `RayStage` |
| Task tracker (`MusicToolsPipeline/task_tracker.py`, `runtime_integrity.py`) | append-only progress file, task manifest, results file | configure_run, migrate, mark_tasks_finished, merge, reset | `TaskTracker`, `RayStage` |
| Metadata merge (`scripts/dual_metadata_merge.py`, `metadata_merge.py`) | none | join of finished files | the refusals of the first: `Merge` of `BatchRunner` |
| Job control (`scripts/pipeline_job_control.sh`) | child pids | run_guarded_job, wait, terminate | not modelled |
| Models and vendored code (`PANNs/`, `SongFormer/models/`, `MusicToolsPipeline/sub_models/`) | weights | tensor arithmetic | out of scope |

### How they interact

* The streaming runner is one process. Its main thread is the only client of the tables. A
  producer thread feeds it inventory records through a bounded queue; an executor of
  `max_inflight` threads makes one blocking HTTP call per dispatched stage. A future is the only
  thing a call and the main thread share.
* What outlives the process is the tables, the annotation files and the partition files. They are
  written one after the other, never in one transaction: every gap between two writes is a place
  for a crash.
* The Ray stage of `MusicToolsPipeline` is a driver and its actors, joined by two bounded queues; all
  of them read `progress.jsonl` when they start, only the saver writes it while they run.
* Each service is one process with one event loop, one worker task and one model thread. Request
  ids are a function of job, audio, stage and input fingerprint, so a repeated call, also by a
  later run, carries the same id. That ties the runner's tables to the service's response cache.

### What is hard, and what makes each part correct

* **Tables.** Compare-and-swap transitions under any order of calls: a result is never replaced,
  an input never changes once prepared, a claim is counted once, the scan order survives resumes.
* **Runner.** Everything between two effects: a crash there, a reply there, a record arriving
  there. A stage must be dispatched exactly when what it needs is there, with the input it would be
  given today; a reply must find its row; the loop must not stop early, stall, or wait for nothing;
  the end must account for every audio.
* **Service.** Requests join, repeat, conflict and are abandoned while a batch runs, and stop can
  come between any two of those steps: nothing is inferred twice, nobody waits for a future nobody
  will resolve, nobody gets the answer to something else.
* **Ray stage.** A kill between any two file writes, or inside an append; an input whose rows moved;
  end markers among the work of several producers; an actor that dies while the others wait for it:
  a result belongs to its track, a task is done when its result is there and not before, and the
  driver always gets to an end.
* **Callers.** Two retry loops, one in the other, against a service that may be full, may lose a
  reply, or may answer an attempt its caller gave up: an outcome is the answer to its own request.
* **Batch runner.** A dozen programs over files of several ages, three of them side by side, any of
  them failing or outliving the script: reruns must keep what succeeded, try again what did not, and
  put every audio in exactly one partition, for the right reason.
* **Annotation tree and manager.** Crash gaps between two renames; a process and the file that names
  it, with pids that are used again.
* **Inventory, gates, SongFormer, sections.** Pools that work ahead of a consumer, batches that span
  tracks, files that are appended or committed in two steps, and inputs that change between the
  steps: whatever is reused must still be true of the track.

`PROJECT.json` lists each of these hazards at its line, with the properties that catch it.

## 2. Modules and the code they model

| module | what it is |
|---|---|
| `StreamState` | the tables; clients call any operation in any order |
| `StreamPipeline` | the runner; instantiates `StreamState` for every access to its tables |
| `TrackLifecycle` | the abstract specification: what is promised about each audio, without queue, calls, scheduler, crashes or restarts |
| `BatchService` | the inference service |
| `TaskTracker` | the files of a Ray stage: what readers make of them, what a kill leaves of an append |
| `RayStage` | a Ray inference stage: driver, loaders, models, saver, restarts |
| `ServiceCalls` | runner threads, their retries, their runs; composed with `BatchService` |
| `ServiceBatches` | process_batch inside Discogs, CPU MIR, SongFormer and the caption proxy |
| `AnnotationPublish`, `AtomicTree` | publication of a tree by two renames; the atomic replacement it promises |
| `BatchRunner` | the script, composed with `AnnotationPublish` |
| `ServiceManager` | start, stop, restart by several commands |
| `Inventory` | inventory runs over a folder that changes |
| `CascadeGate`, `GateRun`, `DiscogsRun`, `RoutingRun` | one call of the Fast Gate; its command; the Discogs command; the two after each other |
| `Selections` | the parts of a sequence, in its order: list comprehensions of the gate and Discogs modules |
| `SongFormerRun` | the structure stage |
| `SectionPlan`, `SectionAsr` | the sections of a track; their lyrics, by the file program or the service |
| `MC...` | instances for TLC |
| `...Proofs` | theorems and proofs (section 6): `RoutingProofs` about the gate, its command and the Discogs stage, `BatchModeProofs` about `ServiceManager`, `ServiceBatches`, `AnnotationPublish` and `BatchRunner`, `SectionProofs` about `SectionPlan` and `SectionAsr`, `StreamPipelineProofs` about the runner and `Inventory` |

**StreamState.** `items[a]` and `rows[a][s]` are the rows, with status `"absent"` where there is
none. Each public method is one autocommitted statement or one `BEGIN IMMEDIATE` transaction, so
it is one action. A method that raises changes nothing; its condition is the action's guard. A
request id is a function of audio, stage and fingerprint, and is not stored again. Left out: error
texts, model fingerprints, times, the schema migration, several jobs in one database.

**StreamPipeline.** The main thread's control points (`pc`) are the places where another thread,
or a crash, can come between two of its effects.

| `pc` | code (`scripts/stream_pipeline.py`, `run` and its helpers) | actions |
|---|---|---|
| down | no process | `Start` (with `recover_running`), `Vanish` |
| repair | published items whose file is gone are reopened | `Repair`, `BeginLoop` |
| drain | the queue is emptied without waiting; then the items are read once | `TakeRecord`, `TakeDone`, `TakeInvalid`, `Snapshot` |
| decode_failed | the second write for a record that could not be decoded | `DecodeFailed` |
| scan | the pending items of the snapshot, oldest first, while there is capacity | `EndItem`, `RaiseOnItem`, `WriteAnnotation`, `PublishRaises`, `Dispatch`, `PassOver`, `EndScan` |
| submit, claim | `_submit`: prepare_stage, then claim_stage, the health check, the call | `Prepare`, `Submit`, `Unhealthy`, `EndSubmit` |
| commit | the status after the annotation file | `CommitPublished` |
| wait, collect | `wait(FIRST_COMPLETED, 0.1)` and the replies found | `Collect`, `AfterWait` |
| check, putback | nothing in flight: leave, stall, or peek at the queue | `EndLoop`, `GoRound`, `Peek`, `PutBack` |
| finalize, validate | partition files; validation | `Finalize`, `Validate` |

Other threads: `Produce` (one `put`, blocking on a full queue) and `Reply` (a call returns or
raises). `Crash` ends the process between any two steps. `Stop` is every way the process ends;
`exit` says which. A reply is a value of `Replies[s]`: a verdict, a route, content, content that is
empty, a route that is none, or `Error`. An input fingerprint is the function from the upstream
stages to their results: two inputs differ exactly when an upstream result does.

Abstractions to know of: `Collect` takes the finished futures one by one and may leave some for the
next round, where the code handles all that `wait` returned; every behaviour of the code is one of
the model. A process that ends by an exception does not wait for its open calls: `Stop` drops them,
since nothing reads their futures any more. The annotation is the record of the results it was
built from. The `on_publish` callback, which only the tests set, is left out.

**BatchService.** Everything runs on one event loop and no coroutine suspends while it holds
`_lock`, so a locked section, with what follows it up to the next await, is one step. `submit` is
one action per outcome: 503 when not running, cache hit or 409, joined future or 409, 429, accepted.
The worker is `TakeFirst`, `TakeMore`, `Infer`, `BatchDone`; a batch fails per item or as a whole
(every answer not ok). `GiveUp` is a lost connection: the future is shielded, the request goes on.
`Stop`, `FailPending`, `Cleanup`, `Stopped` are `stop`; `BatchDropped` is the batch of a cancelled
worker, whose thread goes on. `StopUnnoticed` is the cancellation that `asyncio.wait_for` loses on
Python 3.11 and before, when the inner `get()` has finished in the same pass of the loop. The health
snapshot only reads, and is left out.

**TaskTracker and RayStage.** `run_inference` for the CPU MIR stage, whose fingerprint covers some
fields only. `driver` is the driver's place in it:

| `driver` | code (`MusicToolsPipeline/ray_inference.py`) | actions |
|---|---|---|
| down | no process | `Start`: reads the files, decides to refuse, reset, migrate or go on |
| reset | `reset_incompatible_stage_state`, one unlink a step | `Unlink` |
| migrate, migrated | `migrate_semantic_input_fingerprint`: append, then manifest | `Migrate`, `WriteManifest` |
| configure, configured | `configure_run`: append, then manifest | `Configure`, `WriteManifest` |
| demote | completed tasks without a whole result become errors; nothing left to do ends the run | `Demote` |
| ready | actors are created, each with a tracker of its own | `StartGraph` |
| graph | `_supervise_worker_refs`: end markers, finished references | `SendEnd`, `Observe`, `ObserveDeath`, `Publish` |
| failing | an exception on its way out; the actors live on until the process has gone | `Exit` |
| published, refused | after the validation | `Leave` |

Actors: `LoadBatch`; `TakeBatch`, `PutResults`, `PutEnded`; `GetResult`, `MergeResults`,
`MarkFinished`. `Die` kills one of them, `Crash` the driver with all of them; either may cut an append
short. A row number is followed from the loader to the saver, which turns it into a key with the map it
read: `about` says which track a result was computed from, and the key where it was stored.
`progress.jsonl` is the fold its readers make of it, and `sure`, the fold that remains once the next
line is glued to a torn tail. A kill cuts a write at a page, so lines of one append may be missing,
cut, or without their newline, but the single line of `run_meta`, and the first of several, are
written or not. `ray.cancel(force=True)` does nothing to an actor's method, so the saver may still
write while the driver is on its way out. `Demotions` compares the results with the file, where the code
asks the driver's tracker in memory: they differ only when the run found a torn tail, of which the
properties claim nothing. Left out: `success.jsonl` and `stage_fingerprint.json`, which
no later run reads, the progress thread, the queue monitor, the row-number progress of the oldest
version, which is only refused.

**ServiceCalls.** A thread is a connection of `BatchService`. `Send`, `Receive`, `Lose` are one attempt;
`Retried` is the loop of `_json_request`, `Raised` that of `_infer_one` around it. `Write` ends a run with
its output file, `Die` without it, and `RunAgain` keeps only the successes of the file. Waiting between
two tries takes no time.

**ServiceBatches.** One batch inside one of four services. Discogs decodes ahead in order and flushes
when its frame buffer is full; CPU MIR deals the batch to lanes; SongFormer decodes one ahead; the
caption proxy asks with retries. An answer names the request it was computed from and whether it is
good. Loading, health and the models are left out, and so is an exception of the caption proxy before its
first try (`serve_omni.py:68-75`): no record the runners send raises it, and one that did would fail the
batch as a whole, which `BatchService` has.

**AnnotationPublish.** One action per rename, and two for the removal of a tree, which is not atomic.
`PublishFails` and `PublisherDies` end it anywhere; `Recover` is what the next publication does first.

**BatchRunner.** `pc` is the program the script is at. A program that renames its output into place is
one step; the two that partition write one file after the other (`Infer`, `WriteOne`); three run side by
side (`JobEnds`, `JobFails`), and when the script exits at the first failed `wait`, the others go on as
`orphans`. A crash takes the whole host. The tree is published by the actions of `AnnotationPublish`.
What services say of an audio is fixed; any request may fail. The services outlive the runs, and may be on
other hosts. A request has the same id in every run (`service_batch_infer.py:151`, `:269-271`), and an answer,
also an error, is kept under it (`service_api.py:393-401`, `:307-315`). So `Ask` has a request whose error
the service answered fail again in every later run (`remembered`), until the service restarts or evicts
it (`Forget`); a request without an answer is asked afresh. Left out: the inventory and health-check
steps, two writers of one `.tmp` path, and `RUN_ASR=0`.

**ServiceManager.** A process is a pid and a birth, as the code identifies it by pid and start time.
Commands interleave and die anywhere. One assumption, `NoReuseInWindow`: a pid is not used again between
the check of a process and the signal right after it, a few instructions later; nothing in the code
prevents that, and everything wider (the whole of a stop, of a wait, of a command) is allowed.

**Inventory.** A file is its content and the stat fields `file_identity` reads (`stamp`). `Edit` replaces,
renames or removes a file at any point, so a hash may be of the old content, the new, or torn.
`quiet` and `untouched` are history variables for the properties. Left out: `--append`, the failure log,
durations and codecs. Two things the code does and the model shows: a file replaced between its
hash and its probe leaves a record with the old id and the new status (hence `untouched`), and all
files that cannot be read share the id `"None"`.

**CascadeGate, GateRun, DiscogsRun, RoutingRun.** A window is a track and an offset; posteriors are a
table of the instance, thresholds and the aggregation are the code's. The decoder pools are bounded and
finish in any order, batches span tracks, and a failed call is repeated track by track. The commands
append to four files each, with a torn last row after a kill, and refuse a resume whose rows changed
(`Edit`). Frames are counted, not computed: a frame batch is the frames of the buffer whose place, in the
order of tracks and frames, falls in it.

**SongFormerRun.** Main process, workers with one track loaded ahead, a bounded task queue with end
markers, messages in any order, every deadline as an action (`Stalled`), SIGTERM and SIGKILL
(`Terminate`), the two-file commit, the reuse of predictions, and tracks that another stage routes anew.
A slow worker past a deadline is a hung one. Left out: a SIGKILL of the main process alone, the
frame-logits option, debug mode, and what one inference computes.

**SectionPlan, SectionAsr.** `postprocess_sections` as the removal of one boundary at a time; then the
sections of a track are bucketed, batched, decoded with padding, transcribed, cropped, and tried again
one by one. Only the file program is run again (`--resume`); the service answers a repeated request with the
record it keeps. A word is its time. Languages, memory budgets and the cache key are left out, and so are
the clamps of `postprocess_sections` that change no time inside the track.

Each module has *faulty variants*: definitions with a plausible slip in them, which
no specification uses. Each property is broken by one of them (`mutants` in `PROJECT.json`).

## 3. Properties and runs

| run | instance | properties | distinct states |
|---|---|---|---|
| `tables` | 2 audios, 2 inputs and results, any order of calls by any number of runners | `SucceededIsFinal` | 53 thousand |
| `stream_faults` | one fault model: failing calls, unhealthy services, every verdict and route, empty and changing results, lost files, undecodable audio, changed, repeated and broken inventories, crashes, 2 runs | `StageInputCurrent`, `CallsMatchRows`, `NeverStalls`, `OutputValid`, `TerminalIsFinal`, `LifecycleSpec`, `EveryRunEnds` | 323 thousand |
| `stream_live` | 2 audios in service at once, 3 full-track stages, limit 3, failing calls | `EveryRunSucceeds` | 86 thousand |
| `service_calls` | 2 threads, 2 ids, one with two payloads, queue and cache of 1, a retry in each loop, 2 runs, a stop at any moment | `NeverInferredTwice`, `AnswersMatch`, `OutcomesAreTrue`, `SuccessIsKept`, `EveryRunnerEnds` | 907 thousand |
| `ray_stage` | 2 tasks in either order or a third one, a new directory or one of an older version, 2 loaders, 2 models, queues of 1, 2 runs, deaths, kills | `ResultsBelong`, `CompletedHasResult`, `NothingLost`, `SomebodyMoves` | 1.9 million |
| `batch_runner` | 5 audios, one for each way through the script, 2 faults (failures or deaths of the host), services that remember errors, reruns for ever | `DoneIsTrue`, `ChecksHold`, `ImplementsAtomic`, `RerunsConverge` | 144 thousand |
| `service_manager` | 2 services, 2 commands, 2 pids, 3 births | `NoOrphan`, `SignalsOwn` | 1.6 million |
| `routing` | 5 tracks, one for each way through both gates, pools of 2, a failed call, a kill or an edit in each stage | `VerdictIsOwn`, `DecodedOnce`, `EndsComplete`, `RoutesAreCurrent`, `RunsReturn` | 50 thousand |
| `songformer` | 3 tracks, 2 workers, a queue of 2, a fault, 2 reroutes | `AnsweredOnce`, `OutputIsTrue`, `EveryRunReturns` | 201 thousand |
| `sections` | several hundred raw structures, both programs, 2 failures | `SectionsTile`, `WordsOnce`, `LyricsSettle` | 336 thousand |
| `inventory` | 3 paths, 3 contents, 2 of an edit, a kill and a timeout, runs for ever | `CacheIsTrue`, `PathsAreCurrent`, `StatusesAreTrue` | 2.1 million |
| `service_batches` | batches of 2 to 5 requests in four services, 2 failures | `AnswersAreOwn`, `BatchesReturn` | 6 thousand |

Streaming runner: a live runner has exactly one call in flight per running row (`CallsMatchRows`), so
no reply is lost and `finish_stage` never raises. "stream scheduler stalled" cannot be raised
(`NeverStalls`). A run not cut short leaves no audio pending and its partitions are valid
(`OutputValid`). A prepared stage keeps the input it would be given now, through restarts
(`StageInputCurrent`), so `prepare_stage` never raises and a retry has the same request id. `LifecycleSpec`
is a refinement: seen from one audio, the runner does only what `TrackLifecycle` allows; that includes
that an annotation, also one a dead runner left, was built from all stages of its route.

Service and callers: the in-flight table holds exactly what a live worker has still to answer, once,
and nothing already answered (`NeverInferredTwice`); an answer, and the outcome the runner keeps after
any number of attempts, is about the payload that was sent (`AnswersMatch`, `OutcomesAreTrue`); a
success is in every later file (`SuccessIsKept`); every caller ends, also when the service stops
under it (`EveryRunnerEnds`). Inside a batch every request gets one answer, its own, whatever its
neighbours do (`AnswersAreOwn`), and the batch comes back (`BatchesReturn`).

Ray stage: a result is stored under the key of the track it was computed from, though rows move
between runs (`ResultsBelong`); the tracker never says that a task is done whose result is not
there, also after a half-finished reset, and in a run that found the file whole it never calls a task
done whose result is an error (`CompletedHasResult`); a graph that ended has stored every
task, and the tracker agrees with all results unless the run found a torn file (`NothingLost`: then
`validate_result_tracker_coverage` refuses to publish, and the next run repairs it); until a run has
ended some process can go on by itself (`SomebodyMoves`).

Batch runner: a run that ends well leaves each audio where the answers and failures of the run say it
belongs: in retry, once, with the first stage that failed, or in the partition the gates decided, and
nowhere else (`DoneIsTrue`, unless a program of an earlier run was still writing); the
checks between programs are never what ends a run (`ChecksHold`); the published tree changes in one
step, to the whole of the new one (`ImplementsAtomic`); reruns end, and leave in retry only what no
run can mend and what a service still answers with the error it gave before (`RerunsConverge`; section 7). Manager: commands that do not overlap and are not killed leave no
process outside its state file (`NoOrphan`), and no signal ever reaches another program
(`SignalsOwn`).

Inventory: a line of the hash cache that matches a file is true of it, whenever the file was replaced
(`CacheIsTrue`); a run during which nothing changed describes the folder as it is, with paths, duplicates
(`PathsAreCurrent`) and statuses (`StatusesAreTrue`). Gates: a verdict is that of the track's own windows
(`VerdictIsOwn`), decoded once (`DecodedOnce`); a finished run has each track in one file, by its current
row (`EndsComplete`), a finished Discogs run has the route of each accepted track (`RoutesAreCurrent`);
runs return (`RunsReturn`). SongFormer: a task is in one place at any time, and answered once
(`AnsweredOnce`); rows tell the truth about the current route (`OutputIsTrue`); every run returns
(`EveryRunReturns`). Sections tile the track (`SectionsTile`), a word heard by two of them is in the
lyrics of one (`WordsOnce`); each program ends with a status for every section, and reruns of the file program
without errors (`LyricsSettle`).

## 4. Bounds, and why they are enough

* Two audios: every interaction in the runner is between one audio and the queue, the in-flight
  limit, the ordinal order or the end-of-run tests; two make each of them contested. In
  `stream_faults` the second can never be decoded, which keeps the fault model whole and the
  instance small; `stream_live` has both in service and competing for places.
* One or two full-track stages where the order among them does not matter, three in `stream_live`.
* `MaxRuns` = 2: one crash and one restart from every state. Nothing but the tables and the files
  survives, so a third run starts from a state a second could.
* `MaxInflight` = 3 in `stream_live` makes the limit bind: two audios have up to six calls to make.
* The tables' run bounds attempts by a state constraint (`AttemptBound`, 2 attempts); no guard
  reads the counter.
* Service: a queue of 1 and batches of 2 make the queue full while the worker collects; a cache of
  1 with 2 ids evicts; two connections can join one future, and conflict; one retry in each loop is
  one late answer of an earlier attempt for each.
* Ray stage: two tasks are enough to be swapped, to be in two shards and two models, and to make one
  buffer of two, the shortest append that can be cut; the third is another input. Queues of 1 make
  every `put` wait. One actor dies per run, since the first death that is seen ends it; two runs
  make one restart from every state. The two models are declared symmetric: nothing tells them apart.

* Batch runner: each audio of the five meets another branch (song whose path clashes with an
  instrumental's, structure that cannot be split, review, rejected). Faults, deaths of the host among
  them, are bounded, reruns are not. With three faults the invariants hold too (3.3 million states). An
  audio that a service can never answer is one whose error is never forgotten; that a request gets no
  answer at all in any run is excluded by the bound.
* Manager: two pids for two services and foreign programs are enough to be mistaken for each other;
  three births make a pid be used again. Commands and pids are declared symmetric: nothing orders
  them. Services are started in the order of a list, so they are not.
* Routing: durations on each side of the two decode limits, a track stage B decides, one for each
  route; pools of two finish in either order; two faults of any kinds. With these sizes the gate
  never refills a buffer that is still waiting; the theorems have any sizes.
* SongFormer: two workers can hold, load ahead and lose different tasks; a queue of two is shorter
  than the tasks and end markers together; one fault strikes at every point.
* Sections: times are half seconds, with the code's own thresholds; up to three inner boundaries,
  near each other, near both ends, sure and unsure, with three labels.
* Inventory: three paths can be a first path, a duplicate and another content at once; two faults
  of any kinds per behaviour, runs unbounded. The two decodable contents are declared symmetric: the
  program tells them apart, and orders nothing by them.

The theorems (6) have none of these bounds; `MaxRuns` there is any natural number.

`CHECK_DEADLOCK FALSE` is set for the stream runs: when the last run has ended nothing need happen.
The tables at their attempt bound stop too, the Ray stage and the callers after their last run. All
other systems can always go on, and deadlock is checked.

## 5. Fairness

The runner: weak fairness of the main thread's step and of the producer's `put` (a live process
schedules its threads), and of each `Reply`: `urlopen` has a timeout, the retries are finitely many,
so `infer` returns or raises. `Start`, `Crash` and `Vanish` have none: nobody owes a restart.

The service and its callers: weak fairness of the worker and of the steps of stop: the event loop runs
what is ready, a batch collects no longer than `max_wait_ms`, and `process_batch` and `cleanup` end;
and of each thread of the caller and of the writing of its file. Losing a connection is not fair, and
neither is the service's start or stop, so `EveryRunnerEnds` rests on none of them.

The batch runner: weak fairness of the script's next step, of its start (the operator runs the
directory again, which is what `RerunsConverge` is about) and of programs that outlived it. `Forget` has
none: nobody owes a service a restart, and its cache evicts only when it is full. Gates,
SongFormer and sections: weak fairness of each main program and worker that can step, and, for the
sections, that the file program is run again. A batch inside a service (`BatchesReturn`), like the
inventory and the manager, has what section 3 says of it only.

The Ray stage needs none: a run of it has no loops (every step uses up a row, a batch, a marker or a
reference), so it ends if some process can always go on, which is the invariant `SomebodyMoves`. The
code's own loops, `ray.wait` and `put` with a timeout of a second, are waiting and not steps.

`EveryRunEnds` and `EveryRunSucceeds` are checked on inventories that fit in the queue with its end
marker. With more records than that the runner can block (section 7, `RecordsHandedOver`).

## 6. Proofs

All theorems hold for any constants that satisfy the named assumptions of their modules, which TLC
also evaluates on each run:

* `NoneAssumption`, `RecordsAssumption` (`StreamState`); `RunnerAssumption` (`StreamPipeline`:
  `MaxInflight` in 1..64 as the command line requires, a full-track list that holds
  `structure_raw`, replies from the results, records about audios);
* `ServiceAssumption` (`BatchService`: positive sizes, requests of an id and a payload),
  `CallsAssumption` (`ServiceCalls`); `ManagerAssumption` (`ServiceManager`: a list of services);
* `TreeAssumption` (`AnnotationPublish`: no tree and a partial tree are not trees), `BatchAssumption`
  (`BatchRunner`: every audio has an answer of each gate, a published tree is a set of audios);
* `TrackerAssumption`, `RayAssumption` (an input is a sequence without repetition, as
  `build_task_manifest` requires, and not empty, since a run with nothing to do builds no graph;
  positive sizes; finitely many models);
* `SongFormerAssumption` (finitely many tracks and workers, at least one worker, one place in the queue,
  a prefetch of 0 or 1);
* `BatchesAssumption` (`ServiceBatches`); `GateAssumption` (`CascadeGate`: durations and limits are
  positive, a threshold to reject lies below the one to accept), `GateRunAssumption` (`GateRun`: the input
  names no track twice, which `scan_inputs` refuses), `RoutingAssumption`;
* `InventoryAssumption` (`Inventory`: markers such as `"torn"` are not contents);
* `SectionPlanAssumption` (`SectionPlan`: thresholds are not negative, times and confidences are
  numbers, downbeats finitely many, and a glitch is shorter than a short section),
  `SectionAsrAssumption` (`SectionAsr`: a positive batch size, limits of buckets are numbers).

They say what arguments the programs accept, and that markers such as `None` are not data. One theorem
has a hypothesis of its own, `OutputIsValid`.

**StreamStateProofs.** Types, `RowsCoherent`, `SucceededIsFinal`, `InputIsFixed` and
`AttemptsCountClaims` rest on one classification of what a step can do to a row: absent to prepared,
claimed, finished, failed, recovered, or nothing. `OrdinalsDistinct` is not inductive alone: the
invariant adds that the maximum which the `CHOOSE` of `NextOrdinal` names exists, and nothing has to
be assumed about the set of audios.

**StreamPipelineProofs.** `IInv` is the conjunction of types, the tables' invariants, and
* `Answers`: a stored result, or one in flight, is an answer of that stage's service;
* `Ordered`: a stage with a row has what it depends on;
* `StageInputCurrent`: its input is the one of now;
* `Control`: during a scan, the items still to visit are pending and `ready` names only stages
  `_ready_stages` may name.

The last is what makes the others inductive: `ready` is computed in one step and used several steps
later, in between replies arrive, and it must still be right. `StageInputCurrent` then follows
because the results it reads are final. Consequences: `RunnerTypeCorrect`, `DependenciesAreMet`,
`InputsAreCurrent`, and `RunnerUsesTables`, which says that the runner implements `StreamState`: each
step is a table operation or leaves the tables alone, so the theorems about the tables hold of it.

Calls, on top of `IInv`: `CallInv` (`CallsMatchRows`, and a process that is down has
no calls); `InflightInv` (the set is finite and bounded, and there is room at `claim`, where the code
no longer looks); `AttemptInv` (a pending row of a live runner has been claimed fewer times than
there were runs); `Moving`, from which `SchedulerNeverStalls` follows: if the snapshot held a pending
item and nothing has progressed yet, then the scan is not over or something is in flight, because an
item that is passed over waits for a call.

Files: `AnnotationsAreComplete` (results never change once stored, so a file that
agreed with the tables still does); `PublishInv` (between the file and the commit the file is
there); `DecodeInv` (an audio that could not be decoded is failed, or about to be, before a scan of
this run can see it); `PartitionsAreKept`; and `RunnerImplementsLifecycle`, the refinement
`Spec => LifecycleSpec`: the initial states correspond, and each step of the runner is one step of
`TrackLifecycle` or leaves `status`, `done` and `file` as they are.

The end of a run: `EndInv` says what its parts leave. An annotated item is published or about to be; a
review or rejected item is so by a verdict its rows still hold; and only a snapshot without pending items,
after the end of the inventory, lets the loop end, from where nothing can become pending again
(`NothingLeft`). So every run that ends by itself has brought each audio to a partition
(`NobodyIsLeftPending`), and the partitions are disjoint and cover the inventory, each with the files it
needs (`OutputIsValid`). The latter assumes `~WriteMayFail`, and must: section 7, `:551`.

**ServiceCallsProofs.** First the service alone: `SInv` adds to `NeverInferredTwice`, `NobodyForgotten` and `AnswersMatch`
the types, `Lives` (a running service has a worker, a worker that holds nothing is idle or gone, and
nothing is accepted before) and `CacheMatches` (a stored answer is about its payload). The three are
proved together because each needs the others: that a resolved future is the waiting client's
own (`GivenFits`) follows from what `NeverInferredTwice` says of the batch, and that a batch does not
cache what is still queued from the ids ahead being distinct. The order of the cache plays no part,
for which answers are evicted matters only to `AnswerIsCached`.

Then the composition, on top of `SInv`: `CallersUseService` (each step of the composition is a step of
the service or leaves it alone, so the theorems about the service hold under the runner);
`OutcomesAreAlwaysTrue` and `SuccessIsAlwaysKept`. The invariant needs `Attuned`: a thread that waits is
waiting for its last request or has the response to it, so that no response to an attempt given up can
reach it (`ServiceAnswers`, `SubmitAnswers` and `HangupFrees` say what a step of the service may do to a
connection); and `NotAskedAgain`: what the file has as a success is in no thread's hands.

**BatchModeProofs** has batch mode: the services the script starts and calls, and the script. About `ServiceManager`,
`IInv` proves `NoOrphan`, `SignalsOwn` and `OneOfEach` together. A manager reads a
state file, checks the process, and acts later, while others do the same. What carries it over:
`Aimed` (the pid about to be signalled is free or is still the very process of that service, because
it was identified by its start time), `HasSeen` and `BornBefore` (a process that was seen was born before
every later one, so a pid used again is told apart), and, while commands neither overlap nor die,
`Alone` and `FileKept` (a command finds the state file as it read it).

About `ServiceBatches`, `BatchAnswersAreOwn`. `BatchesInv` says that a place has one answer at most, about
its own request (`AnswersSound`, `OneEach`); that what waits in the frame buffer or at the model has no answer
yet, or its flush would answer it a second time (`Unanswered`); that SongFormer has answered the first requests of
the batch and CPU MIR whole lanes (`InTurn`, `ByLane`), so the next answer is to a new place; and that every
request of a model call that failed is answered (`Shared`), so none that had a good answer is excused
afterwards. With one answer per place, as many answers as places means an answer at each.

About the script, first the publication: `PublicationIsAtomic` is a refinement of `AtomicTree` under the
mapping `Published` (the tree in place, else the backup, which the next publisher puts back). `PublishInv`
says why it works: no backup is ever partial while there is no tree in place, and nothing but the verified
staging tree is swapped in. Then the script, whose programs hand each other files of different ages.
`BatchInv` has, for each place of the script and those after it, what the lists written so far say:
* `PartitionsInv`: the files of a gate being written complete a partition of its sources; once
  written they divide it, whatever a killed run left in them;
* `FilesTrue`: each later list is the part of the one before that every program in between answered well,
  and each retry file is the rest, with the first stage that failed; unless an orphan of an
  earlier run has written into this one (`disturbed`);
* `TreeInv`: the tree in place is the list `publish` from the end of its publication on.

`FilesTrue` is why the checks between programs cannot fail (`NoCheckFails`): each compares two lists that
both come from the same answers. At the end it is `RunsTellTheTruth`. `ScriptPublishes` says that the script
takes the publisher's steps only, so `BatchTreeIsAtomic` follows from the publisher's theorem.

**RayStageProofs.** `FlightInv` has four parts.
* The files: from `configure_run` on the progress file, and from `_write_manifest` on the manifest, are
  those of this run's input (`Bound`), so a row number means the same track to the loader that sends it
  and the saver that stores it: `EveryResultBelongs`, also when the input was reordered between runs.
* What the tracker calls done, with or without its last line, has a result (`DoneIsStored`): results are
  replaced before tasks are marked, and a reset removes the progress first. Hence `DoneHasResult`.
* Every task id is in one place: a loader, a batch in a queue, a model, a batch of results, the buffer of
  the saver; or it is stored and marked (`OnePlace`, `Accounted`). At the start the shards partition
  the input, which is arithmetic: contiguous ranges whose lengths differ by one at most.
* The queues drain in order (`Draining`): the driver sends end markers after the last loader has ended, each
  model takes one, and its own end comes after all its results. A saver that has heard every model has
  therefore nothing behind it: `NoTaskIsLost`.

The proof corrected the model's claim. `CompletedHasResult` used to say that no done task ever has an error as
its result. That is false in a third run: an append glued to a torn tail is skipped by readers, and if it
demoted a task, the older `ok` counts again, over a result that is an error. The run's two restarts do not
reach it. It is stated now for runs that found the file whole, and holds for any number of them; the
next comparison of both files repairs the rest.

**SongFormerProofs.** `OutputInv` orders the two commits of a prediction: a marker agrees with its prediction
except between the two renames or after a kill there, and whatever a loader skips or a worker answers
as done is reusable for the current route (`RowsAreTrue`). `PlacesInv` follows the tasks: the queue
holds the last items put, in order; a track that has left it is in one worker's hands, loaded ahead, among the
answers, or received (`EachAnsweredOnce`); and while nobody was killed or hung, the workers that have
stopped are as many as the end markers taken, so every phase waits for something that comes
(`NoFalseAlarm`: the main process raises only after a fault).

**Inventory** (at the end of `StreamPipelineProofs`, whose runner it feeds; one proof module serves both).
`HashCacheIsTrue`: `HashInv` says the same of the run in progress
(`RunIsTrue`: an identity read before the bytes and still current means the bytes read are the file's),
and that no stamp known anywhere is younger than the last edit, so a new one matches nothing.
`FolderInv` adds what the inventory file needs: `RunShape` (what is known in each phase of a run, and that
its records are of first paths with the ids of the hashing), `QuietIsCurrent` (while nothing was replaced during
the run, its listing and stamps are the folder's and what it calls failed cannot be decoded) and
`UntouchedIsTrue` (while no file was ever replaced after its hash, the ids are of the contents, and no
record, of this run or an earlier one, calls an undecodable content good). From them
`InventoryPathsAreCurrent` and `InventoryStatusesAreTrue`.

**RoutingProofs.** Three invariants, each on top of the one before.
* `GateInv`: every posterior is that of its own window (`Cached`); a track of the stage that the decoder no
  longer has is decodable and each of its windows is inferred or waits for it (`Covered`); in stage B the
  scores of stage A are the tracks' own (`Scored`); answers are right (`AnswersOwn`); a session's windows
  include all it had decoded (`DecodesKnown`). `Covered` is what makes the rest inductive: a stage ends when the queues are
  empty, and only then do the posteriors at hand determine the score (`ScoresAreOwn`, `SameScore`).
  Hence `RoutingVerdictsAreOwn` and `RoutingDecodesOnce`.
* `RunInv`: no track has two rows (`OnePlace`); a row, a torn one too, is in the file of its track's own
  verdict or among the failures (`RightFile`, from `GateInv`); while a run goes on its rows are those of
  the inventory it reads (`RowsAreCurrent`), and what it has read is saved or being worked on
  (`ReadSoFar`). Hence `RoutingEndsComplete`, also for a run that finds nothing left to do.
* `JobInv`: the Discogs stage reads only when the gate has ended, whose accepted rows are whole then. A whole
  row in its files, whatever run left it, is in the file of its route, and once (`RecordsInv`; a torn row is no
  whole one). While a run goes on, every accepted row is in one place: not read, being decoded, in the buffer,
  waiting to be written, or stored, where it may be (`FlowInv`, `Justified`); steps only move it onward
  (`MoveKeepsFlow`). A run that ends has empty queues, so all is stored; one that starts with nothing to
  read has the same from `RecordsInv` and from not being refused (`StoredIsRouted`). That a flush routes
  every row of its buffer rests on `PlanCovers`: every frame, by its rank, is in one of the batches the number
  of frames needs. Hence `RoutingRoutesAreCurrent`.

The helpers are proved first: `InOrder` of a finite set of numbers exists and lists each once
(`InOrderFacts`, by the least number for which it would not), `Only` and `Without` keep what they say. They
stand where `SelectSeq` and `SetToSortSeq` could be, which the proof system cannot expand.

**SectionProofs.** No induction rule of the library can be used here: each takes an operator as a parameter.
Where a fact is about recursion over data it is proved by the least number for which it would fail
(`NumbersUpTo`), and that a recursive function has the values its definition says comes from the functions
on initial segments, the same way (`RecursionExists`).
* `PlanInv`. While short sections are merged the boundaries run from 0 to the end of the track (`BoundsInv`);
  their times need not rise, since two neighbours may have been snapped past each other. Each step removes an
  edge inside the track. When no section is too short any more, every one has a positive length, so the times do
  rise (`TimesRise`), and joining neighbours of one label keeps what a tile is (`FirstTile`, `NextTile`:
  the joined sections so far cover the intervals so far, each starts and ends at a boundary). A short section that
  the joining made is no worse than the intervals it has, which were not too short. Hence `SectionsAreTiles`.
* `AsrInv`. Every section to be transcribed waits for its answer, in a batch to come, at the decoders or at the
  model, or has its words or an error (`Waits`, `Answered`); each is in some batch (`BatchesCover`, by its
  rank among those of its bucket). What is taken off a section's words is exactly its padding, also at the start of the
  track, where there was none to give (`KeptIs`); and sections that tile have cores that lie apart
  (`SectionsApart`, from `PlanInv`). Hence `LyricsAreOwn`.

Every invariant and every action property the runs check is stated by a theorem, with two kinds of
exception, which TLC alone checks: liveness under fairness (`EveryRunEnds`, `EveryRunSucceeds`,
`EveryRunnerEnds`, `RerunsConverge`, `EveryRunReturns`, `RunsReturn`, `LyricsSettle`, `BatchesReturn`) is
beyond the proof system, and so is `SomebodyMoves`, a statement about `ENABLED`.

## 7. What the code does not guarantee

Found while modelling. Each is in a module as the code has it; the properties above are stated, or the
instances chosen, so that they do not claim it.

* `scripts/stream_pipeline.py:739`: the idle loop takes an entry off the bounded inventory queue and
  puts it back with a blocking `put`, being the queue's only consumer. If the producer fills the place
  in between, both wait for ever. It takes more records than places. With `MaxInflight = 2` TLC finds
  `EveryRunEnds` violated in `stream_faults`; its instance has 3, so that inventory and end marker fit.
* `:551`, `:664`: a crash between the annotation file and its commit, then a rewrite that fails, leaves
  an audio annotated and in retry, which every later validation rejects. With `WriteMayFail = TRUE` TLC
  finds `OutputValid` violated; `stream_faults` has `FALSE`, and `OutputIsValid` assumes it. What
  `NobodyIsLeftPending` says holds without it.
* `:493`, `:521`, `:646`: one audio with a Discogs answer that names no route, or with an empty
  structure, raises out of the scan and ends the run of all, again on each restart. `EveryRunEnds` holds
  (the run does end), `EveryRunSucceeds` is checked with replies that are usable.
* `:643`, `:781`: an audio reported as retryable is not tried again when the job is run again.
* `scripts/service_api.py:259`: before Python 3.12 a cancellation that `wait_for` swallows leaves the
  worker alive, and `stop` waits for it for ever. `service_calls` has it (`StopUnnoticed`), and its
  callers end all the same, by their own timeouts.
* `MusicToolsPipeline/task_tracker.py:126`: an append after a kill that tore the last line is glued to it, and
  its first line is lost to readers. A run that found such a file may refuse to publish, or keep an older
  status until the next run (`torn` in `CompletedHasResult` and `NothingLost`).
* `MusicToolsPipeline/task_tracker.py:257`, `:272`: a driver killed between the two writes of a
  migration leaves a manifest that contradicts the progress file, and every later run refuses the
  directory, also one that may reset it.
* `scripts/service_batch_infer.py:48-58`: a kill between the renames of two partition files can leave an
  audio in two of them, and every later `--resume` raises on it (`"unreadable"` of `BatchRunner`), where
  `docs/DEPLOYMENT_ZH.md:124` has the same command run again. `RerunsConverge` makes no claim from there.
* `scripts/service_api.py:393-401`: an error is kept as the answer to its request like any other answer, and
  returned (`:307-315`) to the same request of every later run, whose id does not change
  (`scripts/service_batch_infer.py:151`, `:269-271`). So a rerun does not mend such an audio before the
  service restarts or evicts the answer, although the failure record says `retryable: true`
  (`scripts/service_batch_infer.py:127`) and `docs/DEPLOYMENT_ZH.md:124` has the directory run again.
  `RerunsConverge` makes an exception of what is `remembered`; without it TLC finds run after run that
  leaves one audio in retry with the old error. Likewise the section ASR service (`RunAgain`), for which
  `LyricsSettle` does not claim that a record ends without errors.
* `scripts/model_service_manager.py:505-521`: a manager killed between starting a process and writing
  its state file, or two managers at once, leave a process no file names (`killed` and `overlap` in
  `NoOrphan`).
* `SongFormer/infer_jsonl.py:183-184`: prediction and marker are two renames. A worker killed between them, where an
  older marker of the same type is there, leaves the new prediction under the old marker, which the
  next run takes for whole (`torn` in `OutputIsTrue`).

## 8. Not modelled, and why

* Tensor arithmetic, audio decoding, prompts, vendored models (`PANNs/`, `SongFormer/models/`,
  `MusicToolsPipeline/sub_models/`, about a third of the code): no control to check.
* The windows inside one SongFormer inference and how their overlap is averaged
  (`scripts/serve_songformer.py:290-303`): arithmetic on arrays.
* Formats: JSON layout, file names, error texts, progress bars, metrics, fingerprints of models.
* `scripts/pipeline_job_control.sh`: process groups and traps of bash. What it leaves behind when it
  fails is in `BatchRunner` (`orphans`).
* `scripts/metadata_merge.py` and which field `dual_metadata_merge.py` takes from which file: a function
  of one record, without state.
* Two streaming runners on one job directory. The tables are checked for any order of calls; the runner
  is modelled as their only client, as the documentation has it used.
* The content of one annotation. What is modelled is which results it was built from.
* Ray itself, SQLite, asyncio, multiprocessing and the file system are what the code assumes of them:
  atomic statements, atomic renames, a single-threaded loop. A published file may vanish (`Vanish`).

## 9. What is left

* `TrackLifecycle` as the abstract specification of `BatchRunner` too: both runners promise the same four
  partitions.
* The streaming runner's own `iter_inventory` under edits, composed with `Inventory`.
* Job control, if its guarantees are ever relied on beyond the end of the script.
