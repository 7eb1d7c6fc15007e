------------------------------- MODULE RayStage -------------------------------
(***************************************************************************)
(* A resumable Ray inference stage, MusicToolsPipeline/ray_inference.py and   *)
(* workers/*.py: the driver binds the output directory to its input, starts   *)
(* loaders, models and a saver around two bounded queues, supervises them,    *)
(* and publishes.  Any process may be killed between two steps; the files of  *)
(* TaskTracker are what is left.                                            *)
(*                                                                         *)
(* A step is what a process does between two effects the others, or a restart, *)
(* can see: one file written, one element put on or taken off a queue.        *)
(***************************************************************************)
EXTENDS TaskTracker, FiniteSetsExt

CONSTANTS Inputs,      \* manifests a run may be given: sequences of task keys
          NumLoaders,  \* num_dataloader_workers
          Models,      \* the model workers
          SaveWorker,  \* the saver
          BatchSize,   \* batch_size
          InputSize,   \* maxsize of input_queue
          ResultSize,  \* maxsize of result_queue
          BufferSize,  \* buffer_size of the saver
          LegacyDone,  \* tasks that a directory of an older version may have done
          MaxRuns      \* bound: runs of the driver

RayAssumption ==
    /\ \A input \in Inputs : /\ input \in Seq(Keys) /\ input # <<>>
                             /\ \A i, j \in DOMAIN input : input[i] = input[j] => i = j
    /\ {NumLoaders, BatchSize, InputSize, ResultSize, BufferSize} \subseteq Nat \ {0}
    /\ IsFiniteSet(Models) /\ Models # {} /\ MaxRuns \in Nat
    /\ None \notin Models \cup [run : Run, map : Inputs]
    /\ SaveWorker \notin Models /\ (Models \cup {SaveWorker}) \cap Nat = {}
ASSUME RayAssumption

VARIABLES progress,  \* progress.jsonl
          manifest,  \* progress.jsonl.manifest.jsonl: the run and its task_map, or None
          results,   \* results.jsonl
          driver,    \* where run_inference is
          task,      \* what this run was given: its input, whether it has to announce itself, and
                     \* (history) whether it found progress.jsonl torn
          loading,   \* for each loader, the task ids it has still to hand over
          inputs,    \* input_queue
          model,     \* for each model: "idle", "busy" with a batch, "ending" or "done"
          outputs,   \* result_queue: results of a batch, or a model that has ended
          saver,     \* step, workers done, its task_map and its buffer
          sentinels, \* end markers the supervisor has still to send
          observed,  \* references whose result the supervisor has got
          dead,      \* actors that died
          runs       \* runs so far

files == <<progress, manifest, results>>
graph == <<loading, inputs, model, outputs, saver, sentinels, observed, dead>>
vars == <<files, driver, task, graph, runs>>

Image(f) == {f[x] : x \in DOMAIN f}
\* The numbers of a set, in order.
InOrder(S) == CHOOSE s \in [1..Cardinality(S) -> S] : \A i, j \in DOMAIN s : i < j => s[i] < s[j]
End == <<>>
Idle == [step |-> "idle", batch |-> <<>>]
RunOf(input) == [tasks |-> Image(input), schema |-> "semantic"]
NoResults == [k \in Keys |-> None]
NoTask == [input |-> <<>>, announce |-> FALSE, torn |-> FALSE]

NoSaver == [step |-> "done", ended |-> {}, map |-> <<>>, buffer |-> <<>>]
NoGraph == /\ loading = <<>> /\ inputs = <<>> /\ model = <<>> /\ outputs = <<>>
           /\ saver = NoSaver /\ sentinels = 0 /\ observed = {} /\ dead = {}
GraphGone == /\ loading' = <<>> /\ inputs' = <<>> /\ model' = <<>> /\ outputs' = <<>>
             /\ saver' = NoSaver /\ sentinels' = 0 /\ observed' = {} /\ dead' = {}

\* A directory is new, or an older version left it, with fingerprints of whole records.
Fresh == progress = NoProgress /\ manifest = None /\ results = NoResults
Legacy == \E input \in Inputs, done \in LegacyDone :
    LET run == [tasks |-> Image(input), schema |-> "record"] IN
    /\ done \subseteq run.tasks
    /\ LET status == [k \in Keys |-> IF k \in done THEN "ok" ELSE "none"]
       IN progress = [run |-> run, status |-> status, torn |-> FALSE, sure |-> status]
    /\ manifest = [run |-> run, map |-> input]
    /\ results = [k \in Keys |-> IF k \in done THEN [about |-> k, status |-> "ok"] ELSE None]

Init == /\ Fresh \/ Legacy
        /\ driver = "down" /\ task = NoTask /\ NoGraph /\ runs = 0

-----------------------------------------------------------------------------
(* _configure_resume_state: bind the directory to the input. *)

GiveUp == driver' = "down" /\ task' = NoTask

\* The same tasks, recorded with a fingerprint of whole records.
Migrates(input) ==
    /\ progress.run # None /\ progress.run # RunOf(input) /\ progress.run.schema = "record"
    /\ manifest # None /\ Image(manifest.map) = Image(input)

\* Results without a progress file, or progress of other inputs.
Incompatible(input) ==
    \/ progress.run = None /\ results # NoResults
    \/ progress.run # None /\ progress.run # RunOf(input) /\ ~Migrates(input)

\* mayReset: reset_incompatible_output; changed: the stage has another fingerprint now.
Start(input, mayReset, changed) ==
    /\ driver = "down" /\ runs < MaxRuns
    /\ runs' = runs + 1
    /\ IF ManifestRefused(progress, manifest) \/ (Incompatible(input) /\ ~mayReset)
       THEN GiveUp
       ELSE /\ driver' = IF Incompatible(input) THEN "reset"
                         ELSE IF Migrates(input) THEN "migrate" ELSE "configure"
            /\ task' = [input |-> input,
                        announce |-> changed \/ progress.run = None \/ Incompatible(input),
                        torn |-> progress.torn]
    /\ UNCHANGED <<files, graph>>

\* (Faulty variant of Unlink: the results go first.)
UnlinkResultsFirst ==
    /\ driver = "reset"
    /\ IF results # NoResults
       THEN results' = NoResults /\ UNCHANGED <<progress, manifest, driver>>
       ELSE IF progress # NoProgress
       THEN progress' = NoProgress /\ UNCHANGED <<manifest, results, driver>>
       ELSE manifest' = None /\ driver' = "configure" /\ UNCHANGED <<progress, results>>
    /\ UNCHANGED <<task, graph, runs>>
\* reset_incompatible_stage_state unlinks one file after the other.
Unlink ==
    /\ driver = "reset"
    /\ IF progress # NoProgress
       THEN progress' = NoProgress /\ UNCHANGED <<manifest, results, driver>>
       ELSE IF manifest # None
       THEN manifest' = None /\ UNCHANGED <<progress, results, driver>>
       ELSE results' = NoResults /\ driver' = "configure" /\ UNCHANGED <<progress, manifest>>
    /\ UNCHANGED <<task, graph, runs>>

\* migrate_semantic_input_fingerprint announces the run, and then writes the manifest.
Migrate == /\ driver = "migrate"
           /\ progress' = Announced(progress, RunOf(task.input))
           /\ driver' = "migrated"
           /\ UNCHANGED <<manifest, results, task, graph, runs>>

\* configure_run announces the run when it is new or the stage changed.
Configure == /\ driver = "configure"
             /\ progress' = IF task.announce THEN Announced(progress, RunOf(task.input)) ELSE progress
             /\ driver' = "configured"
             /\ UNCHANGED <<manifest, results, task, graph, runs>>

\* (Faulty variant of WriteManifest: a manifest of the same tasks is left as it is.)
KeepManifest == /\ driver \in {"migrated", "configured"}
                /\ manifest' = IF manifest # None /\ Image(manifest.map) = Image(task.input)
                               THEN [manifest EXCEPT !.run = RunOf(task.input)]
                               ELSE [run |-> RunOf(task.input), map |-> task.input]
                /\ driver' = IF driver = "migrated" THEN "configure" ELSE "demote"
                /\ UNCHANGED <<progress, results, task, graph, runs>>
WriteManifest == /\ driver \in {"migrated", "configured"}
                 /\ manifest' = [run |-> RunOf(task.input), map |-> task.input]
                 /\ driver' = IF driver = "migrated" THEN "configure" ELSE "demote"
                 /\ UNCHANGED <<progress, results, task, graph, runs>>

Sound(k) == results[k] # None /\ results[k].status = "ok"

\* Completed tasks whose result is missing or incomplete, as errors, in task order.
Demotions ==
    LET missing == {i \in DOMAIN task.input : /\ task.input[i] \in Completed(progress)
                                              /\ ~Sound(task.input[i])}
        kept == InOrder(missing)
    IN [j \in DOMAIN kept |-> [key |-> task.input[kept[j]], status |-> "error"]]

\* Without tasks to do the stage is complete, and no actor is created.
Demote == /\ driver = "demote"
          /\ progress' = Appended(progress, Demotions)
          /\ IF \A k \in Image(task.input) : k \in Completed(progress) /\ Sound(k)
             THEN GiveUp ELSE driver' = "ready" /\ UNCHANGED task
          /\ UNCHANGED <<manifest, results, graph, runs>>

-----------------------------------------------------------------------------
(* The worker graph. *)

Loaders == 1..Min({NumLoaders, Len(task.input)})
Refs == Loaders \cup Models \cup {SaveWorker}

\* _create_loader_workers: as even as can be, the first ones one longer.
Shard(l) ==
    LET base == Len(task.input) \div Cardinality(Loaders)
        rest == Len(task.input) % Cardinality(Loaders)
        offset == (l - 1) * base + Min({l - 1, rest})
    IN (offset + 1)..(offset + base + IF l <= rest THEN 1 ELSE 0)

\* Every actor constructs a TaskTracker of its own: the loaders to skip what is completed,
\* the saver for the task_map.
StartGraph ==
    /\ driver = "ready"
    /\ IF ManifestRefused(progress, manifest)
       THEN GiveUp /\ UNCHANGED graph
       ELSE /\ loading' = [l \in Loaders |->
                             InOrder({i \in Shard(l) : manifest.map[i] \notin Completed(progress)})]
            /\ model' = [m \in Models |-> Idle]
            /\ saver' = [step |-> "get", ended |-> {}, map |-> manifest.map, buffer |-> <<>>]
            /\ sentinels' = Cardinality(Models)
            /\ inputs' = <<>> /\ outputs' = <<>> /\ observed' = {} /\ dead' = {}
            /\ driver' = "graph" /\ UNCHANGED task
    /\ UNCHANGED <<files, runs>>

InGraph == driver \in {"graph", "failing"}

\* DataLoaderWorker.run: a batch of ids; each stands for the record the input has there.
LoadBatch(l) ==
    /\ InGraph /\ l \in Loaders \ dead /\ loading[l] # <<>>
    /\ Len(inputs) < InputSize
    /\ LET n == Min({BatchSize, Len(loading[l])})
       IN /\ inputs' = Append(inputs, SubSeq(loading[l], 1, n))
          /\ loading' = [loading EXCEPT ![l] = SubSeq(@, n + 1, Len(@))]
    /\ UNCHANGED <<files, driver, task, model, outputs, saver, sentinels, observed, dead, runs>>

\* ModelWorker.run.
TakeBatch(m) ==
    /\ InGraph /\ m \notin dead /\ model[m].step = "idle" /\ inputs # <<>>
    /\ model' = [model EXCEPT ![m] = [step |-> IF Head(inputs) = End THEN "ending" ELSE "busy",
                                      batch |-> Head(inputs)]]
    /\ inputs' = Tail(inputs)
    /\ UNCHANGED <<files, driver, task, loading, outputs, saver, sentinels, observed, dead, runs>>

\* One result per id; an exception makes them all errors.
PutResults(m) ==
    /\ InGraph /\ m \notin dead /\ model[m].step = "busy" /\ Len(outputs) < ResultSize
    /\ LET batch == model[m].batch IN
       \E status \in [DOMAIN batch -> {"ok", "bare", "error"}] :
          outputs' = Append(outputs, [ended |-> None, results |-> [j \in DOMAIN batch |->
                        [id |-> batch[j], about |-> task.input[batch[j]], status |-> status[j]]]])
    /\ model' = [model EXCEPT ![m] = Idle]
    /\ UNCHANGED <<files, driver, task, loading, inputs, saver, sentinels, observed, dead, runs>>

PutEnded(m) ==
    /\ InGraph /\ m \notin dead /\ model[m].step = "ending" /\ Len(outputs) < ResultSize
    /\ outputs' = Append(outputs, [ended |-> m, results |-> <<>>])
    /\ model' = [model EXCEPT ![m].step = "done"]
    /\ UNCHANGED <<files, driver, task, loading, inputs, saver, sentinels, observed, dead, runs>>

-----------------------------------------------------------------------------
(* SaveWorker.run. *)

Saving == InGraph /\ SaveWorker \notin dead

\* The buffer is flushed when it is full, when progress_interval is over, and in the end.
\* (Faulty variant of GetResult: nothing is flushed when the last model has ended.)
GetResultNoFlush ==
    /\ Saving /\ saver.step = "get" /\ outputs # <<>>
    /\ outputs' = Tail(outputs)
    /\ IF Head(outputs).ended # None
       THEN LET ended == saver.ended \cup {Head(outputs).ended}
            IN saver' = [saver EXCEPT !.ended = ended, !.step = IF ended # Models THEN "get" ELSE "done"]
       ELSE LET buffer == saver.buffer \o Head(outputs).results
            IN \E step \in {"merge"} \cup IF Len(buffer) < BufferSize THEN {"get"} ELSE {} :
                  saver' = [saver EXCEPT !.buffer = buffer, !.step = step]
    /\ UNCHANGED <<files, driver, task, loading, inputs, model, sentinels, observed, dead, runs>>
GetResult ==
    /\ Saving /\ saver.step = "get" /\ outputs # <<>>
    /\ outputs' = Tail(outputs)
    /\ IF Head(outputs).ended # None
       THEN LET ended == saver.ended \cup {Head(outputs).ended}
            IN saver' = [saver EXCEPT !.ended = ended,
                             !.step = IF ended # Models THEN "get"
                                      ELSE IF saver.buffer = <<>> THEN "done" ELSE "merge"]
       ELSE LET buffer == saver.buffer \o Head(outputs).results
            IN \E step \in {"merge"} \cup IF Len(buffer) < BufferSize THEN {"get"} ELSE {} :
                  saver' = [saver EXCEPT !.buffer = buffer, !.step = step]
    /\ UNCHANGED <<files, driver, task, loading, inputs, model, sentinels, observed, dead, runs>>

\* _flush_buffer: the results first, then the tracker.
MergeResults ==
    /\ Saving /\ saver.step = "merge"
    /\ results' = Merged(results,
           [k \in {saver.map[r.id] : r \in Image(saver.buffer)} |->
               LET r == CHOOSE r \in Image(saver.buffer) : saver.map[r.id] = k
               IN [about |-> r.about, status |-> r.status]])
    /\ saver' = [saver EXCEPT !.step = "mark"]
    /\ UNCHANGED <<progress, manifest, driver, task, loading, inputs, model, outputs, sentinels,
                   observed, dead, runs>>

Marks == [j \in DOMAIN saver.buffer |->
             [key |-> saver.map[saver.buffer[j].id],
              status |-> IF saver.buffer[j].status = "error" THEN "error" ELSE "ok"]]

MarkFinished ==
    /\ Saving /\ saver.step = "mark"
    /\ progress' = Appended(progress, Marks)
    /\ saver' = [saver EXCEPT !.buffer = <<>>,
                              !.step = IF saver.ended = Models THEN "done" ELSE "get"]
    /\ UNCHANGED <<manifest, results, driver, task, loading, inputs, model, outputs, sentinels,
                   observed, dead, runs>>

-----------------------------------------------------------------------------
(* _supervise_worker_refs, and what comes after it. *)

Finished(ref) == IF ref = SaveWorker THEN saver.step = "done"
                 ELSE IF ref \in Models THEN model[ref].step = "done" ELSE loading[ref] = <<>>

SendEndOnce ==
    /\ driver = "graph" /\ Loaders \subseteq observed /\ sentinels > 0
    /\ Len(inputs) < InputSize
    /\ inputs' = Append(inputs, End) /\ sentinels' = 0
    /\ UNCHANGED <<files, driver, task, loading, model, outputs, saver, observed, dead, runs>>
SendEnd == /\ driver = "graph" /\ Loaders \subseteq observed /\ sentinels > 0
           /\ Len(inputs) < InputSize
           /\ inputs' = Append(inputs, End) /\ sentinels' = sentinels - 1
           /\ UNCHANGED <<files, driver, task, loading, model, outputs, saver, observed, dead, runs>>

\* A model that ends before the loaders is an error of the graph.
OutOfOrder(ref) == ref \in Models /\ ~(Loaders \subseteq observed)

Observe(ref) == /\ driver = "graph" /\ ref \notin observed /\ ref \notin dead /\ Finished(ref)
                /\ IF OutOfOrder(ref) THEN driver' = "failing" /\ UNCHANGED observed
                   ELSE observed' = observed \cup {ref} /\ UNCHANGED driver
                /\ UNCHANGED <<files, task, loading, inputs, model, outputs, saver, sentinels, dead, runs>>

ObserveDeath == /\ driver = "graph" /\ dead \ observed # {}
                /\ driver' = "failing"
                /\ UNCHANGED <<files, task, graph, runs>>

\* The actors live until the driver has exited, for what it cancels is a running method.
Exit == /\ driver = "failing"
        /\ progress' \in IF Saving /\ saver.step = "mark" THEN CutShort(progress, Marks) ELSE {progress}
        /\ GiveUp /\ GraphGone
        /\ UNCHANGED <<manifest, results, runs>>

\* What publication validates, of the files as they are now.
Covered ==
    /\ {k \in Keys : results[k] # None} = Image(task.input)
    /\ manifest = [run |-> progress.run, map |-> task.input]
    /\ \A k \in Image(task.input) :
          /\ progress.status[k] = IF results[k].status = "error" THEN "error" ELSE "ok"
          /\ results[k].status # "bare"

\* It publishes or raises; no file that a later run reads depends on it.
Publish == /\ driver = "graph" /\ observed = Refs
           /\ driver' = IF sentinels > 0 THEN "failing" ELSE IF Covered THEN "published" ELSE "refused"
           /\ UNCHANGED <<files, task, graph, runs>>

Leave == /\ driver \in {"published", "refused"}
         /\ GiveUp /\ GraphGone
         /\ UNCHANGED <<files, runs>>

-----------------------------------------------------------------------------
\* One actor is killed; the rest of the graph goes on.  Bound: one death in a run, for the
\* first one observed ends it.
Die(ref) == /\ driver = "graph" /\ dead = {} /\ ref \in Refs /\ ~Finished(ref)
            /\ dead' = dead \cup {ref}
            /\ progress' \in IF ref = SaveWorker /\ saver.step = "mark"
                             THEN CutShort(progress, Marks) ELSE {progress}
            /\ UNCHANGED <<manifest, results, driver, task, loading, inputs, model, outputs, saver,
                           sentinels, observed, runs>>

\* The driver is killed, and its actors with it.
Crash == /\ driver # "down"
         /\ progress' \in CASE driver = "demote" -> CutShort(progress, Demotions)
                            [] InGraph /\ SaveWorker \notin dead /\ saver.step = "mark" ->
                                  CutShort(progress, Marks)
                            [] OTHER -> {progress}
         /\ GiveUp /\ GraphGone
         /\ UNCHANGED <<manifest, results, runs>>

Resume == Unlink \/ Migrate \/ Configure \/ WriteManifest \/ Demote \/ StartGraph
Supervise == SendEnd \/ ObserveDeath \/ Exit \/ Publish \/ Leave
             \/ \E ref \in Refs : Observe(ref)
Model(m) == TakeBatch(m) \/ PutResults(m) \/ PutEnded(m)
Saver == GetResult \/ MergeResults \/ MarkFinished

Next == \/ \E input \in Inputs, mayReset, changed \in BOOLEAN : Start(input, mayReset, changed)
        \/ Resume \/ Supervise \/ Saver
        \/ \E l \in Loaders : LoadBatch(l)
        \/ \E m \in Models : Model(m)
        \/ \E ref \in Refs : Die(ref)
        \/ Crash

Spec == Init /\ [][Next]_vars

-----------------------------------------------------------------------------
(* Properties. *)

\* A result is about the track whose key it is stored under, however the input was
\* reordered since, and whoever computed the row number.
ResultsBelong == \A k \in Keys : results[k] # None => results[k].about = k

\* The tracker never says that a task is done whose result is not there: results are
\* replaced before tasks are marked, and progress is the first file a reset removes.  Nor
\* that a task is done that has failed, in a run that did not find the file torn: what a line
\* glued to a torn tail said is lost, and an older line of its task counts again until the
\* next run compares the two files.
CompletedHasResult ==
    /\ \A k \in Completed(progress) : results[k] # None
    /\ driver \in {"graph", "failing", "published", "refused"} /\ ~task.torn =>
           \A k \in Completed(progress) : results[k].status # "error"

\* A graph whose actors all ended has stored a result of every task, and the tracker agrees
\* with every one of them, unless the run found the tail of the file torn: then the line that
\* was glued to it is lost.
NothingLost ==
    driver \in {"published", "refused"} =>
        /\ {k \in Keys : results[k] # None} = Image(task.input)
        /\ manifest = [run |-> progress.run, map |-> task.input]
        /\ ~task.torn => \A k \in Image(task.input) :
               progress.status[k] = IF results[k].status = "error" THEN "error" ELSE "ok"

\* Nobody waits for ever: until the run has ended some process can go on by itself.  A run
\* has no loops, every step uses something up, so it ends.
SomebodyMoves ==
    driver # "down" => ENABLED (Resume \/ Supervise \/ Saver \/ (\E l \in Loaders : LoadBatch(l))
                                   \/ \E m \in Models : Model(m))

=============================================================================
