------------------------------ MODULE BatchRunner ------------------------------
(***************************************************************************)
(* The batch runner, run_pipeline.sh: a shell script that runs one program   *)
(* after the other over the whole inventory (service_batch_infer,            *)
(* combine_jsonl, pipeline_state, structure_postprocess, metadata_merge,      *)
(* dual_metadata_merge, validate_pipeline_output) and passes files between    *)
(* them, three of them in parallel; and the reruns of a directory whose last  *)
(* run failed, died, or left audios to retry.                                *)
(*                                                                         *)
(* A file is written atomically (write_jsonl renames), so a program is one    *)
(* step, except where it writes several files or runs beside others.  What    *)
(* the services say of an audio is fixed (Decision, Kind, Unsplittable),      *)
(* but a request may fail.  The services outlive the runs: one that answered  *)
(* with an error gives the same answer to the same request of a later run,    *)
(* until it is restarted or has evicted it.                                  *)
(***************************************************************************)
EXTENDS AnnotationPublish, Naturals, Sequences, FiniteSets, Functions

CONSTANTS Audios,        \* the inventory
          Decision,      \* what Fast Gate says of each: "accepted", "review" or "rejected"
          Kind,          \* what Discogs says of each: "song", "instrumental" or "review"
          Unsplittable,  \* audios on whose structure postprocess_sections raises
          Clashes,       \* pairs of audios whose annotation paths exclude each other
          RunAlm,        \* RUN_ALM
          MaxFaults      \* failed requests, unreachable services, failed publications and
                         \* deaths of the host (bound)

GateFiles == <<"accepted", "review", "rejected", "failures">>
DiscogsFiles == <<"song", "instrumental", "review", "failures">>
Whole == {"music_cpu", "structure_raw"} \cup IF RunAlm THEN {"alm"} ELSE {}
Late == {"music_cpu", "structure_raw", "alm", "section_asr"}
RetryFiles == {"global", "sections", "final", "path"}
\* STAGE_ORDER, without the inventory.
StageOrder == <<"music_gate", "discogs_mir", "music_cpu", "structure_raw", "alm",
                "structure_postprocess", "section_asr", "annotation_path">>

BatchAssumption ==
    /\ Trees = SUBSET Audios
    /\ Decision \in [Audios -> {"accepted", "review", "rejected"}]
    /\ Kind \in [Audios -> {"song", "instrumental", "review"}]
    /\ Unsplittable \subseteq Audios /\ Clashes \subseteq SUBSET Audios
    /\ RunAlm \in BOOLEAN /\ MaxFaults \in Nat
ASSUME BatchAssumption

VARIABLES pc,        \* the program the script is at
          gate,      \* fast-gate/*.jsonl: the audios of each file
          discogs,   \* discogs/*.jsonl
          pending,   \* files a partitioning program has still to write, and what
          results,   \* the result of each audio in the output of each later stage
          sections,  \* the same for data.sections.jsonl
          jobs,      \* the parallel programs
          orphans,   \* parallel programs that outlived their script
          manifest,  \* accepted, and what is still active after each level
          retryAt,   \* retry.<level>.jsonl: audios with the stage that failed
          final,     \* final/: review, rejected, retry
          remembered, \* errors the services answered and keep, by request
          disturbed, \* has an orphan written since the last run started? (history)
          faults

files == <<gate, discogs, results, sections, manifest, retryAt, final>>
batchVars == <<publishVars, pc, files, pending, jobs, orphans, remembered, disturbed, faults>>

Outcome == {"none", "ok", "error"}
Nothing == [a \in Audios |-> "none"]
Names(order) == {order[k] : k \in DOMAIN order}
Empty(names) == [n \in names |-> {}]
Failure == [audio : Audios, stage : Names(StageOrder)]
NoJob == [step |-> "idle", sources |-> {}, have |-> Nothing]
NoWrites == [left |-> <<>>, values |-> <<>>]

Ended == {"stopped", "done", "failed", "refused", "unreadable"}

BatchInit ==
    /\ PublishInit
    /\ pc = "stopped"
    /\ gate = Empty(Names(GateFiles)) /\ discogs = Empty(Names(DiscogsFiles))
    /\ results = [s \in Late |-> Nothing] /\ sections = Nothing
    /\ manifest = Empty({"accepted", "global", "sections", "final", "publish"})
    /\ retryAt = Empty(RetryFiles) /\ final = Empty({"review", "rejected", "retry"})
    /\ pending = NoWrites /\ jobs = [s \in Whole |-> NoJob] /\ orphans = {}
    /\ remembered = {} /\ disturbed = FALSE /\ faults = 0

-----------------------------------------------------------------------------
(* service_batch_infer. *)

\* _load_unique: no audio may be in two files of a partition.
Readable(partition) == \A m, n \in DOMAIN partition : m # n => partition[m] \cap partition[n] = {}

\* _reusable: what was answered is not asked again, what failed is.
Kept(partition, sources) ==
    sources \cap UNION {partition[n] : n \in DOMAIN partition \ {"failures"}}

\* Of the requests of a stage, those whose error is remembered fail again.  Of the others
\* some do: a service may answer with an error, which it then remembers, or the client gets
\* no answer.
Ask(stage, asked, failed) ==
    LET again == {a \in asked : [audio |-> a, stage |-> stage] \in remembered}
        new == failed \ again
    IN /\ again \subseteq failed /\ Cardinality(new) <= MaxFaults - faults
       /\ \E answered \in SUBSET new :
             remembered' = remembered \cup {[audio |-> a, stage |-> stage] : a \in answered}
       /\ faults' = faults + Cardinality(new)

\* _partition: the file of each source, by the answer, the failures by themselves.
Partitioned(names, answer, sources, failed) ==
    [n \in Names(names) |-> IF n = "failures" THEN failed
                            ELSE {a \in sources \ failed : answer[a] = n}]

\* One run of a partitioning program, up to its first write.  It does not run when its
\* files cannot be read, or when the service is not there.
Infer(here, writing, stage, partition, names, answer, sources) ==
    /\ pc = here
    /\ IF ~Readable(partition)
       THEN pc' = "unreadable" /\ UNCHANGED <<pending, remembered, faults>>
       ELSE \/ \E failed \in SUBSET (sources \ Kept(partition, sources)) :
                  /\ Ask(stage, sources \ Kept(partition, sources), failed)
                  /\ pending' = [left |-> names,
                                 values |-> Partitioned(names, answer, sources, failed)]
                  /\ pc' = writing
            \/ /\ faults < MaxFaults
               /\ pc' = "failed" /\ faults' = faults + 1 /\ UNCHANGED <<pending, remembered>>
    /\ UNCHANGED <<publishVars, files, jobs, orphans, disturbed>>

\* _write_outputs: one file after the other.
Written(partition) == [partition EXCEPT ![Head(pending.left)] =
                                            pending.values[Head(pending.left)]]
WriteOne(here, next) ==
    /\ pc = here
    /\ IF Len(pending.left) > 1
       THEN pending' = [pending EXCEPT !.left = Tail(pending.left)] /\ UNCHANGED pc
       ELSE pending' = NoWrites /\ pc' = next
    /\ UNCHANGED <<publishVars, results, sections, manifest, retryAt, final, jobs, orphans,
                   remembered, disturbed, faults>>

\* (Faulty variant of Reused: an error in the file is taken for an answer.)
ReusedErrors(file) == file
\* _reusable for an output without partitions: of an earlier output, what is ok.
Reused(file) == [a \in Audios |-> IF file[a] = "ok" THEN "ok" ELSE "none"]

\* The result of every source: what was reused, or what the service answered.
Output(job, failed) ==
    [a \in Audios |-> IF a \notin job.sources THEN "none"
                      ELSE IF job.have[a] # "none" THEN job.have[a]
                      ELSE IF a \in failed THEN "error" ELSE "ok"]
Asked(job) == {a \in job.sources : job.have[a] = "none"}

-----------------------------------------------------------------------------
(* The script. *)

\* The retry files are emptied, whatever the last run left.
Start ==
    /\ pc \in Ended
    /\ pc' = "gate" /\ retryAt' = Empty(RetryFiles)
    /\ pending' = NoWrites /\ disturbed' = FALSE
    /\ UNCHANGED <<publishVars, gate, discogs, results, sections, manifest, final, jobs, orphans,
                   remembered, faults>>

Gate == Infer("gate", "gate_write", "music_gate", gate, GateFiles, Decision, Audios)
GateWrite == /\ WriteOne("gate_write", "discogs")
             /\ gate' = Written(gate) /\ UNCHANGED discogs
Discogs == Infer("discogs", "discogs_write", "discogs_mir", discogs, DiscogsFiles, Kind,
                 gate["accepted"])
DiscogsWrite == /\ WriteOne("discogs_write", "route")
                /\ discogs' = Written(discogs) /\ UNCHANGED gate

\* The copies and combinations of the partitions.  With nothing accepted, the manifests
\* are emptied and an empty tree is published.
Route ==
    /\ pc = "route"
    /\ LET accepted == discogs["song"] \cup discogs["instrumental"]
       IN IF accepted # {}
          THEN /\ manifest' = [manifest EXCEPT !["accepted"] = accepted]
               /\ jobs' = [s \in Whole |->
                              [step |-> "runs", sources |-> accepted, have |-> Reused(results[s])]]
               /\ pc' = "whole_track"
          ELSE /\ manifest' = Empty(DOMAIN manifest)
               /\ pc' = "publish" /\ UNCHANGED jobs
    /\ UNCHANGED <<publishVars, gate, discogs, results, sections, retryAt, final, pending,
                   orphans, remembered, disturbed, faults>>

Runs(job) == job.step = "runs"
Becomes(s, step) == jobs' = [jobs EXCEPT ![s] = [NoJob EXCEPT !.step = step]]

\* What a program that runs beside the script writes, its own or an orphan's.
JobWrites(stage, job) ==
    \E failed \in SUBSET Asked(job) :
       /\ Ask(stage, Asked(job), failed)
       /\ results' = [results EXCEPT ![stage] = Output(job, failed)]

JobEnds(s) ==
    /\ pc = "whole_track" /\ Runs(jobs[s])
    /\ JobWrites(s, jobs[s])
    /\ Becomes(s, "done")
    /\ UNCHANGED <<publishVars, pc, gate, discogs, sections, manifest, retryAt, final, pending,
                   orphans, disturbed>>

\* The service is not there: the program exits before it has written anything.
JobFails(s) ==
    /\ pc = "whole_track" /\ Runs(jobs[s]) /\ faults < MaxFaults
    /\ Becomes(s, "failed") /\ faults' = faults + 1
    /\ UNCHANGED <<publishVars, pc, files, pending, orphans, remembered, disturbed>>

WaitOrder == <<"music_cpu", "structure_raw">> \o IF RunAlm THEN <<"alm">> ELSE <<>>

\* The script waits for its programs in this order, and exits at the first that failed:
\* those that still run go on without it.
Waited(k) == \A j \in 1..(k - 1) : jobs[WaitOrder[j]].step = "done"
WaitFails ==
    /\ pc = "whole_track"
    /\ \E k \in DOMAIN WaitOrder : Waited(k) /\ jobs[WaitOrder[k]].step = "failed"
    /\ pc' = "failed"
    /\ orphans' = orphans \cup
                     {[stage |-> s, job |-> jobs[s]] : s \in {t \in Whole : Runs(jobs[t])}}
    /\ jobs' = [s \in Whole |-> NoJob]
    /\ UNCHANGED <<publishVars, files, pending, remembered, disturbed, faults>>

OrphanEnds ==
    \E o \in orphans :
       /\ JobWrites(o.stage, o.job)
       /\ orphans' = orphans \ {o} /\ disturbed' = TRUE
       /\ UNCHANGED <<publishVars, pc, gate, discogs, sections, manifest, retryAt, final, pending,
                      jobs>>

\* command_active: the first stage, in the order of the arguments, that failed.
FirstFailing(order, failed) ==
    LET ks == {k \in DOMAIN order : order[k] \in failed}
    IN order[CHOOSE k \in ks : \A j \in ks : k <= j]

\* command_active over the given stages: it refuses an output that does not cover exactly
\* its base, and splits the base into what is still active and what goes to retry.
Active(here, base, stages, outputs, level, next) ==
    /\ pc = here
    /\ LET Covers(s) == {a \in Audios : outputs[s][a] # "none"} = base
           Failed(a) == {s \in Range(stages) : outputs[s][a] # "ok"}
       IN IF \E s \in Range(stages) : ~Covers(s)
          THEN pc' = "refused" /\ UNCHANGED <<manifest, retryAt>>
          ELSE /\ manifest' = [manifest EXCEPT ![level] = {a \in base : Failed(a) = {}}]
               /\ retryAt' = [retryAt EXCEPT ![level] =
                     {[audio |-> a, stage |-> FirstFailing(stages, Failed(a))] :
                        a \in {b \in base : Failed(b) # {}}}]
               /\ pc' = next

ActiveGlobal ==
    /\ \A s \in Whole : jobs[s].step = "done" \/ pc # "whole_track"
    /\ Active("whole_track", manifest["accepted"], WaitOrder, results, "global", "sections")
    /\ jobs' = [s \in Whole |-> NoJob]
    /\ UNCHANGED <<publishVars, gate, discogs, results, sections, final, pending, orphans,
                   remembered, disturbed, faults>>

\* command_filter refuses an input that lacks an active audio.
Lacks(s, active) == \E a \in active : results[s][a] = "none"

\* structure_postprocess over the filtered outputs; an audio it raises on is an error
\* record of its own.
Postprocess ==
    /\ pc = "sections"
    /\ IF \E s \in {"music_cpu", "structure_raw"} : Lacks(s, manifest["global"])
       THEN pc' = "refused" /\ UNCHANGED sections
       ELSE /\ sections' = [a \in Audios |->
                  IF a \notin manifest["global"] THEN "none"
                  ELSE IF a \in Unsplittable \/ results["structure_raw"][a] # "ok" THEN "error"
                  ELSE "ok"]
            /\ pc' = "active_sections"
    /\ UNCHANGED <<publishVars, gate, discogs, results, manifest, retryAt, final, pending, jobs,
                   orphans, remembered, disturbed, faults>>

ActiveSections ==
    /\ Active("active_sections", manifest["global"], <<"structure_postprocess">>,
              [structure_postprocess |-> sections], "sections", "section_asr")
    /\ UNCHANGED <<publishVars, gate, discogs, results, sections, final, pending, jobs, orphans,
                   remembered, disturbed, faults>>

\* _instrumental_asr: an instrumental is answered without the service, the others by what is kept.
InstrumentalAsr(kept) ==
    [a \in Audios |-> IF a \in discogs["instrumental"] THEN "ok" ELSE kept[a]]

\* The context of the active audios is merged and goes to section ASR.
SectionAsr ==
    /\ pc = "section_asr"
    /\ \/ /\ RunAlm /\ Lacks("alm", manifest["sections"])
          /\ pc' = "refused" /\ UNCHANGED <<results, remembered, faults>>
       \/ /\ ~(RunAlm /\ Lacks("alm", manifest["sections"]))
          /\ JobWrites("section_asr",
                       [sources |-> manifest["sections"],
                        have |-> InstrumentalAsr(Reused(results["section_asr"]))])
          /\ pc' = "active_final"
       \/ /\ faults < MaxFaults /\ faults' = faults + 1
          /\ pc' = "failed" /\ UNCHANGED <<results, remembered>>
    /\ UNCHANGED <<publishVars, gate, discogs, sections, manifest, retryAt, final, pending, jobs,
                   orphans, disturbed>>

ActiveFinal ==
    /\ Active("active_final", manifest["sections"], <<"section_asr">>, results, "final",
              "path_conflicts")
    /\ UNCHANGED <<publishVars, gate, discogs, results, sections, final, pending, jobs, orphans,
                   remembered, disturbed, faults>>

\* (Faulty variant of Conflicting: the first of two that clash is published.)
ConflictingSecond(active) == {CHOOSE a \in c : TRUE : c \in {d \in Clashes : d \subseteq active}}
\* _path_conflict_ids: both of two audios whose paths exclude each other.
Conflicting(active) == UNION {c \in Clashes : c \subseteq active}

PathConflicts ==
    /\ pc = "path_conflicts"
    /\ LET conflicts == Conflicting(manifest["final"])
       IN /\ manifest' = [manifest EXCEPT !["publish"] = manifest["final"] \ conflicts]
          /\ retryAt' = [retryAt EXCEPT !["path"] =
                            {[audio |-> a, stage |-> "annotation_path"] : a \in conflicts}]
    /\ pc' = "merge"
    /\ UNCHANGED <<publishVars, gate, discogs, results, sections, final, pending, jobs, orphans,
                   remembered, disturbed, faults>>

\* dual_metadata_merge checks the base against every output (the raw structure is the one
\* filtered for the postprocess) and raises at the first audio that is incomplete.
Complete(a) == /\ results["music_cpu"][a] = "ok" /\ sections[a] = "ok"
               /\ RunAlm => results["alm"][a] = "ok"
               /\ a \in discogs["song"] => results["section_asr"][a] = "ok"
Merge ==
    /\ pc = "merge"
    /\ pc' = IF \A a \in manifest["publish"] : Complete(a) THEN "publish" ELSE "refused"
    /\ UNCHANGED <<publishVars, files, pending, jobs, orphans, remembered, disturbed, faults>>

PublishBegins ==
    /\ pc = "publish" /\ BeginPublish(manifest["publish"])
    /\ pc' = "publishing"
    /\ UNCHANGED <<files, pending, jobs, orphans, remembered, disturbed, faults>>

PublishGoesOn ==
    /\ pc = "publishing" /\ PublishStep
    /\ pc' = IF publishing' = "idle" THEN "finish" ELSE pc
    /\ UNCHANGED <<files, pending, jobs, orphans, remembered, disturbed, faults>>

PublishRaises ==
    /\ pc = "publishing" /\ faults < MaxFaults /\ PublishFails
    /\ pc' = "failed" /\ faults' = faults + 1
    /\ UNCHANGED <<files, pending, jobs, orphans, remembered, disturbed>>

\* _failure_stage: the stage each record of the failure and retry files names.
Failures == {[audio |-> a, stage |-> "music_gate"] : a \in gate["failures"]}
            \cup {[audio |-> a, stage |-> "discogs_mir"] : a \in discogs["failures"]}
            \cup UNION {retryAt[f] : f \in RetryFiles}

\* What combine-retry collects: each audio with its earliest failed stage, those that are in
\* another partition left out.
Collected ==
    LET occupied == destination \cup final["review"] \cup final["rejected"]
        First(a) == FirstFailing(StageOrder, {f.stage : f \in {g \in Failures : g.audio = a}})
    IN {[audio |-> a, stage |-> First(a)] : a \in {f.audio : f \in Failures} \ occupied}

\* One of the four final partitions of each audio of the inventory.
Partitions == <<destination, final["review"], final["rejected"],
                {f.audio : f \in final["retry"]}>>
Exclusive(parts) ==
    \A a \in Audios : Cardinality({k \in DOMAIN parts : a \in parts[k]}) = 1

\* (Faulty variant of CopyFinal: what Discogs wants reviewed is forgotten.)
CopyGateReview ==
    /\ pc = "finish"
    /\ final' = [final EXCEPT !["review"] = gate["review"], !["rejected"] = gate["rejected"]]
    /\ pc' = "combine_retry"
    /\ UNCHANGED <<publishVars, gate, discogs, results, sections, manifest, retryAt, pending,
                   jobs, orphans, remembered, disturbed, faults>>
\* The final partitions: the copies, combine-retry, and validate_pipeline_output, each of
\* the last two refusing partitions that do not divide the inventory.
CopyFinal ==
    /\ pc = "finish"
    /\ final' = [final EXCEPT !["review"] = gate["review"] \cup discogs["review"],
                              !["rejected"] = gate["rejected"]]
    /\ pc' = "combine_retry"
    /\ UNCHANGED <<publishVars, gate, discogs, results, sections, manifest, retryAt, pending,
                   jobs, orphans, remembered, disturbed, faults>>

CombineRetry ==
    /\ pc = "combine_retry"
    /\ IF Exclusive([Partitions EXCEPT ![4] = {f.audio : f \in Collected}])
       THEN final' = [final EXCEPT !["retry"] = Collected] /\ pc' = "validate"
       ELSE pc' = "refused" /\ UNCHANGED final
    /\ UNCHANGED <<publishVars, gate, discogs, results, sections, manifest, retryAt, pending,
                   jobs, orphans, remembered, disturbed, faults>>

Validate ==
    /\ pc = "validate"
    /\ LET base == discogs["song"] \cup discogs["instrumental"]
       IN pc' = IF Exclusive(Partitions) /\ base = destination \cup (base \cap Partitions[4])
                THEN "done" ELSE "refused"
    /\ UNCHANGED <<publishVars, files, pending, jobs, orphans, remembered, disturbed, faults>>

\* The host dies, and everything on it.  (The services may be on others.)
Crash ==
    /\ faults < MaxFaults /\ (pc \notin Ended \/ orphans # {})
    /\ pc' = "stopped" /\ publishing' = "idle" /\ pending' = NoWrites
    /\ jobs' = [s \in Whole |-> NoJob] /\ orphans' = {}
    /\ faults' = faults + 1
    /\ UNCHANGED <<destination, staging, backup, goal, files, remembered, disturbed>>

\* A service is restarted, or its response cache is full and evicts its oldest answers.
Forget ==
    /\ \E forgotten \in SUBSET remembered \ {{}} : remembered' = remembered \ forgotten
    /\ UNCHANGED <<publishVars, pc, files, pending, jobs, orphans, disturbed, faults>>

-----------------------------------------------------------------------------
Script == \/ Gate \/ GateWrite \/ Discogs \/ DiscogsWrite \/ Route
          \/ (\E s \in Whole : JobEnds(s)) \/ WaitFails \/ ActiveGlobal
          \/ Postprocess \/ ActiveSections \/ SectionAsr \/ ActiveFinal
          \/ PathConflicts \/ Merge \/ PublishBegins \/ PublishGoesOn
          \/ CopyFinal \/ CombineRetry \/ Validate

BatchNext == \/ Start \/ Script \/ OrphanEnds
             \/ (\E s \in Whole : JobFails(s)) \/ PublishRaises \/ Crash \/ Forget

BatchSpec == BatchInit /\ [][BatchNext]_batchVars

\* The programs run, and the operator runs the directory again.
FairBatchSpec == BatchSpec /\ WF_batchVars(Script) /\ WF_batchVars(Start)
                           /\ WF_batchVars(OrphanEnds)

-----------------------------------------------------------------------------
(* Properties. *)

\* The stage at which an audio failed, by the files of the run.
FailedAt(a, s) ==
    CASE s = "music_gate" -> a \in gate["failures"]
      [] s = "discogs_mir" -> a \in discogs["failures"]
      [] s \in Late -> a \in manifest["accepted"] /\ results[s][a] = "error"
      [] s = "structure_postprocess" -> a \in manifest["global"] /\ sections[a] = "error"
      [] OTHER -> \E c \in Clashes : a \in c /\ c \subseteq manifest["final"]

FailedStages(a) == {k \in DOMAIN StageOrder : FailedAt(a, StageOrder[k])}
Reasons(a) == {f.stage : f \in {g \in final["retry"] : g.audio = a}}

\* A run that ends well ends with the truth: an audio that failed is in retry, once, with the
\* first stage that failed, and nowhere else; of the others, those the gates passed are
\* annotated, and review and rejected are what the gates said.  (A program that outlived an
\* earlier run may write while this one reads.)
DoneIsTrue ==
    pc = "done" /\ ~disturbed =>
        \A a \in Audios :
            LET failed == FailedStages(a)
            IN /\ failed = {} => Reasons(a) = {}
               /\ failed # {} =>
                     Reasons(a) = {StageOrder[CHOOSE k \in failed : \A j \in failed : k <= j]}
               /\ a \in destination <=> /\ failed = {}
                                        /\ Decision[a] = "accepted" /\ Kind[a] # "review"
               /\ a \in final["review"] <=>
                     /\ failed = {}
                     /\ \/ Decision[a] = "review"
                        \/ Decision[a] = "accepted" /\ Kind[a] = "review"
               /\ a \in final["rejected"] <=> failed = {} /\ Decision[a] = "rejected"

\* The checks between the programs are never what ends a run: only a program that outlived
\* an earlier run makes one of them fail.
ChecksHold == pc = "refused" => disturbed

\* What can fail for ever: an audio whose sections cannot be made, or whose path clashes.
Hopeless == {"structure_postprocess", "annotation_path"}

\* Running the directory again gets there, as far as it can: every run ends, and in the end
\* nothing is left to retry but what no run can mend, and what a service still answers with
\* the error it gave before; unless the directory can no longer be read.  (A lost request is
\* mended by a rerun, an error that was answered only after the service has forgotten it.)
RerunsConverge ==
    /\ []<>(pc \in Ended)
    /\ <>[](pc = "done" => \A f \in final["retry"] : f.stage \in Hopeless \/ f \in remembered)

=============================================================================
