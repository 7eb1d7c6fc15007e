---------------------------- MODULE SongFormerRun ----------------------------
(***************************************************************************)
(* The structure stage: SongFormer/infer_jsonl.py with its prefetching     *)
(* workers (SongFormer/audio_prefetch.py).                                 *)
(*                                                                         *)
(* The main process reads the routed tracks, skips those with a reusable   *)
(* prediction, starts one process per GPU slot, waits until every model is *)
(* loaded, puts the tasks and one end marker per worker on a bounded       *)
(* queue, collects exactly one answer per task, joins the workers and      *)
(* writes the output rows.  A worker loads one track ahead of the one it   *)
(* infers, and commits a prediction in two files: the prediction, then its *)
(* metadata, which names the content type it was made for.                 *)
(*                                                                         *)
(* A run can be repeated; between two runs an earlier stage may route a    *)
(* track differently.                                                      *)
(***************************************************************************)
EXTENDS Naturals, Sequences, FiniteSets, SequencesExt, FiniteSetsExt

CONSTANTS Tracks,        \* identities in the input file
          Unusable,      \* those without an audio path or a known content type
          Workers,       \* worker processes
          QueueSize,     \* queue_input maxsize
          Prefetch,      \* --decode-prefetch, 0 or 1
          MaxFaults,     \* faults in a behaviour
          MaxReroutes    \* content types changed between runs

ContentTypes == {"song", "instrumental"}

ASSUME SongFormerAssumption ==
    /\ IsFiniteSet(Tracks) /\ IsFiniteSet(Workers) /\ Workers # {}
    /\ Unusable \subseteq Tracks /\ "none" \notin Tracks
    /\ QueueSize \in Nat \ {0} /\ Prefetch \in {0, 1}
    /\ MaxFaults \in Nat /\ MaxReroutes \in Nat

VARIABLES
    contentType,   \* track -> content_type of its input row
    prediction,    \* track -> what <uid>.json was inferred as, "none" without it
    marker,        \* track -> content_type in <uid>.meta.json, "none" without it
    torn,          \* tracks whose last commit stopped between the two files
    rows,          \* track -> the output row
    phase,         \* where the main process is
    tasks,         \* the tasks of this run, in input order
    sent,          \* items put on the queue so far: tasks, then end markers
    queue,         \* queue_input
    worker,        \* worker -> its process
    messages,      \* queue_output
    ready,         \* workers that reported readiness
    received,      \* tasks answered
    failures,      \* tasks answered with an error
    struck,        \* workers this run lost to a fault
    faults,        \* faults so far
    reroutes       \* content types changed so far

files == <<prediction, marker, torn>>
mainVars == <<phase, tasks, sent, ready, received, failures>>
songFormerVars == <<contentType, files, rows, mainVars, queue, worker, messages,
                    struck, faults, reroutes>>

Stop == [track |-> "none", load |-> "stop"]
Nothing == [track |-> "none", load |-> "nothing"]
Process(state) == [state |-> state, step |-> "wait", track |-> "none", ahead |-> Nothing]
NoRow == [state |-> "none", structure |-> "none"]

Alive(w) == worker[w].state \in {"starting", "up", "hung"}
Live == {w \in Workers : Alive(w)}
Crashed == {w \in Workers : worker[w].state = "dead"}
Running == phase \notin {"new", "done", "failed"}

(***************************************************************************)
(* The cache of predictions.                                               *)
(***************************************************************************)
\* Faulty: any complete commit is reused, whatever it was inferred as.
ReusableAnyType(t, type) == prediction[t] # "none" /\ marker[t] # "none"

Reusable(t, type) == prediction[t] # "none" /\ marker[t] = type

NewTasks == SetToSeq({t \in Tracks \ Unusable : ~Reusable(t, contentType[t])})
Expected == Range(tasks)

\* One output row per input row, from the predictions that can be reused now.
Merged == [t \in Tracks |->
    IF t \notin Unusable /\ Reusable(t, contentType[t])
    THEN [state |-> "ok", structure |-> prediction[t]]
    ELSE [state |-> "error", structure |-> "none"]]

SongFormerInit ==
    /\ contentType \in {c \in [Tracks -> ContentTypes] : \A t \in Unusable : c[t] = "song"}
    /\ prediction = [t \in Tracks |-> "none"]
    /\ marker = [t \in Tracks |-> "none"]
    /\ torn = {}
    /\ rows = [t \in Tracks |-> NoRow]
    /\ phase = "new"
    /\ tasks = <<>> /\ sent = 0 /\ queue = <<>>
    /\ worker = [w \in Workers |-> Process("absent")]
    /\ messages = {}
    /\ ready = {} /\ received = {} /\ failures = {}
    /\ struck = {} /\ faults = 0 /\ reroutes = 0

(***************************************************************************)
(* The main process.                                                       *)
(***************************************************************************)
\* A run with nothing to infer only merges.
MergeOnly ==
    /\ ~Running
    /\ NewTasks = <<>>
    /\ rows' = Merged
    /\ phase' = "done"
    /\ struck' = {}
    /\ UNCHANGED <<contentType, files, tasks, sent, ready, received, failures, queue,
                   worker, messages, faults, reroutes>>

StartWorkers ==
    /\ ~Running
    /\ NewTasks # <<>>
    /\ phase' = "ready"
    /\ tasks' = NewTasks /\ sent' = 0 /\ queue' = <<>>
    /\ worker' = [w \in Workers |-> Process("starting")]
    /\ messages' = {}
    /\ ready' = {} /\ received' = {} /\ failures' = {}
    /\ struck' = {}
    /\ UNCHANGED <<contentType, files, rows, faults, reroutes>>

\* No task is admitted until every resident model reports readiness.
HearReady ==
    /\ phase = "ready"
    /\ Crashed = {}
    /\ \E m \in messages :
        /\ m.type = "ready"
        /\ messages' = messages \ {m}
        /\ ready' = ready \cup {m.worker}
        /\ phase' = IF ready' = Workers THEN "dispatch" ELSE phase
    /\ UNCHANGED <<contentType, files, rows, tasks, sent, received, failures, queue,
                   worker, struck, faults, reroutes>>

\* One more item of the tasks followed by one end marker per worker.
EndMarkers == Cardinality(Workers)
Item(n) == IF n <= Len(tasks) THEN [track |-> tasks[n], load |-> "task"] ELSE Stop

Put ==
    /\ phase = "dispatch"
    /\ Crashed = {} /\ Live # {}
    /\ Len(queue) < QueueSize
    /\ queue' = Append(queue, Item(sent + 1))
    /\ sent' = sent + 1
    /\ phase' = IF sent' = Len(tasks) + EndMarkers THEN "collect" ELSE phase
    /\ UNCHANGED <<contentType, files, rows, tasks, ready, received, failures, worker,
                   messages, struck, faults, reroutes>>

Collect ==
    /\ phase = "collect"
    /\ Crashed = {}
    /\ \E m \in messages :
        /\ m.type = "result" /\ m.track \in Expected \ received
        /\ messages' = messages \ {m}
        /\ received' = received \cup {m.track}
        /\ failures' = IF m.ok THEN failures ELSE failures \cup {m.track}
        /\ phase' = IF received' = Expected THEN "join" ELSE phase
    /\ UNCHANGED <<contentType, files, rows, tasks, sent, ready, queue, worker, struck,
                   faults, reroutes>>

\* Every worker exited cleanly: the output rows are rebuilt and published.
JoinAndMerge ==
    /\ phase = "join"
    /\ \A w \in Workers : worker[w].state = "exited"
    /\ rows' = Merged
    /\ phase' = "done"
    /\ UNCHANGED <<contentType, files, tasks, sent, ready, received, failures, queue,
                   worker, messages, struck, faults, reroutes>>

(***************************************************************************)
(* Why the main process raises.                                            *)
(***************************************************************************)
\* A process that can take no step until the main process does something.
Blocked(w) ==
    \/ ~Alive(w)
    \/ worker[w].state = "hung"
    \/ worker[w].state = "up" /\ worker[w].step = "wait" /\ worker[w].ahead = Nothing
       /\ queue = <<>>

\* A deadline passes only when nothing comes any more: a slow answer that
\* misses it is a hung worker here.
Stalled ==
    /\ \A w \in Workers : Blocked(w)
    /\ CASE phase = "ready"    -> messages = {}
         [] phase = "dispatch" -> Len(queue) >= QueueSize
         [] phase = "collect"  -> messages = {}
         [] phase = "join"     -> Live # {}
         [] OTHER              -> FALSE

\* Anything but the message the phase waits for is an error.
BadMessage(m) ==
    \/ phase = "ready" /\ (m.type # "ready" \/ m.worker \in ready)
    \/ phase = "collect" /\ (m.type # "result" \/ m.track \notin Expected \ received)

Raise ==
    /\ \/ phase \in {"ready", "dispatch", "collect"} /\ Crashed # {}
       \/ phase = "join" /\ Crashed # {} /\ Live = {}
       \/ phase = "dispatch" /\ Live = {}
       \/ \E m \in messages : BadMessage(m)
       \/ Stalled
    /\ phase' = "raised"
    /\ UNCHANGED <<contentType, files, rows, tasks, sent, ready, received, failures,
                   queue, worker, messages, struck, faults, reroutes>>

\* A process ends wherever it is: between the two files, its track is torn.
TornBy(ended) == {worker[w].track : w \in {v \in ended : worker[v].step = "predicted"}}
Ended(ended) ==
    /\ worker' = [w \in Workers |-> IF w \in ended THEN Process("dead") ELSE worker[w]]
    /\ torn' = torn \cup TornBy(ended)

\* Faulty: a worker that does not react to SIGTERM is waited for.
TerminatePolitely ==
    /\ phase = "raised"
    /\ \E w \in Live :
        IF worker[w].state = "hung" THEN UNCHANGED <<worker, torn, phase>>
        ELSE /\ Ended({w})
             /\ phase' = IF Live = {w} THEN "failed" ELSE phase
    /\ UNCHANGED <<contentType, prediction, marker, rows, tasks, sent, ready, received,
                   failures, queue, messages, struck, faults, reroutes>>

\* SIGTERM, a deadline, SIGKILL: the others may still step before their turn.
Terminate ==
    /\ phase = "raised"
    /\ \E w \in Live :
        /\ Ended({w})
        /\ phase' = IF Live = {w} THEN "failed" ELSE phase
    /\ UNCHANGED <<contentType, prediction, marker, rows, tasks, sent, ready, received,
                   failures, queue, messages, struck, faults, reroutes>>

RaiseThrough ==
    /\ phase = "raised" /\ Live = {}
    /\ phase' = "failed"
    /\ UNCHANGED <<contentType, files, rows, tasks, sent, ready, received, failures,
                   queue, worker, messages, struck, faults, reroutes>>

(***************************************************************************)
(* A worker.                                                               *)
(***************************************************************************)
Up(w) == worker[w].state = "up"
Answer(w, t, ok) == [type |-> "result", worker |-> w, track |-> t, ok |-> ok]
Says(w, type) == [type |-> type, worker |-> w, track |-> "none", ok |-> TRUE]
WorkerOnly == UNCHANGED <<contentType, rows, mainVars, struck, reroutes>>

Load(w) ==
    /\ worker[w].state = "starting"
    /\ worker' = [worker EXCEPT ![w] = Process("up")]
    /\ messages' = messages \cup {Says(w, "ready")}
    /\ WorkerOnly /\ UNCHANGED <<files, queue, faults>>

\* The loader thread: it takes the next item, checks the cache and decodes.
MayFetch(w) ==
    /\ Up(w) /\ worker[w].ahead = Nothing
    /\ Prefetch = 1 \/ worker[w].step = "wait"

Fetch(w) ==
    /\ MayFetch(w)
    /\ queue # <<>>
    /\ queue' = Tail(queue)
    /\ \E failed \in BOOLEAN :
        LET next == Head(queue)
            load == IF Reusable(next.track, contentType[next.track]) THEN "skipped"
                    ELSE IF failed THEN "failed" ELSE "loaded"
        IN  IF next = Stop
            THEN /\ worker' = [worker EXCEPT ![w].ahead = Stop]
                 /\ ~failed /\ UNCHANGED faults
            ELSE /\ worker' = [worker EXCEPT ![w].ahead = [track |-> next.track, load |-> load]]
                 /\ faults' = IF failed THEN faults + 1 ELSE faults
    /\ WorkerOnly /\ UNCHANGED <<files, messages>>

\* The loop of the worker takes what the loader has; the loader may go on.
Taken(w, load) == Up(w) /\ worker[w].step = "wait" /\ worker[w].ahead.load = load

\* Faulty: a task answered without inference is inferred all the same.
AnswerAndInfer(w) ==
    /\ \E load \in {"skipped", "failed"} :
        /\ Taken(w, load)
        /\ messages' = messages \cup {Answer(w, worker[w].ahead.track, load = "skipped")}
    /\ worker' = [worker EXCEPT ![w] = [state |-> "up", step |-> "infer",
                                        track |-> worker[w].ahead.track, ahead |-> Nothing]]
    /\ WorkerOnly /\ UNCHANGED <<files, queue, faults>>

AnswerLoaded(w) ==
    /\ \E load \in {"skipped", "failed"} :
        /\ Taken(w, load)
        /\ messages' = messages \cup {Answer(w, worker[w].ahead.track, load = "skipped")}
    /\ worker' = [worker EXCEPT ![w] = Process("up")]
    /\ WorkerOnly /\ UNCHANGED <<files, queue, faults>>

Begin(w) ==
    /\ Taken(w, "loaded")
    /\ worker' = [worker EXCEPT ![w] = [state |-> "up", step |-> "infer",
                                        track |-> worker[w].ahead.track, ahead |-> Nothing]]
    /\ WorkerOnly /\ UNCHANGED <<files, queue, messages, faults>>

Exit(w) ==
    /\ Taken(w, "stop")
    /\ worker' = [worker EXCEPT ![w] = Process("exited")]
    /\ WorkerOnly /\ UNCHANGED <<files, queue, messages, faults>>

\* The prediction first ...
WritePrediction(w) ==
    /\ Up(w) /\ worker[w].step = "infer"
    /\ prediction' = [prediction EXCEPT ![worker[w].track] = contentType[worker[w].track]]
    /\ worker' = [worker EXCEPT ![w].step = "predicted"]
    /\ WorkerOnly /\ UNCHANGED <<marker, torn, queue, messages, faults>>

\* ... and its metadata as the completion marker.
Answered(w) == [worker EXCEPT ![w].step = "wait", ![w].track = "none"]
WriteMarker(w) ==
    /\ Up(w) /\ worker[w].step = "predicted"
    /\ marker' = [marker EXCEPT ![worker[w].track] = contentType[worker[w].track]]
    /\ torn' = torn \ {worker[w].track}
    /\ worker' = Answered(w)
    /\ messages' = messages \cup {Answer(w, worker[w].track, TRUE)}
    /\ WorkerOnly /\ UNCHANGED <<prediction, queue, faults>>

\* Inference or one of the two writes raises: the task is answered as failed.
InferFails(w) ==
    /\ Up(w) /\ worker[w].step \in {"infer", "predicted"}
    /\ torn' = torn \cup TornBy({w})
    /\ worker' = Answered(w)
    /\ messages' = messages \cup {Answer(w, worker[w].track, FALSE)}
    /\ faults' = faults + 1
    /\ WorkerOnly /\ UNCHANGED <<prediction, marker, queue>>

(***************************************************************************)
(* Faults of processes, and the world between two runs.                    *)
(***************************************************************************)
\* The models cannot be loaded: the worker says so and exits with an error.
InitFails(w) ==
    /\ worker[w].state = "starting"
    /\ worker' = [worker EXCEPT ![w] = Process("dead")]
    /\ messages' = messages \cup {Says(w, "init_error")}
    /\ struck' = struck \cup {w}
    /\ faults' = faults + 1
    /\ UNCHANGED <<contentType, files, rows, mainVars, queue, reroutes>>

\* Killed, for instance for its memory; answers not yet flushed may be lost.
Killed(w) ==
    /\ Running /\ Alive(w)
    /\ Ended({w})
    /\ \E lost \in SUBSET {m \in messages : m.worker = w} : messages' = messages \ lost
    /\ struck' = struck \cup {w}
    /\ faults' = faults + 1
    /\ UNCHANGED <<contentType, prediction, marker, rows, mainVars, queue, reroutes>>

Hangs(w) ==
    /\ Running /\ worker[w].state \in {"starting", "up"}
    /\ worker' = [worker EXCEPT ![w].state = "hung"]
    /\ struck' = struck \cup {w}
    /\ faults' = faults + 1
    /\ UNCHANGED <<contentType, files, rows, mainVars, queue, messages, reroutes>>

\* The host stops: no process is left and nothing more is written.
HostCrash ==
    /\ Running
    /\ Ended(Live)
    /\ phase' = "failed"
    /\ struck' = Workers
    /\ faults' = faults + 1
    /\ UNCHANGED <<contentType, prediction, marker, rows, tasks, sent, ready, received,
                   failures, queue, messages, reroutes>>

Reroute(t) ==
    /\ ~Running
    /\ reroutes < MaxReroutes
    /\ contentType' = [contentType EXCEPT ![t] = CHOOSE c \in ContentTypes : c # @]
    /\ phase' = "new"
    /\ reroutes' = reroutes + 1
    /\ UNCHANGED <<files, rows, tasks, sent, ready, received, failures, queue, worker, messages,
                   struck, faults>>

MainStep ==
    \/ MergeOnly \/ StartWorkers
    \/ HearReady \/ Put \/ Collect \/ JoinAndMerge
    \/ Raise \/ Terminate \/ RaiseThrough

WorkerStep(w) ==
    \/ Load(w) \/ Fetch(w) \/ Begin(w) \/ Exit(w)
    \/ AnswerLoaded(w) \/ WritePrediction(w) \/ WriteMarker(w) \/ InferFails(w)

Fault(w) == InitFails(w) \/ Killed(w) \/ Hangs(w)

SongFormerNext ==
    /\ \/ MainStep
       \/ \E w \in Workers : WorkerStep(w) \/ Fault(w)
       \/ HostCrash
       \/ \E t \in Tracks \ Unusable : Reroute(t)
    /\ faults' <= MaxFaults

(***************************************************************************)
(* Fairness: the main process and every worker that can step do; faults    *)
(* and re-routing need not happen; the stage is run again.                 *)
(***************************************************************************)
SongFormerSpec == SongFormerInit /\ [][SongFormerNext]_songFormerVars
FairSongFormerSpec ==
    /\ SongFormerSpec
    /\ WF_songFormerVars(SongFormerNext /\ MainStep)
    /\ \A w \in Workers : WF_songFormerVars(SongFormerNext /\ WorkerStep(w))

(***************************************************************************)
(* Properties.                                                             *)
(***************************************************************************)
\* Every task is in one place only: it waits to be put, on the queue, with
\* one worker (loaded ahead or in hand), in one answer, or received.  A crash
\* may lose it, nothing may double it, whatever the loaders take ahead.
Places(t) ==
    Cardinality({n \in (sent + 1)..Len(tasks) : tasks[n] = t})
      + Cardinality({n \in DOMAIN queue : queue[n].track = t})
      + Cardinality({w \in Workers : worker[w].track = t})
      + Cardinality({w \in Workers : worker[w].ahead.track = t})
      + Cardinality({m \in messages : m.track = t})
      + Cardinality(received \cap {t})

AnsweredOnce == Running => \A t \in Expected : Places(t) <= 1 /\ (struck = {} => Places(t) = 1)

\* A finished run has a row for every track, and a row that is ok holds a
\* structure inferred as the content type the track has now, unless the last
\* commit of that track stopped between its two files.
OutputIsTrue == phase = "done" =>
    \A t \in Tracks :
        /\ rows[t].state = "error" => t \in Unusable \cup failures
        /\ rows[t].state = "ok" => rows[t].structure = contentType[t] \/ t \in torn
        /\ rows[t].state # "none"

\* Every run comes to an end, also when workers hang or die: the deadlines
\* on readiness, on a full queue, on silence and on the join see to it.
EveryRunReturns == Running ~> ~Running

=============================================================================
