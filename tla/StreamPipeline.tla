--------------------------- MODULE StreamPipeline ---------------------------
(***************************************************************************)
(* The streaming runner, scripts/stream_pipeline.py: StreamingPipeline.run, *)
(* its inventory producer thread, the executor threads that wait for the    *)
(* model services, and the restart of a runner that died.                   *)
(*                                                                         *)
(* The main thread is the only client of the tables, so its control points  *)
(* are the places where another thread or a crash can come between two of   *)
(* its effects: every statement on the tables and every annotation file is  *)
(* a step of its own.  What a service answers is one value of Replies.      *)
(***************************************************************************)
EXTENDS Naturals, Sequences, FiniteSets

CONSTANTS Audio,            \* audio ids
          Records,          \* inventory records [kind, id, decode]
          Inventories,      \* what a run may be given: sequences of records and errors
          FullTrackStages,  \* FULL_TRACK_STAGES, in dispatch order
          TrackResults,     \* what full-track stages and ASR may return
          Replies,          \* Replies[s]: results of stage s, and Error if it may fail
          Error,            \* a client.infer call that raised
          MaxInflight,      \* --max-inflight
          MaxRuns,          \* bound: how often the runner is started
          HealthMayFail,    \* may a service be down when a run first needs it?
          WriteMayFail,     \* may writing an annotation file raise OSError?
          FilesMayVanish,   \* may an annotation be lost after it was published?
          None

Gate == "fast_gate"
Discogs == "discogs_mir"
Asr == "asr"
FullTrack == {FullTrackStages[i] : i \in DOMAIN FullTrackStages}
Stages == {Gate, Discogs, Asr} \cup FullTrack

Routes == {"song", "instrumental"}
Verdicts == {"review", "rejected"}
Terminal == Verdicts \cup {"published", "failed"}
Results == {"accepted", "invalid_route"} \cup Verdicts \cup Routes \cup TrackResults

\* The record sent to a stage overlays the results of these stages on the source.
Upstream(s) == CASE s = Gate -> {}
                 [] s = Discogs -> {Gate}
                 [] s = Asr -> {Gate, Discogs} \cup FullTrack
                 [] OTHER -> {Gate, Discogs}
InputsOf(s) == {f \in [Upstream(s) -> Results] : \A u \in Upstream(s) : f[u] \in Replies[u]}
Inputs == UNION {InputsOf(s) : s \in Stages}

\* inventory_done and an exception of the inventory iterator, as queue entries.
Done == [kind |-> "done"]
Failure == [kind |-> "error"]
Entries == Records \cup {Done, Failure}

\* What an annotation can be built from: the results of the stages that succeeded.
Annotations == [Stages -> Results \cup {None}]

RunnerAssumption ==
    /\ MaxInflight \in 1..64 /\ MaxRuns \in Nat
    /\ FullTrackStages \in Seq(STRING) /\ FullTrack \cap {Gate, Discogs, Asr} = {}
    /\ "structure_raw" \in FullTrack
    /\ Error \notin Results
    /\ Replies \in [Stages -> SUBSET (Results \cup {Error})]
    /\ None \notin Inputs \cup Results \cup Records \cup Audio \cup {Error, "waiting"}
    /\ None \notin Annotations
    /\ \A r \in Records : r.kind = "record" /\ r.id \in Audio
    /\ Inventories \subseteq Seq(Records \cup {Failure})
ASSUME RunnerAssumption

VARIABLES
    items, rows,    \* durable: the tables of StreamState
    annotations,    \* durable: final/annotations, the results a file was built from
    report,         \* durable: the other final partitions and accepted.jsonl
    runs,           \* how often the runner was started
    pc,             \* main thread: where it is, "down" when there is no runner
    exit,           \* how the last run ended
    todo,           \* producer thread: entries it has still to put
    queue,          \* inventory_queue
    held,           \* main thread: the entry taken by get(timeout) and not yet put back
    finished,       \* producer_finished
    seen,           \* seen_inventory_ids
    scan,           \* pending items of the snapshot that the scan has still to visit
    backlog,        \* did the snapshot hold a pending item?
    ready,          \* stages of the scanned item still to submit
    call,           \* call[a][s]: None, "waiting", or the reply a future holds
    healthy,        \* _health_checked
    progress        \* progress

Table == INSTANCE StreamState

\* What the runner promises about each audio, read off the tables and the files.
Lifecycle == INSTANCE TrackLifecycle WITH
    status <- [a \in Audio |-> items[a].status],
    done <- [a \in Audio |-> [s \in Stages |-> rows[a][s].result]],
    file <- annotations

tables == <<items, rows>>
files == <<annotations, report>>
thread == <<todo, queue>>
loop == <<finished, seen, scan, backlog, ready, healthy, progress>>
vars == <<tables, files, runs, pc, exit, thread, held, loop, call>>

PCs == {"down", "repair", "drain", "decode_failed", "scan", "submit", "claim", "commit",
        "wait", "collect", "check", "putback", "finalize", "validate"}
Exits == {"none", "ok", "retry", "crash", "inventory", "health", "route",
          "structure", "stalled", "invalid_output"}

-----------------------------------------------------------------------------
(* What the rows of an item say. *)

Is(a, s, status) == rows[a][s].status = status
\* (Faulty variant of Open: a recovered row, which is pending, is not seen as ready.)
OpenOnlyAbsent(a, s) == Is(a, s, "absent")
Open(a, s) == Is(a, s, "absent") \/ Is(a, s, "pending")
Succeeded(a, s) == Is(a, s, "succeeded")

\* The fingerprint of the record a stage of the item would be sent now.
InputOf(a, s) == [u \in Upstream(s) |-> rows[a][u].result]

\* _gate_terminal lets the item pass the gate.
PassedGate(a) == Succeeded(a, Gate) /\ rows[a][Gate].result \notin Verdicts
\* _accepted_route names the item's route.
Routed(a) == PassedGate(a) /\ Succeeded(a, Discogs) /\ rows[a][Discogs].result \in Routes
IsSong(a) == rows[a][Discogs].result = "song"
TrackComplete(a) == Routed(a) /\ \A s \in FullTrack : Succeeded(a, s)

-----------------------------------------------------------------------------
(* Faulty variants: each is a plausible slip in the code that one of the     *)
(* properties below must catch.  They are not part of the specification.     *)

\* The branch on content_type is lost: every track goes to ASR.
ReadyStagesAsrForAll(a) ==
    IF Open(a, Gate) THEN {Gate}
    ELSE IF PassedGate(a) /\ Open(a, Discogs) THEN {Discogs}
    ELSE IF Routed(a) /\ \E s \in FullTrack : Open(a, s) THEN {s \in FullTrack : Open(a, s)}
    ELSE IF TrackComplete(a) /\ Open(a, Asr) THEN {Asr}
    ELSE {}

\* A failed ASR is not noticed.
StageFailedButAsr(a) == \/ Is(a, Gate, "failed")
                        \/ PassedGate(a) /\ Is(a, Discogs, "failed")
                        \/ Routed(a) /\ \E s \in FullTrack : Is(a, s, "failed")

\* The runner starts without recover_running.
StartUnrecovered ==
    /\ pc = "down" /\ runs < MaxRuns
    /\ \E inventory \in Inventories : todo' = Append(inventory, [kind |-> "done"])
    /\ runs' = runs + 1 /\ pc' = "repair" /\ exit' = "none"
    /\ UNCHANGED <<tables, files, queue, held, loop, call>>

\* The end of the inventory goes unnoticed.
TakeDoneUnmarked ==
    /\ pc = "drain" /\ queue # <<>> /\ Head(queue).kind = "done"
    /\ queue' = Tail(queue) /\ progress' = TRUE
    /\ UNCHANGED <<tables, files, runs, pc, exit, todo, held, finished,
                   seen, scan, backlog, ready, healthy, call>>

\* The check for stale ids is missing.
SnapshotAcceptsStale ==
    /\ pc = "drain" /\ queue = <<>>
    /\ scan' = {a \in seen : items[a].status = "pending"}
    /\ backlog' = (scan' # {}) /\ pc' = "scan"
    /\ UNCHANGED <<tables, files, runs, exit, thread, held, finished, seen,
                   ready, healthy, progress, call>>

-----------------------------------------------------------------------------
\* The verdict of the gate or of Discogs that ends the item: review or rejected.
Verdict(a) ==
    IF Succeeded(a, Gate) /\ rows[a][Gate].result \in Verdicts THEN rows[a][Gate].result
    ELSE IF PassedGate(a) /\ Succeeded(a, Discogs) /\ rows[a][Discogs].result \in Verdicts
         THEN rows[a][Discogs].result
         ELSE None

\* _ready_stages reports "failed".
StageFailed(a) == \/ Is(a, Gate, "failed")
                  \/ PassedGate(a) /\ Is(a, Discogs, "failed")
                  \/ Routed(a) /\ \E s \in FullTrack : Is(a, s, "failed")
                  \/ TrackComplete(a) /\ IsSong(a) /\ Is(a, Asr, "failed")

\* _ready_stages raises: no valid route, or no structure to build the ASR input from.
NoRoute(a) == PassedGate(a) /\ Succeeded(a, Discogs)
                /\ rows[a][Discogs].result \notin Verdicts \cup Routes
NoAsrInput(a) == /\ TrackComplete(a) /\ IsSong(a) /\ Open(a, Asr)
                 /\ rows[a]["structure_raw"].result = "empty"

\* build_final_annotation raises: a stage succeeded without the content it should have.
Unusable(a) == \E s \in FullTrack \cup {Asr} : rows[a][s].result = "empty"

\* _ready_stages: the stages to dispatch.
ReadyStages(a) ==
    IF Open(a, Gate) THEN {Gate}
    ELSE IF PassedGate(a) /\ Open(a, Discogs) THEN {Discogs}
    ELSE IF Routed(a) /\ \E s \in FullTrack : Open(a, s) THEN {s \in FullTrack : Open(a, s)}
    ELSE IF TrackComplete(a) /\ IsSong(a) /\ Open(a, Asr) THEN {Asr}
    ELSE {}

\* A stage of the ready list comes next in FULL_TRACK_STAGES order; any other
\* ready list is a singleton.
NextReady(s) ==
    /\ s \in ready
    /\ \A i, j \in DOMAIN FullTrackStages :
          FullTrackStages[i] = s /\ FullTrackStages[j] \in ready => i <= j

\* _can_publish.
CanPublish(a) == TrackComplete(a) /\ (IsSong(a) => Succeeded(a, Asr))

\* What build_final_annotation reads: the results of the stages that succeeded.
Annotation(a) == [s \in Stages |-> rows[a][s].result]

\* The futures of the in-flight dictionary and its limit.
Inflight == {p \in Audio \X Stages : call[p[1]][p[2]] # None}
HasCapacity == Cardinality(Inflight) < MaxInflight
Answered(a, s) == call[a][s] \notin {None, "waiting"}

\* The scan visits the snapshot in the order of the ordinals.
Visiting(a) == a \in scan /\ \A b \in scan : items[a].ordinal <= items[b].ordinal

Idle == [a \in Audio |-> [s \in Stages |-> None]]

Init == /\ Table!Init
        /\ annotations = [a \in Audio |-> None] /\ report = None
        /\ runs = 0 /\ pc = "down" /\ exit = "none"
        /\ todo = <<>> /\ queue = <<>> /\ held = None
        /\ finished = FALSE /\ seen = {} /\ scan = {} /\ backlog = FALSE
        /\ ready = {} /\ call = Idle /\ healthy = {} /\ progress = FALSE

-----------------------------------------------------------------------------
(* The process ends, on any path: only the tables and the files remain. *)

Stop(e) == /\ pc' = "down" /\ exit' = e
           /\ todo' = <<>> /\ queue' = <<>> /\ held' = None
           /\ finished' = FALSE /\ seen' = {} /\ scan' = {} /\ backlog' = FALSE
           /\ ready' = {} /\ call' = Idle /\ healthy' = {} /\ progress' = FALSE

\* The process is killed.  Every run but the last may be.
Crash == /\ pc # "down" /\ runs < MaxRuns
         /\ Stop("crash")
         /\ UNCHANGED <<tables, files, runs>>

\* A rename that was not durable, or an operator, removes a published file.
Vanish(a) == /\ FilesMayVanish /\ pc = "down" /\ annotations[a] # None
             /\ annotations' = [annotations EXCEPT ![a] = None]
             /\ UNCHANGED <<tables, report, runs, pc, exit, thread, held, loop, call>>

-----------------------------------------------------------------------------
(* A run begins. *)

\* run(inventory): recover_running first.
Start == /\ pc = "down" /\ runs < MaxRuns
         /\ Table!RecoverRunning
         /\ \E inventory \in Inventories : todo' = Append(inventory, Done)
         /\ runs' = runs + 1 /\ pc' = "repair" /\ exit' = "none"
         /\ UNCHANGED <<files, queue, held, loop, call>>

\* A published item whose file is gone becomes pending again.
Unbacked(a) == items[a].status = "published" /\ annotations[a] = None

Repair(a) == /\ pc = "repair" /\ Unbacked(a)
             /\ Table!SetItemStatus(a, "pending")
             /\ UNCHANGED <<files, runs, pc, exit, thread, held, loop, call>>

\* producer.start() and the first pass of the loop.
BeginLoop == /\ pc = "repair" /\ \A a \in Audio : ~Unbacked(a)
             /\ pc' = "drain"
             /\ UNCHANGED <<tables, files, runs, exit, thread, held, loop, call>>

\* The producer thread puts one entry, blocking while the queue is full.
Produce == /\ pc \notin {"down", "repair"} /\ todo # <<>> /\ Len(queue) < MaxInflight
           /\ queue' = Append(queue, Head(todo)) /\ todo' = Tail(todo)
           /\ UNCHANGED <<tables, files, runs, pc, exit, held, loop, call>>

-----------------------------------------------------------------------------
(* The loop drains the queue without waiting. *)

TakeDone == /\ pc = "drain" /\ queue # <<>> /\ Head(queue) = Done
            /\ queue' = Tail(queue) /\ finished' = TRUE /\ progress' = TRUE
            /\ UNCHANGED <<tables, files, runs, pc, exit, todo, held,
                           seen, scan, backlog, ready, healthy, call>>

\* The iterator's exception, a duplicate id and a changed record all end the run.
TakeInvalid == /\ pc = "drain" /\ queue # <<>> /\ Head(queue) # Done
               /\ \/ Head(queue) = Failure
                  \/ /\ Head(queue) \in Records
                     /\ \/ Head(queue).id \in seen
                        \/ Table!InventoryChanged(Head(queue))
               /\ Stop("inventory")
               /\ UNCHANGED <<tables, files, runs>>

TakeRecord(r) ==
    /\ pc = "drain" /\ queue # <<>> /\ Head(queue) = r /\ r.id \notin seen
    /\ Table!RegisterItem(r)
    /\ queue' = Tail(queue) /\ seen' = seen \cup {r.id} /\ progress' = TRUE
    /\ IF r.decode = "ok" THEN UNCHANGED <<pc, held>>
                          ELSE pc' = "decode_failed" /\ held' = r
    /\ UNCHANGED <<files, runs, exit, todo, finished, scan, backlog, ready, healthy, call>>

\* A record that could not be decoded fails at once.
DecodeFailed == /\ pc = "decode_failed"
                /\ Table!SetItemStatus(held.id, "failed")
                /\ pc' = "drain" /\ held' = None
                /\ UNCHANGED <<files, runs, exit, thread, loop, call>>

\* The queue was seen empty: the items are read once, and the scan uses that snapshot.
Snapshot ==
    /\ pc = "drain" /\ queue = <<>>
    /\ IF finished /\ Table!Registered \ seen # {}
       THEN Stop("inventory")
       ELSE /\ scan' = {a \in seen : items[a].status = "pending"}
            /\ backlog' = (scan' # {}) /\ pc' = "scan"
            /\ UNCHANGED <<exit, thread, held, finished, seen, ready, healthy, progress, call>>
    /\ UNCHANGED <<tables, files, runs>>

-----------------------------------------------------------------------------
(* The scan advances each pending item, oldest first, while there is capacity. *)

Scanning(a) == pc = "scan" /\ HasCapacity /\ Visiting(a)

\* The item is done with in this pass.
Leave(a) == scan' = scan \ {a}

SettleItem(a, status) ==
    /\ Table!SetItemStatus(a, status)
    /\ Leave(a) /\ progress' = TRUE
    /\ UNCHANGED <<files, runs, exit, thread, held, finished, seen, backlog, ready, healthy, call>>

EndItem(a) == /\ Scanning(a)
              /\ \/ Verdict(a) # None /\ SettleItem(a, Verdict(a))
                 \/ StageFailed(a) /\ SettleItem(a, "failed")
              /\ UNCHANGED pc

\* An exception out of _ready_stages is not caught by the loop.
RaiseOnItem(a) == /\ Scanning(a) /\ ~StageFailed(a)
                  /\ \/ NoRoute(a) /\ Stop("route")
                     \/ NoAsrInput(a) /\ Stop("structure")
                  /\ UNCHANGED <<tables, files, runs>>

\* _publish: the file first, the item's status after it.
WriteAnnotation(a) ==
    /\ Scanning(a) /\ CanPublish(a) /\ ~Unusable(a)
    /\ annotations' = [annotations EXCEPT ![a] = Annotation(a)]
    /\ pc' = "commit"
    /\ UNCHANGED <<tables, report, runs, exit, thread, held, loop, call>>

CommitPublished(a) == /\ pc = "commit" /\ Visiting(a)
                      /\ SettleItem(a, "published") /\ pc' = "scan"

\* build_final_annotation or the file system raises: the item fails.
PublishRaises(a) == /\ Scanning(a) /\ CanPublish(a) /\ (Unusable(a) \/ WriteMayFail)
                    /\ SettleItem(a, "failed") /\ UNCHANGED pc

Dispatch(a) == /\ Scanning(a) /\ ~StageFailed(a) /\ ~NoAsrInput(a) /\ ReadyStages(a) # {}
               /\ ready' = ReadyStages(a) /\ pc' = "submit"
               /\ UNCHANGED <<tables, files, runs, exit, thread, held,
                              finished, seen, scan, backlog, healthy, progress, call>>

\* The item waits for a call that is in flight.
PassOver(a) == /\ Scanning(a) /\ Verdict(a) = None /\ ~StageFailed(a) /\ ~NoRoute(a)
               /\ ~CanPublish(a) /\ ReadyStages(a) = {}
               /\ Leave(a)
               /\ UNCHANGED <<tables, files, runs, pc, exit, thread, held,
                              finished, seen, backlog, ready, healthy, progress, call>>

\* _submit, up to prepare_stage.
Prepare(a, s) == /\ pc = "submit" /\ Visiting(a) /\ NextReady(s) /\ HasCapacity
                 /\ Table!PrepareStage(a, s, InputOf(a, s))
                 /\ pc' = "claim"
                 /\ UNCHANGED <<files, runs, exit, thread, held, loop, call>>

\* _submit, from claim_stage on: the health check comes after the claim, so a
\* service that is down ends the run with the row left running.
Submit(a, s) ==
    /\ pc = "claim" /\ Visiting(a) /\ NextReady(s)
    /\ Table!ClaimStage(a, s, InputOf(a, s))
    /\ call' = [call EXCEPT ![a][s] = "waiting"]
    /\ healthy' = healthy \cup {s} /\ ready' = ready \ {s} /\ progress' = TRUE
    /\ pc' = "submit"
    /\ UNCHANGED <<files, runs, exit, thread, held, finished, seen, scan, backlog>>

Unhealthy(a, s) == /\ pc = "claim" /\ Visiting(a) /\ NextReady(s)
                   /\ HealthMayFail /\ s \notin healthy
                   /\ Table!ClaimStage(a, s, InputOf(a, s))
                   /\ Stop("health")
                   /\ UNCHANGED <<files, runs>>

EndSubmit(a) == /\ pc = "submit" /\ Visiting(a) /\ (ready = {} \/ ~HasCapacity)
                /\ Leave(a) /\ ready' = {} /\ pc' = "scan"
                /\ UNCHANGED <<tables, files, runs, exit, thread, held,
                               finished, seen, backlog, healthy, progress, call>>

EndScan == /\ pc = "scan" /\ (scan = {} \/ ~HasCapacity)
           /\ scan' = {} /\ pc' = IF Inflight = {} THEN "check" ELSE "wait"
           /\ UNCHANGED <<tables, files, runs, exit, thread, held,
                          finished, seen, backlog, ready, healthy, progress, call>>

-----------------------------------------------------------------------------
(* Replies.  client.infer returns or raises, within its timeout. *)

Reply(a, s) == /\ call[a][s] = "waiting"
               /\ \E r \in Replies[s] : call' = [call EXCEPT ![a][s] = r]
               /\ UNCHANGED <<tables, files, runs, pc, exit, thread, held, loop>>

\* One of the futures wait() found done.
Collect(a, s) ==
    /\ pc \in {"wait", "collect"} /\ Answered(a, s)
    /\ IF call[a][s] = Error THEN Table!FailStage(a, s)
                             ELSE Table!FinishStage(a, s, call[a][s])
    /\ call' = [call EXCEPT ![a][s] = None] /\ pc' = "collect"
    /\ UNCHANGED <<files, runs, exit, thread, held, loop>>

LoopAgain == /\ pc' = "drain" /\ progress' = FALSE
             /\ UNCHANGED <<tables, files, runs, exit, todo, finished,
                            seen, scan, backlog, ready, healthy, call>>

\* Every future found done was handled; or the wait timed out on none.
AfterWait == /\ \/ pc = "collect"
                \/ pc = "wait" /\ \A a \in Audio, s \in Stages : ~Answered(a, s)
             /\ LoopAgain /\ UNCHANGED <<queue, held>>

\* Nothing is in flight: leave the loop, give up, or go round.
EndLoop == /\ pc = "check" /\ finished
           /\ IF backlog THEN ~progress /\ Stop("stalled")
              ELSE /\ pc' = "finalize"
                   /\ UNCHANGED <<exit, thread, held, loop, call>>
           /\ UNCHANGED <<tables, files, runs>>

GoRound == /\ pc = "check"
           /\ \/ progress /\ (finished => backlog)
              \/ ~progress /\ ~finished /\ queue = <<>>
           /\ LoopAgain /\ UNCHANGED <<queue, held>>

\* inventory_queue.get(timeout=0.05), then put() of the same entry: the put blocks
\* when the producer has filled the queue in between.
Peek == /\ pc = "check" /\ ~progress /\ ~finished /\ queue # <<>>
        /\ held' = Head(queue) /\ queue' = Tail(queue) /\ pc' = "putback"
        /\ UNCHANGED <<tables, files, runs, exit, todo, loop, call>>

PutBack == /\ pc = "putback" /\ Len(queue) < MaxInflight
           /\ queue' = Append(queue, held) /\ held' = None
           /\ LoopAgain

-----------------------------------------------------------------------------
(* The run ends: the partitions are written and validated. *)

WithStatus(status) == {a \in Audio : items[a].status = status}
Annotated == {a \in Audio : annotations[a] # None}

Finalize == /\ pc = "finalize"
            /\ report' = [review |-> WithStatus("review"),
                          rejected |-> WithStatus("rejected"),
                          retry |-> WithStatus("failed"),
                          accepted |-> {a \in Audio : Routed(a)},
                          inventory |-> Table!Registered]
            /\ pc' = "validate"
            /\ UNCHANGED <<tables, annotations, runs, exit, thread, held, loop, call>>

\* validate_pipeline_output: each audio is in exactly one partition, and the accepted
\* ones are the annotated ones and the accepted ones that failed.
PartitionsExact ==
    LET parts == <<Annotated, report.review, report.rejected, report.retry>> IN
    /\ report.inventory = UNION {parts[i] : i \in DOMAIN parts}
    /\ \A i, j \in DOMAIN parts : i # j => parts[i] \cap parts[j] = {}
    /\ report.accepted = Annotated \cup (report.retry \cap report.accepted)

\* Its checks of one final record: the route is the one of the accepted record, and
\* every stage of that route contributed.
RecordValid(a) ==
    LET record == annotations[a] IN
    /\ record[Gate] \notin Verdicts \cup {None}
    /\ record[Discogs] \in Routes /\ record[Discogs] = rows[a][Discogs].result
    /\ \A s \in FullTrack \cup (IF record[Discogs] = "song" THEN {Asr} ELSE {}) :
          record[s] \notin {None, "empty"}

OutputAccepted == PartitionsExact /\ \A a \in Annotated : RecordValid(a)

Validate == /\ pc = "validate"
            /\ Stop(IF ~OutputAccepted THEN "invalid_output"
                    ELSE IF report.retry # {} THEN "retry" ELSE "ok")
            /\ UNCHANGED <<tables, files, runs>>

-----------------------------------------------------------------------------
MainStep == \/ BeginLoop \/ TakeDone \/ TakeInvalid \/ DecodeFailed \/ Snapshot
            \/ EndScan \/ AfterWait \/ EndLoop \/ GoRound \/ Peek \/ PutBack
            \/ Finalize \/ Validate
            \/ \E r \in Records : TakeRecord(r)
            \/ \E a \in Audio : \/ Repair(a) \/ EndItem(a) \/ RaiseOnItem(a)
                                \/ WriteAnnotation(a) \/ CommitPublished(a)
                                \/ PublishRaises(a) \/ Dispatch(a) \/ PassOver(a)
                                \/ EndSubmit(a)
            \/ \E a \in Audio, s \in Stages : \/ Prepare(a, s) \/ Submit(a, s)
                                              \/ Unhealthy(a, s) \/ Collect(a, s)

Next == \/ Start \/ Crash \/ Produce \/ MainStep
        \/ \E a \in Audio : Vanish(a)
        \/ \E a \in Audio, s \in Stages : Reply(a, s)

Spec == Init /\ [][Next]_vars

\* A live process schedules its threads, and ServiceClient.infer returns or raises
\* within its timeout.  Nobody has to start a runner, and crashes are not owed.
FairSpec == /\ Spec
            /\ WF_vars(MainStep) /\ WF_vars(Produce)
            /\ \A a \in Audio, s \in Stages : WF_vars(Reply(a, s))

-----------------------------------------------------------------------------
(* Properties. *)

Row == [status : Table!StageStatus, attempt : Nat,
        input : Inputs \cup {None}, result : Results \cup {None}]

TypeOK ==
    /\ items \in [Audio -> Table!ItemRow]
    /\ rows \in [Audio -> [Stages -> Row]]
    /\ annotations \in [Audio -> Annotations \cup {None}]
    /\ runs \in 0..MaxRuns /\ pc \in PCs /\ exit \in Exits
    /\ todo \in Seq(Entries) /\ queue \in Seq(Entries) /\ held \in Entries \cup {None}
    /\ finished \in BOOLEAN /\ backlog \in BOOLEAN /\ progress \in BOOLEAN
    /\ seen \subseteq Audio /\ scan \subseteq Audio
    /\ ready \subseteq Stages /\ healthy \subseteq Stages
    /\ call \in [Audio -> [Stages -> Results \cup {None, "waiting", Error}]]

\* Each running row of a live runner has exactly one call in flight, and each call in
\* flight will find its row running: no reply is lost, and no row waits for a reply
\* that nobody is going to collect (finish_stage and fail_stage never raise).
CallsMatchRows ==
    pc # "down" =>
        \A a \in Audio, s \in Stages : call[a][s] # None <=> Is(a, s, "running")

\* At most max_inflight requests are in flight, and as many workers are busy.
InflightBounded == Cardinality(Inflight) <= MaxInflight

\* A stage row's fingerprint is the one of the record the stage would be sent now,
\* across any number of restarts: prepare_stage never raises "stage input changed"
\* and the request id of a retry is the one of the first attempt.
StageInputCurrent ==
    \A a \in Audio, s \in Stages :
        ~Is(a, s, "absent") => rows[a][s].input = InputOf(a, s)

\* No stage is prepared before everything it depends on: Discogs only for audio the gate
\* passed, the full-track stages only for a routed track, ASR only for a song whose
\* three full-track stages succeeded, and never for an instrumental.
DependenciesMet ==
    \A a \in Audio :
        /\ ~Is(a, Discogs, "absent") => PassedGate(a)
        /\ \A s \in FullTrack : ~Is(a, s, "absent") => Routed(a)
        /\ ~Is(a, Asr, "absent") => TrackComplete(a) /\ IsSong(a)

\* An annotation file, published or left by a runner that died before it could record
\* it, was built from all the stages its route requires and agrees with the tables.
AnnotationsComplete ==
    \A a \in Audio :
        annotations[a] # None => /\ Routed(a) /\ \A s \in FullTrack : Succeeded(a, s)
                                 /\ IsSong(a) => Succeeded(a, Asr)
                                 /\ annotations[a] = Annotation(a)

\* Once a run has repaired the tables, an item that is published has its file.
PublishedHasFile ==
    pc \notin {"down", "repair"} =>
        \A a \in Audio : items[a].status = "published" => annotations[a] # None

\* A stage is attempted at most once per run of the runner.
OneAttemptPerRun == \A a \in Audio, s \in Stages : rows[a][s].attempt <= runs

\* An audio that could not be decoded is never sent to a service, even when the runner
\* died between registering it and marking it failed.
UndecodedNeverServed ==
    \A a \in Audio : items[a].record # None /\ items[a].record.decode = "failed" =>
        \A s \in Stages : Is(a, s, "absent")

\* The scheduler always has something to do or to wait for: the RuntimeError "stream
\* scheduler stalled" is unreachable.
NeverStalls == exit # "stalled"

\* A run that is not cut short leaves no audio pending, and validation accepts what it
\* wrote: the four partitions are exclusive and cover the inventory, and each final record
\* has the route of its accepted record and a result of every stage of that route.
OutputValid ==
    /\ exit # "invalid_output"
    /\ exit \in {"ok", "retry"} => WithStatus("pending") = {}

\* A partition once reached is kept, except that a published item whose file is gone
\* is reopened.
TerminalIsFinal ==
    [][\A a \in Audio : items[a].status \in Terminal =>
          \/ items'[a].status = items[a].status
          \/ Unbacked(a) /\ items'[a].status = "pending"]_vars

\* The runner implements the promise made about each audio, restarts included.
LifecycleSpec == Lifecycle!Spec

\* A run that is started ends, whatever fails.
EveryRunEnds == (pc # "down") ~> (pc = "down")

\* A run whose environment does nothing worse than fail calls, with more branches ready than
\* max_inflight lets in flight, ends with valid output (EndSubmit and EndScan leave work behind
\* for a later pass of the loop).
EveryRunSucceeds == (pc # "down") ~> (pc = "down" /\ exit \in {"ok", "retry", "crash"})
=============================================================================
