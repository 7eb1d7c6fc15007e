----------------------------- MODULE BatchService -----------------------------
(***************************************************************************)
(* The resident inference service, scripts/service_api.py:                  *)
(* DynamicBatchService behind the FastAPI lifespan: loading, submit with     *)
(* its response cache and in-flight table, the batching worker, stop.        *)
(*                                                                         *)
(* All of it runs on one event loop, so a step is what the loop executes     *)
(* between two awaits that can suspend: no coroutine awaits anything while   *)
(* it holds _lock, so taking the lock never suspends and a locked section,   *)
(* with what follows it up to the next await, is one step.  The model runs   *)
(* on the executor's only thread.                                           *)
(***************************************************************************)
EXTENDS Naturals, Sequences, FiniteSets

CONSTANTS Clients,         \* connections; each has at most one request open
          Requests,        \* what may be submitted: [id, payload], a request id and a digest
          MaxBatch,        \* max_batch_size
          QueueSize,       \* queue_size
          CacheLimit,      \* _completed_limit
          CancelMayBeLost, \* may asyncio.wait_for swallow a cancellation? (Python <= 3.11)
          None

Ids == {r.id : r \in Requests}
Payloads == {r.payload : r \in Requests}

ServiceAssumption ==
    /\ Requests \subseteq [id : Ids, payload : Payloads]
    /\ MaxBatch \in Nat \ {0} /\ QueueSize \in Nat \ {0} /\ CacheLimit \in Nat \ {0}
    /\ CancelMayBeLost \in BOOLEAN
    /\ None \notin Payloads \cup Requests
ASSUME ServiceAssumption

VARIABLES state,      \* _state
          queue,      \* _queue: accepted requests the worker has not taken
          worker,     \* _batch_worker: "none", "idle", "collecting" or "inferring"
          batch,      \* items: what the worker has taken
          thread,     \* the executor's thread: "free", "load", "infer" or "cleanup"
          inflight,   \* _inflight: the payload of each request that waits for its answer
          completed,  \* _completed: payload and answer by request id
          recency,    \* the order of _completed, least recently used first
          waiting,    \* the request whose future a connection awaits
          reply       \* the response a connection got last

cache == <<completed, recency>>
server == <<state, queue, worker, batch, thread, inflight, cache>>
vars == <<server, waiting, reply>>

\* What process_batch returns for one request: which payload it is about, and whether it
\* is an error.
Answer == [about : Payloads, ok : BOOLEAN]
Entry == [payload : Payloads, answer : Answer]
\* 200 with an answer, or the status code of a ServiceError.
Response == [request : Requests, code : {200, 409, 429, 503}, answer : Answer \cup {None}]

Init == /\ state = "created" /\ queue = <<>> /\ worker = "none" /\ batch = <<>>
        /\ thread = "free" /\ inflight = [i \in Ids |-> None]
        /\ completed = [i \in Ids |-> None] /\ recency = <<>>
        /\ waiting = [c \in Clients |-> None] /\ reply = [c \in Clients |-> None]

Items(seq) == {seq[k] : k \in DOMAIN seq}

Refused(r, code) == [request |-> r, code |-> code, answer |-> None]
Answered(r, answer) == [request |-> r, code |-> 200, answer |-> answer]

\* move_to_end.
Touched(i) == Append(SelectSeq(recency, LAMBDA j : j # i), i)

\* popitem(last=False) while the cache is above its limit.
Evicted(order) == IF Len(order) > CacheLimit
                  THEN SubSeq(order, Len(order) - CacheLimit + 1, Len(order)) ELSE order

-----------------------------------------------------------------------------
(* Faulty variants: each is a plausible slip in the code that one of the     *)
(* properties below must catch.  They are not part of the specification.     *)

\* The digest stored with an answer is not compared: a request id is taken for the request.
FromCacheUnchecked(c, r) ==
    /\ state = "running" /\ completed[r.id] # None
    /\ reply' = [reply EXCEPT ![c] = Answered(r, completed[r.id].answer)]
    /\ UNCHANGED <<server, waiting>>

\* A duplicate is answered from the cache, but does not join a request in flight.
AcceptDuplicate(c, r) ==
    /\ state = "running" /\ completed[r.id] = None
    /\ Len(queue) < QueueSize
    /\ inflight' = [inflight EXCEPT ![r.id] = r.payload]
    /\ queue' = Append(queue, r)
    /\ waiting' = [waiting EXCEPT ![c] = r] /\ reply' = [reply EXCEPT ![c] = None]
    /\ UNCHANGED <<state, worker, batch, thread, cache>>

-----------------------------------------------------------------------------
(* The lifespan: load once, serve, stop. *)

Start == /\ state = "created"
         /\ state' = "starting" /\ thread' = "load"
         /\ UNCHANGED <<queue, worker, batch, inflight, cache, waiting, reply>>

Loaded == /\ state = "starting"
          /\ state' = "running" /\ thread' = "free" /\ worker' = "idle"
          /\ UNCHANGED <<queue, batch, inflight, cache, waiting, reply>>

LoadFails == /\ state = "starting"
             /\ state' = "failed" /\ thread' = "free"
             /\ UNCHANGED <<queue, worker, batch, inflight, cache, waiting, reply>>

\* stop: no new work, and the worker is cancelled wherever it awaits.  The lifespan stops
\* only what it has started.
Stop == /\ state = "running"
        /\ state' = "stopping" /\ worker' = "none" /\ batch' = <<>>
        /\ UNCHANGED <<queue, thread, inflight, cache, waiting, reply>>

\* Before Python 3.12, wait_for returns the item instead of raising when the inner get
\* has just finished: the worker never learns that it was cancelled.
StopUnnoticed == /\ CancelMayBeLost
                 /\ state = "running" /\ worker = "collecting"
                 /\ Len(batch) < MaxBatch /\ queue # <<>>
                 /\ state' = "stopping"
                 /\ batch' = Append(batch, Head(queue)) /\ queue' = Tail(queue)
                 /\ UNCHANGED <<worker, thread, inflight, cache, waiting, reply>>

\* The worker has ended: every request that still waits for its answer fails.
FailPending == /\ state = "stopping" /\ worker = "none"
               /\ \E i \in Ids : inflight[i] # None
               /\ queue' = <<>> /\ inflight' = [i \in Ids |-> None]
               /\ reply' = [c \in Clients |-> IF waiting[c] # None
                                              THEN Refused(waiting[c], 503) ELSE reply[c]]
               /\ waiting' = [c \in Clients |-> None]
               /\ UNCHANGED <<state, worker, batch, thread, cache>>

\* cleanup runs on the executor's thread, after a batch whose worker was cancelled.
Cleanup == /\ state = "stopping" /\ worker = "none" /\ thread = "free"
           /\ \A i \in Ids : inflight[i] = None
           /\ thread' = "cleanup"
           /\ UNCHANGED <<state, queue, worker, batch, inflight, cache, waiting, reply>>

Stopped == /\ state = "stopping" /\ thread = "cleanup"
           /\ state' = "stopped" /\ thread' = "free"
           /\ UNCHANGED <<queue, worker, batch, inflight, cache, waiting, reply>>

-----------------------------------------------------------------------------
(* submit: one request of a connection, in the order the code decides. *)

Open(c) == waiting[c] = None

Respond(c, response) == /\ reply' = [reply EXCEPT ![c] = response]
                        /\ UNCHANGED waiting

Await(c, r) == /\ waiting' = [waiting EXCEPT ![c] = r]
               /\ reply' = [reply EXCEPT ![c] = None]

NotReady(c, r) == /\ state # "running"
                  /\ Respond(c, Refused(r, 503))
                  /\ UNCHANGED server

\* A request id that was answered: the stored answer, or 409 for another payload.
FromCache(c, r) ==
    /\ state = "running" /\ completed[r.id] # None
    /\ IF completed[r.id].payload = r.payload
       THEN /\ Respond(c, Answered(r, completed[r.id].answer))
            /\ recency' = Touched(r.id)
       ELSE Respond(c, Refused(r, 409)) /\ UNCHANGED recency
    /\ UNCHANGED <<state, queue, worker, batch, thread, inflight, completed>>

\* A request id that is being answered: its future, or 409 for another payload.
Join(c, r) ==
    /\ state = "running" /\ completed[r.id] = None /\ inflight[r.id] # None
    /\ IF inflight[r.id] = r.payload THEN Await(c, r) ELSE Respond(c, Refused(r, 409))
    /\ UNCHANGED server

QueueFull(c, r) ==
    /\ state = "running" /\ completed[r.id] = None /\ inflight[r.id] = None
    /\ Len(queue) = QueueSize
    /\ Respond(c, Refused(r, 429))
    /\ UNCHANGED server

Accept(c, r) ==
    /\ state = "running" /\ completed[r.id] = None /\ inflight[r.id] = None
    /\ Len(queue) < QueueSize
    /\ inflight' = [inflight EXCEPT ![r.id] = r.payload]
    /\ queue' = Append(queue, r)
    /\ Await(c, r)
    /\ UNCHANGED <<state, worker, batch, thread, cache>>

Submit(c, r) == Open(c) /\ \/ NotReady(c, r) \/ FromCache(c, r) \/ Join(c, r)
                           \/ QueueFull(c, r) \/ Accept(c, r)

\* The connection is lost or the client times out.  The future is shielded: the request
\* goes on without it.
GiveUp(c) == /\ ~Open(c)
             /\ waiting' = [waiting EXCEPT ![c] = None]
             /\ UNCHANGED <<server, reply>>

-----------------------------------------------------------------------------
(* _batch_worker. *)

Take(from) == /\ worker = from /\ queue # <<>>
              /\ batch' = Append(batch, Head(queue)) /\ queue' = Tail(queue)
              /\ worker' = "collecting"
              /\ UNCHANGED <<state, thread, inflight, cache, waiting, reply>>

TakeFirst == Take("idle")
TakeMore == Len(batch) < MaxBatch /\ Take("collecting")

\* The batch is full, or max_wait_ms is over.
Infer == /\ worker = "collecting" /\ thread = "free"
         /\ worker' = "inferring" /\ thread' = "infer"
         /\ UNCHANGED <<state, queue, batch, inflight, cache, waiting, reply>>

BatchIds == {batch[k].id : k \in DOMAIN batch}

\* What is stored for a request of the batch, given the answers of the batch.
Given(answers, i) == LET k == CHOOSE k \in DOMAIN batch : batch[k].id = i
                     IN [payload |-> batch[k].payload, answer |-> answers[k]]

\* process_batch returns one value per request, or raises for all of them; then
\* _complete_item and the loop over the items, which never suspend.
Complete(answers) ==
    LET order == Evicted(SelectSeq(recency, LAMBDA i : i \notin BatchIds)
                            \o [k \in DOMAIN batch |-> batch[k].id])
    IN /\ inflight' = [i \in Ids |-> IF i \in BatchIds THEN None ELSE inflight[i]]
       /\ recency' = order
       /\ completed' = [i \in Ids |-> IF i \notin Items(order) THEN None
                                      ELSE IF i \in BatchIds THEN Given(answers, i)
                                      ELSE completed[i]]
       /\ reply' = [c \in Clients |-> IF ~Open(c) /\ waiting[c].id \in BatchIds
                                      THEN Answered(waiting[c], Given(answers, waiting[c].id).answer)
                                      ELSE reply[c]]
       /\ waiting' = [c \in Clients |-> IF ~Open(c) /\ waiting[c].id \in BatchIds
                                        THEN None ELSE waiting[c]]

BatchDone ==
    /\ worker = "inferring" /\ thread = "infer"
    /\ \E ok \in [DOMAIN batch -> BOOLEAN] :
          Complete([k \in DOMAIN batch |-> [about |-> batch[k].payload, ok |-> ok[k]]])
    /\ worker' = "idle" /\ batch' = <<>> /\ thread' = "free"
    /\ UNCHANGED <<state, queue>>

\* The batch of a cancelled worker ends, and nobody wants its answers.
BatchDropped == /\ worker = "none" /\ thread = "infer"
                /\ thread' = "free"
                /\ UNCHANGED <<state, queue, worker, batch, inflight, cache, waiting, reply>>

-----------------------------------------------------------------------------
Worker == TakeFirst \/ TakeMore \/ Infer \/ BatchDone \/ BatchDropped
Stopping == FailPending \/ Cleanup \/ Stopped

Next == \/ Start \/ Loaded \/ LoadFails \/ Stop \/ StopUnnoticed \/ Stopping \/ Worker
        \/ \E c \in Clients : \/ \E r \in Requests : Submit(c, r)
                             \/ GiveUp(c)

Spec == Init /\ [][Next]_vars

-----------------------------------------------------------------------------
(* Properties. *)

States == {"created", "starting", "running", "failed", "stopping", "stopped"}

TypeOK ==
    /\ state \in States /\ worker \in {"none", "idle", "collecting", "inferring"}
    /\ thread \in {"free", "load", "infer", "cleanup"}
    /\ queue \in Seq(Requests) /\ batch \in Seq(Requests)
    /\ Len(queue) <= QueueSize /\ Len(batch) <= MaxBatch
    /\ inflight \in [Ids -> Payloads \cup {None}]
    /\ completed \in [Ids -> Entry \cup {None}]
    /\ recency \in Seq(Ids) /\ Len(recency) <= CacheLimit
    /\ waiting \in [Clients -> Requests \cup {None}]
    /\ reply \in [Clients -> Response \cup {None}]

\* What the worker has still to answer, in the order it will.
Ahead == batch \o queue

\* A request id is inferred at most once at a time, and never while its answer is cached:
\* the in-flight table holds exactly the requests the live worker has still to answer,
\* each of them there once, and none that is answered.
NeverInferredTwice ==
    worker # "none" =>
        /\ \A j, k \in DOMAIN Ahead : j # k => Ahead[j].id # Ahead[k].id
        /\ \A k \in DOMAIN Ahead : inflight[Ahead[k].id] = Ahead[k].payload
        /\ \A i \in Ids : inflight[i] # None =>
              completed[i] = None /\ \E k \in DOMAIN Ahead : Ahead[k].id = i

\* Every connection that awaits a future awaits one that somebody still has to resolve,
\* also after the worker was cancelled, and never the future of another payload.
NobodyForgotten ==
    \A c \in Clients : ~Open(c) => inflight[waiting[c].id] = waiting[c].payload

\* Nobody is given, from a batch, a joined future or the cache, the answer to another
\* payload than the one sent.
AnswersMatch ==
    \A c \in Clients : reply[c] # None /\ reply[c].code = 200 =>
        reply[c].answer.about = reply[c].request.payload

=============================================================================
