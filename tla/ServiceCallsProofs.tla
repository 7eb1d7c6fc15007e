-------------------------- MODULE ServiceCallsProofs --------------------------
(***************************************************************************)
(* Proofs about BatchService, for any connections, requests and sizes, and  *)
(* about ServiceCalls, for any threads, requests, retries and runs.         *)
(*                                                                         *)
(* Of the service: it infers nothing twice, answers match, nobody who waits  *)
(* is forgotten.  The order of the cache plays no part: which answers are    *)
(* evicted is the only thing it decides, and an evicted answer harms none of  *)
(* these.  Of the composition: it uses the service through its operations    *)
(* only, so all that holds under the runner; every outcome the runner keeps is *)
(* the answer to its own request; and a success is never lost.               *)
(***************************************************************************)
EXTENDS ServiceCalls, TLAPS

(* The service. *)

(* Types, as far as the proofs need them. *)

Typed ==
    /\ queue \in Seq(Requests) /\ batch \in Seq(Requests)
    /\ inflight \in [Ids -> Payloads \cup {None}]
    /\ completed \in [Ids -> Entry \cup {None}]
    /\ waiting \in [Clients -> Requests \cup {None}]
    /\ reply \in [Clients -> Response \cup {None}]

\* The worker lives from Loaded to Stop, and longer when it is not told to end; before
\* that nothing was accepted.
Lives ==
    /\ state = "running" => worker # "none"
    /\ worker # "none" => state \in {"running", "stopping"}
    /\ worker \in {"none", "idle"} => batch = <<>>
    /\ thread = "cleanup" => worker = "none"
    /\ state \in {"created", "starting"} =>
          worker = "none" /\ queue = <<>> /\ \A i \in Ids : inflight[i] = None

\* A stored answer is about the payload it is stored for.
CacheMatches == \A i \in Ids : completed[i] # None =>
                    completed[i].answer.about = completed[i].payload

SInv == Typed /\ Lives /\ NeverInferredTwice /\ NobodyForgotten /\ CacheMatches /\ AnswersMatch

LEMMA RequestFacts ==
  /\ \A r \in Requests : r.id \in Ids /\ r.payload \in Payloads /\ r.payload # None
                         /\ r = [id |-> r.id, payload |-> r.payload]
  /\ None \notin Requests /\ None \notin Payloads
<1>1. None \notin Requests /\ None \notin Payloads
  BY ServiceAssumption DEF ServiceAssumption
<1>2. ASSUME NEW r \in Requests
      PROVE  r.id \in Ids /\ r.payload \in Payloads
  BY DEF Ids, Payloads
<1>3. ASSUME NEW r \in Requests
      PROVE  r = [id |-> r.id, payload |-> r.payload]
  <2>1. r \in [id : Ids, payload : Payloads]
    BY ServiceAssumption DEF ServiceAssumption
  <2> QED BY <2>1
<1>4. ASSUME NEW r \in Requests PROVE r.payload # None
  BY <1>1, <1>2, <1>4
<1> QED BY <1>1, <1>2, <1>3, <1>4

LEMMA InitSInv == Init => SInv
<1> SUFFICES ASSUME Init PROVE SInv
  OBVIOUS
<1>1. Typed
  BY DEF Init, Typed
<1>2. Lives
  BY DEF Init, Lives
<1>3. NeverInferredTwice
  BY DEF Init, NeverInferredTwice
<1>4. NobodyForgotten /\ AnswersMatch
  BY DEF Init, NobodyForgotten, Open, AnswersMatch
<1>5. CacheMatches
  BY DEF Init, CacheMatches
<1> QED BY <1>1, <1>2, <1>3, <1>4, <1>5 DEF SInv

-----------------------------------------------------------------------------
(* What the worker has ahead of it. *)

LEMMA AheadTyped == ASSUME Typed PROVE Ahead \in Seq(Requests)
BY DEF Typed, Ahead

\* The elements of Ahead: first the batch, then the queue.
LEMMA AheadParts ==
  ASSUME Typed
  PROVE  /\ Len(Ahead) = Len(batch) + Len(queue)
         /\ DOMAIN Ahead = 1 .. Len(batch) + Len(queue)
         /\ \A k \in DOMAIN batch : k \in DOMAIN Ahead /\ Ahead[k] = batch[k]
         /\ \A k \in DOMAIN queue : /\ Len(batch) + k \in DOMAIN Ahead
                                    /\ Ahead[Len(batch) + k] = queue[k]
BY DEF Typed, Ahead

\* What a live worker has ahead is in flight.
LEMMA HeldIsInflight ==
  ASSUME SInv, worker # "none", NEW k \in DOMAIN Ahead
  PROVE  /\ Ahead[k] \in Requests /\ Ahead[k].id \in Ids
         /\ inflight[Ahead[k].id] = Ahead[k].payload /\ inflight[Ahead[k].id] # None
<1>1. Ahead[k] \in Requests
  BY AheadTyped DEF SInv
<1> QED BY <1>1, RequestFacts DEF SInv, NeverInferredTwice

\* Taking a request moves it from the queue to the batch, and changes nothing ahead.
LEMMA TakeKeepsAhead ==
  ASSUME NEW b \in Seq(Requests), NEW q \in Seq(Requests), q # <<>>
  PROVE  /\ Append(b, Head(q)) \in Seq(Requests) /\ Tail(q) \in Seq(Requests)
         /\ Append(b, Head(q)) \o Tail(q) = b \o q
<1>1. Head(q) \in Requests /\ Tail(q) \in Seq(Requests) /\ Len(Tail(q)) = Len(q) - 1
  OBVIOUS
<1>2. Append(b, Head(q)) \in Seq(Requests) /\ Len(Append(b, Head(q))) = Len(b) + 1
  BY <1>1
<1> DEFINE l == Append(b, Head(q)) \o Tail(q)
           m == b \o q
<1>3. l \in Seq(Requests) /\ Len(l) = Len(b) + Len(q)
  BY <1>1, <1>2
<1>4. m \in Seq(Requests) /\ Len(m) = Len(b) + Len(q)
  OBVIOUS
<1>5. ASSUME NEW k \in 1 .. Len(b) + Len(q) PROVE l[k] = m[k]
  BY <1>1, <1>2, <1>5
<1>6. l = m
  BY <1>3, <1>4, <1>5
<1> QED BY <1>1, <1>2, <1>6

LEMMA AcceptExtends ==
  ASSUME NEW b \in Seq(Requests), NEW q \in Seq(Requests), NEW r \in Requests
  PROVE  b \o Append(q, r) = Append(b \o q, r)
<1> DEFINE l == b \o Append(q, r)
           m == Append(b \o q, r)
<1>1. l \in Seq(Requests) /\ Len(l) = Len(b) + Len(q) + 1
  OBVIOUS
<1>2. m \in Seq(Requests) /\ Len(m) = Len(b) + Len(q) + 1
  OBVIOUS
<1>3. ASSUME NEW k \in 1 .. Len(b) + Len(q) + 1 PROVE l[k] = m[k]
  BY <1>3
<1> QED BY <1>1, <1>2, <1>3

-----------------------------------------------------------------------------
(* The steps that leave the cache alone. *)

\* Steps that move a request, or a state, but resolve no future and answer nobody.
LEMMA QuietStep ==
  ASSUME SInv, Lives', Typed',
         UNCHANGED <<inflight, completed, waiting, reply>>,
         worker' # "none" => worker # "none" /\ Ahead' = Ahead
  PROVE  SInv'
<1>1. NeverInferredTwice'
  BY DEF SInv, NeverInferredTwice
<1>2. NobodyForgotten' /\ CacheMatches' /\ AnswersMatch'
  BY DEF SInv, NobodyForgotten, Open, CacheMatches, AnswersMatch
<1> QED BY <1>1, <1>2 DEF SInv

LEMMA TakeStep ==
  ASSUME SInv, NEW from \in {"idle", "collecting"}, Take(from)
  PROVE  SInv'
<1>1. /\ Append(batch, Head(queue)) \in Seq(Requests) /\ Tail(queue) \in Seq(Requests)
      /\ Append(batch, Head(queue)) \o Tail(queue) = batch \o queue
  BY TakeKeepsAhead DEF SInv, Typed, Take
<1>2. Typed'
  BY <1>1 DEF SInv, Typed, Take, cache
<1>3. Ahead' = Ahead
  BY <1>1 DEF Ahead, Take
<1>4. Lives'
  BY DEF SInv, Lives, Take
<1> QED BY <1>2, <1>3, <1>4, QuietStep DEF Take, cache

LEMMA UnnoticedStep ==
  ASSUME SInv, StopUnnoticed
  PROVE  SInv'
<1>1. /\ Append(batch, Head(queue)) \in Seq(Requests) /\ Tail(queue) \in Seq(Requests)
      /\ Append(batch, Head(queue)) \o Tail(queue) = batch \o queue
  BY TakeKeepsAhead DEF SInv, Typed, StopUnnoticed
<1>2. Typed'
  BY <1>1 DEF SInv, Typed, StopUnnoticed, cache
<1>3. Ahead' = Ahead
  BY <1>1 DEF Ahead, StopUnnoticed
<1>4. Lives'
  BY DEF SInv, Lives, StopUnnoticed
<1> QED BY <1>2, <1>3, <1>4, QuietStep DEF StopUnnoticed, cache

\* Steps of the life cycle and of the worker that move neither queue nor batch, and the
\* start of the worker, which finds nothing ahead of it.
LEMMA LifeStep ==
  ASSUME SInv,
         Start \/ Loaded \/ LoadFails \/ Stop \/ Infer \/ Cleanup \/ Stopped \/ BatchDropped
  PROVE  SInv'
<1>1. Typed' /\ UNCHANGED <<queue, inflight, completed, waiting, reply>>
  <2>1. UNCHANGED <<queue, inflight, completed, waiting, reply>>
    BY DEF Start, Loaded, LoadFails, Stop, Infer, Cleanup, Stopped, BatchDropped, cache
  <2>2. batch' \in {batch, <<>>}
    BY DEF Start, Loaded, LoadFails, Stop, Infer, Cleanup, Stopped, BatchDropped
  <2>3. batch' \in Seq(Requests)
    <3>1. <<>> \in Seq(Requests)
      OBVIOUS
    <3> QED BY <2>2, <3>1 DEF SInv, Typed
  <2> QED BY <2>1, <2>3 DEF SInv, Typed
<1>2. Lives'
  <2>1. CASE Start \/ Loaded \/ LoadFails
    BY <2>1 DEF SInv, Lives, Start, Loaded, LoadFails
  <2>2. CASE Stop \/ Infer
    BY <2>2 DEF SInv, Lives, Stop, Infer
  <2>3. CASE Cleanup \/ Stopped \/ BatchDropped
    BY <2>3 DEF SInv, Lives, Cleanup, Stopped, BatchDropped
  <2> QED BY <2>1, <2>2, <2>3
<1>3. CASE Loaded
  <2>1. batch' = <<>> /\ queue' = <<>> /\ \A i \in Ids : inflight'[i] = None
    BY <1>3 DEF SInv, Lives, Loaded
  <2>2. Ahead' = <<>>
    BY <2>1 DEF Ahead
  <2>3. NeverInferredTwice'
    BY <2>1, <2>2 DEF NeverInferredTwice
  <2>4. NobodyForgotten' /\ CacheMatches' /\ AnswersMatch'
    BY <1>1 DEF SInv, NobodyForgotten, Open, CacheMatches, AnswersMatch
  <2> QED BY <1>1, <1>2, <2>3, <2>4 DEF SInv
<1>4. CASE ~Loaded
  <2>1. worker' # "none" => worker # "none" /\ batch' = batch
    BY <1>4 DEF SInv, Lives, Start, LoadFails, Stop, Infer, Cleanup, Stopped, BatchDropped
  <2>2. worker' # "none" => worker # "none" /\ Ahead' = Ahead
    BY <1>1, <2>1 DEF Ahead
  <2> QED BY <1>1, <1>2, <2>2, QuietStep
<1> QED BY <1>3, <1>4

\* stop fails what is pending, after the worker has ended.
LEMMA FailStep ==
  ASSUME SInv, FailPending
  PROVE  SInv'
<1>1. \A c \in Clients : waiting[c] # None => Refused(waiting[c], 503) \in Response
  BY DEF SInv, Typed, Refused, Response
<1>2. Typed'
  BY <1>1 DEF SInv, Typed, FailPending, cache
<1>3. Lives' /\ NeverInferredTwice' /\ CacheMatches'
  BY DEF SInv, Lives, NeverInferredTwice, CacheMatches, FailPending, cache
<1>4. NobodyForgotten'
  BY DEF SInv, NobodyForgotten, Open, FailPending
<1>5. AnswersMatch'
  BY DEF SInv, AnswersMatch, Refused, FailPending
<1> QED BY <1>2, <1>3, <1>4, <1>5 DEF SInv

-----------------------------------------------------------------------------
(* submit. *)

\* Steps that only answer one connection, correctly, and leave every future alone.
LEMMA RespondStep ==
  ASSUME SInv, NEW c \in Clients, NEW response \in Response, Respond(c, response),
         UNCHANGED <<state, queue, worker, batch, thread, inflight, completed>>,
         response.code = 200 => response.answer.about = response.request.payload
  PROVE  SInv'
<1>1. Typed'
  BY DEF SInv, Typed, Respond
<1>2. Ahead' = Ahead /\ Lives' /\ NobodyForgotten' /\ CacheMatches'
  BY DEF SInv, Lives, Ahead, NobodyForgotten, Open, CacheMatches, Respond
<1>3. NeverInferredTwice'
  BY <1>2 DEF SInv, NeverInferredTwice
<1>4. AnswersMatch'
  BY DEF SInv, Typed, AnswersMatch, Respond
<1> QED BY <1>1, <1>2, <1>3, <1>4 DEF SInv

LEMMA RefusedIsResponse ==
  ASSUME NEW r \in Requests, NEW code \in {409, 429, 503}
  PROVE  Refused(r, code) \in Response /\ Refused(r, code).code # 200
BY DEF Refused, Response

\* Another connection waits for a request that is in flight.
LEMMA JoinStep ==
  ASSUME SInv, NEW c \in Clients, NEW r \in Requests, Await(c, r), UNCHANGED server,
         inflight[r.id] = r.payload
  PROVE  SInv'
<1> USE DEF server, cache
<1>1. Typed'
  BY DEF SInv, Typed, Await
<1>2. Ahead' = Ahead /\ Lives' /\ CacheMatches'
  BY DEF SInv, Lives, Ahead, CacheMatches
<1>3. NeverInferredTwice'
  BY <1>2 DEF SInv, NeverInferredTwice
<1>4. NobodyForgotten'
  BY DEF SInv, Typed, NobodyForgotten, Open, Await
<1>5. AnswersMatch'
  BY DEF SInv, Typed, AnswersMatch, Await
<1> QED BY <1>1, <1>2, <1>3, <1>4, <1>5 DEF SInv

\* A new request: nobody waits under its id, it is not cached, and nothing ahead has it.
LEMMA AcceptStep ==
  ASSUME SInv, NEW c \in Clients, NEW r \in Requests, Open(c), Accept(c, r)
  PROVE  SInv'
<1>1. /\ r.id \in Ids /\ r.payload \in Payloads /\ r.payload # None
      /\ r = [id |-> r.id, payload |-> r.payload]
  BY RequestFacts
<1>2. /\ inflight[r.id] = None /\ completed[r.id] = None /\ worker # "none"
      /\ UNCHANGED <<state, worker, batch, thread, completed>>
      /\ queue' = Append(queue, r) /\ inflight' = [inflight EXCEPT ![r.id] = r.payload]
  BY DEF SInv, Lives, Accept, cache
<1>3. Typed'
  BY <1>1, <1>2 DEF SInv, Typed, Accept, Await
<1>4. Lives'
  BY <1>2 DEF SInv, Lives, Accept
<1>5. NeverInferredTwice'
  <2>1. Ahead \in Seq(Requests) /\ Ahead' = Append(Ahead, r)
    BY <1>2, AheadTyped, AcceptExtends DEF SInv, Typed, Ahead
  <2> DEFINE n == Len(Ahead)
  <2>2. /\ n \in Nat /\ DOMAIN Ahead = 1..n /\ DOMAIN Ahead' = 1..n+1
        /\ Ahead'[n+1] = r /\ \A k \in 1..n : Ahead'[k] = Ahead[k]
    BY <2>1
  <2>3. \A k \in 1..n : Ahead[k].id # r.id
    BY <1>2, <2>2, HeldIsInflight
  <2>4. \A j, k \in DOMAIN Ahead' : j # k => Ahead'[j].id # Ahead'[k].id
    BY <1>2, <2>2, <2>3 DEF SInv, NeverInferredTwice
  <2>5. ASSUME NEW k \in DOMAIN Ahead'
        PROVE  inflight'[Ahead'[k].id] = Ahead'[k].payload
    <3>1. CASE k = n + 1
      BY <1>1, <1>2, <2>2, <3>1 DEF SInv, Typed
    <3>2. CASE k \in 1..n
      <4>1. /\ Ahead[k].id \in Ids /\ inflight[Ahead[k].id] = Ahead[k].payload
            /\ Ahead'[k] = Ahead[k] /\ Ahead[k].id # r.id
        BY <1>2, <2>2, <2>3, <3>2, HeldIsInflight
      <4> QED BY <1>2, <4>1 DEF SInv, Typed
    <3> QED BY <2>2, <3>1, <3>2
  <2>6. ASSUME NEW i \in Ids, inflight'[i] # None
        PROVE  completed'[i] = None /\ \E k \in DOMAIN Ahead' : Ahead'[k].id = i
    <3>1. CASE i = r.id
      BY <1>2, <2>2, <3>1
    <3>2. CASE i # r.id
      <4>1. inflight[i] # None
        BY <1>2, <2>6, <3>2 DEF SInv, Typed
      <4>2. completed[i] = None /\ \E k \in DOMAIN Ahead : Ahead[k].id = i
        BY <1>2, <4>1 DEF SInv, NeverInferredTwice
      <4> QED BY <1>2, <2>2, <4>2
    <3> QED BY <3>1, <3>2
  <2> QED BY <2>4, <2>5, <2>6 DEF NeverInferredTwice
<1>6. NobodyForgotten'
  <2>1. ASSUME NEW d \in Clients, waiting'[d] # None
        PROVE  inflight'[waiting'[d].id] = waiting'[d].payload
    <3>1. CASE d = c
      BY <1>1, <1>2, <3>1 DEF SInv, Typed, Accept, Await
    <3>2. CASE d # c
      <4>1. waiting'[d] = waiting[d] /\ waiting[d] \in Requests
        BY <2>1, <3>2 DEF SInv, Typed, Accept, Await
      <4>2. inflight[waiting[d].id] = waiting[d].payload /\ waiting[d].payload # None
        BY <2>1, <4>1, RequestFacts DEF SInv, NobodyForgotten, Open
      <4> QED BY <1>2, <4>1, <4>2, RequestFacts DEF SInv, Typed
    <3> QED BY <3>1, <3>2
  <2> QED BY <2>1 DEF NobodyForgotten, Open
<1>7. CacheMatches'
  BY <1>2 DEF SInv, CacheMatches
<1>8. AnswersMatch'
  BY DEF SInv, Typed, AnswersMatch, Accept, Await
<1> QED BY <1>3, <1>4, <1>5, <1>6, <1>7, <1>8 DEF SInv

LEMMA SubmitStep ==
  ASSUME SInv, NEW c \in Clients, NEW r \in Requests, Submit(c, r)
  PROVE  SInv'
<1>1. CASE NotReady(c, r)
  BY <1>1, RefusedIsResponse, RespondStep DEF NotReady, server, cache
<1>2. CASE QueueFull(c, r)
  BY <1>2, RefusedIsResponse, RespondStep DEF QueueFull, server, cache
<1>3. CASE Join(c, r)
  BY <1>3, RefusedIsResponse, RespondStep, JoinStep DEF Join, server, cache
<1>4. CASE FromCache(c, r)
  <2>1. CASE completed[r.id].payload = r.payload
    <3> DEFINE response == Answered(r, completed[r.id].answer)
    <3>1. r.id \in Ids /\ completed[r.id] \in Entry
      BY <1>4, RequestFacts DEF SInv, Typed, FromCache
    <3>2. response \in Response /\ response.answer.about = response.request.payload
      BY <1>4, <2>1, <3>1 DEF SInv, CacheMatches, FromCache, Answered, Response, Entry
    <3>3. Respond(c, response)
      BY <1>4, <2>1 DEF FromCache
    <3> QED BY <1>4, <3>2, <3>3, RespondStep DEF FromCache
  <2>2. CASE completed[r.id].payload # r.payload
    <3>1. Respond(c, Refused(r, 409))
      BY <1>4, <2>2 DEF FromCache
    <3> QED BY <1>4, <3>1, RefusedIsResponse, RespondStep DEF FromCache
  <2> QED BY <2>1, <2>2
<1>5. CASE Accept(c, r)
  BY <1>5, AcceptStep DEF Submit
<1> QED BY <1>1, <1>2, <1>3, <1>4, <1>5 DEF Submit

LEMMA GiveUpStep ==
  ASSUME SInv, NEW c \in Clients, GiveUp(c)
  PROVE  SInv'
<1> USE DEF server, cache
<1>1. Typed'
  BY DEF SInv, Typed, GiveUp
<1>2. Ahead' = Ahead /\ Lives' /\ CacheMatches' /\ AnswersMatch'
  BY DEF SInv, Lives, Ahead, CacheMatches, AnswersMatch, GiveUp
<1>3. NeverInferredTwice'
  BY <1>2 DEF SInv, NeverInferredTwice, GiveUp
<1>4. NobodyForgotten'
  BY DEF SInv, Typed, NobodyForgotten, Open, GiveUp
<1> QED BY <1>1, <1>2, <1>3, <1>4 DEF SInv

-----------------------------------------------------------------------------
(* A batch ends: the only step that resolves futures and stores answers. *)

\* What a batch makes has the fields it must have.
LEMMA AnswerFields ==
  ASSUME NEW p \in Payloads, NEW b \in BOOLEAN
  PROVE  [about |-> p, ok |-> b] \in Answer
BY Zenon DEF Answer

LEMMA EntryFields ==
  ASSUME NEW p \in Payloads, NEW a \in Answer
  PROVE  [payload |-> p, answer |-> a] \in Entry
BY Zenon DEF Entry

\* The answer a waiting connection is given is about the payload it sent.
LEMMA GivenFits ==
  ASSUME SInv, worker # "none", NEW ok \in [DOMAIN batch -> BOOLEAN], NEW i \in BatchIds,
         NEW answers, answers = [k \in DOMAIN batch |-> [about |-> batch[k].payload, ok |-> ok[k]]]
  PROVE  /\ Given(answers, i) \in Entry
         /\ Given(answers, i).answer.about = Given(answers, i).payload
         /\ Given(answers, i).payload = inflight[i]
<1> DEFINE place == CHOOSE k \in DOMAIN batch : batch[k].id = i
<1>1. place \in DOMAIN batch /\ batch[place].id = i
  BY DEF BatchIds
<1>2. place \in DOMAIN Ahead /\ Ahead[place] = batch[place]
  BY <1>1, AheadParts DEF SInv
<1>3. batch[place] \in Requests /\ inflight[i] = batch[place].payload
  BY <1>1, <1>2, HeldIsInflight
<1>4. answers[place] = [about |-> batch[place].payload, ok |-> ok[place]]
  BY <1>1
<1>5. batch[place].payload \in Payloads /\ ok[place] \in BOOLEAN
  BY <1>1, <1>3, RequestFacts
<1>6. Given(answers, i) = [payload |-> batch[place].payload, answer |-> answers[place]]
  BY DEF Given
<1> HIDE DEF place
<1>7. answers[place] \in Answer
  <2>1. [about |-> batch[place].payload, ok |-> ok[place]] \in Answer
    BY <1>5, AnswerFields
  <2> QED BY <1>4, <2>1, Zenon
<1>8. answers[place].about = batch[place].payload
  BY <1>4
<1>9. Given(answers, i) \in Entry
  <2>1. [payload |-> batch[place].payload, answer |-> answers[place]] \in Entry
    BY <1>5, <1>7, EntryFields
  <2> QED BY <1>6, <2>1, Zenon
<1> QED BY <1>3, <1>6, <1>8, <1>9

LEMMA BatchStep ==
  ASSUME SInv, BatchDone
  PROVE  SInv'
<1>1. PICK ok \in [DOMAIN batch -> BOOLEAN] :
         Complete([k \in DOMAIN batch |-> [about |-> batch[k].payload, ok |-> ok[k]]])
  BY DEF BatchDone
<1> DEFINE answers == [k \in DOMAIN batch |-> [about |-> batch[k].payload, ok |-> ok[k]]]
           given(i) == Given(answers, i)
<1>2. /\ inflight' = [i \in Ids |-> IF i \in BatchIds THEN None ELSE inflight[i]]
      /\ \E kept : completed' = [i \in Ids |-> IF i \notin kept THEN None
                                               ELSE IF i \in BatchIds THEN given(i)
                                               ELSE completed[i]]
      /\ reply' = [c \in Clients |-> IF ~Open(c) /\ waiting[c].id \in BatchIds
                                     THEN Answered(waiting[c], given(waiting[c].id).answer)
                                     ELSE reply[c]]
      /\ waiting' = [c \in Clients |-> IF ~Open(c) /\ waiting[c].id \in BatchIds
                                       THEN None ELSE waiting[c]]
  BY <1>1 DEF Complete
<1>3. PICK kept : completed' = [i \in Ids |-> IF i \notin kept THEN None
                                             ELSE IF i \in BatchIds THEN given(i)
                                             ELSE completed[i]]
  BY <1>2
<1>4. /\ worker # "none" /\ worker' = "idle" /\ batch' = <<>> /\ thread' = "free"
      /\ UNCHANGED <<state, queue>>
  BY DEF BatchDone
<1>5. \A i \in BatchIds : /\ given(i) \in Entry /\ given(i).answer.about = given(i).payload
                          /\ given(i).payload = inflight[i]
  BY <1>4, GivenFits
<1> HIDE DEF answers, given
<1>6. \A c \in Clients : ~Open(c) => /\ waiting[c] \in Requests
                                    /\ inflight[waiting[c].id] = waiting[c].payload
  BY DEF SInv, Typed, Open, NobodyForgotten
<1>7. \A c \in Clients : ~Open(c) /\ waiting[c].id \in BatchIds =>
         LET r == Answered(waiting[c], given(waiting[c].id).answer)
         IN  r \in Response /\ r.answer.about = r.request.payload
  BY <1>5, <1>6 DEF Answered, Response, Entry
<1>8. Typed'
  <2>1. queue' \in Seq(Requests) /\ batch' \in Seq(Requests)
    BY <1>4 DEF SInv, Typed
  <2>2. inflight' \in [Ids -> Payloads \cup {None}]
    BY <1>2 DEF SInv, Typed
  <2>3. completed' \in [Ids -> Entry \cup {None}]
    BY <1>3, <1>5 DEF SInv, Typed
  <2>4. waiting' \in [Clients -> Requests \cup {None}]
    BY <1>2 DEF SInv, Typed
  <2>5. reply' \in [Clients -> Response \cup {None}]
    BY <1>2, <1>7 DEF SInv, Typed
  <2> QED BY <2>1, <2>2, <2>3, <2>4, <2>5 DEF Typed
<1>9. Lives'
  BY <1>4 DEF SInv, Lives
<1>10. CacheMatches'
  BY <1>3, <1>5 DEF SInv, CacheMatches
<1>11. NobodyForgotten'
  BY <1>2, <1>6, RequestFacts DEF NobodyForgotten, Open
<1>12. AnswersMatch'
  BY <1>2, <1>7 DEF SInv, AnswersMatch
<1>13. NeverInferredTwice'
  <2>1. Ahead' = queue /\ queue \in Seq(Requests)
    BY <1>4 DEF SInv, Typed, Ahead
  <2>2. /\ \A k \in DOMAIN batch : k \in DOMAIN Ahead /\ Ahead[k] = batch[k]
        /\ \A k \in DOMAIN queue : /\ Len(batch) + k \in DOMAIN Ahead
                                   /\ Ahead[Len(batch) + k] = queue[k]
        /\ DOMAIN Ahead = 1 .. Len(batch) + Len(queue)
        /\ DOMAIN batch = 1 .. Len(batch) /\ DOMAIN queue = 1 .. Len(queue)
        /\ Len(batch) \in Nat /\ Len(queue) \in Nat
    BY AheadParts DEF SInv, Typed
  <2>3. \A j, k \in DOMAIN queue : j # k => queue[j].id # queue[k].id
    <3> SUFFICES ASSUME NEW j \in DOMAIN queue, NEW k \in DOMAIN queue, j # k
                 PROVE  queue[j].id # queue[k].id
      OBVIOUS
    <3>1. Len(batch) + j # Len(batch) + k
      BY <2>2
    <3> QED BY <1>4, <2>2, <3>1 DEF SInv, NeverInferredTwice
  <2>4. \A k \in DOMAIN queue : /\ queue[k].id \in Ids /\ queue[k].id \notin BatchIds
                               /\ inflight[queue[k].id] = queue[k].payload
    <3> SUFFICES ASSUME NEW k \in DOMAIN queue
                 PROVE  /\ queue[k].id \in Ids /\ queue[k].id \notin BatchIds
                        /\ inflight[queue[k].id] = queue[k].payload
      OBVIOUS
    <3>1. \A j \in DOMAIN batch : j # Len(batch) + k
      BY <2>2
    <3>2. \A j \in DOMAIN batch : batch[j].id # queue[k].id
      BY <1>4, <2>2, <3>1 DEF SInv, NeverInferredTwice
    <3>3. queue[k].id \in Ids /\ inflight[queue[k].id] = queue[k].payload
      BY <1>4, <2>2, HeldIsInflight
    <3> QED BY <3>2, <3>3 DEF BatchIds
  <2>5. ASSUME NEW i \in Ids, inflight'[i] # None
        PROVE  completed'[i] = None /\ \E k \in DOMAIN queue : queue[k].id = i
    <3>1. i \notin BatchIds /\ inflight[i] # None
      BY <1>2, <2>5
    <3>2. completed[i] = None /\ \E k \in DOMAIN Ahead : Ahead[k].id = i
      BY <1>4, <3>1 DEF SInv, NeverInferredTwice
    <3>3. PICK k \in DOMAIN Ahead : Ahead[k].id = i
      BY <3>2
    <3>4. k \notin DOMAIN batch
      BY <2>2, <3>1, <3>3 DEF BatchIds
    <3>5. k - Len(batch) \in DOMAIN queue /\ k = Len(batch) + (k - Len(batch))
      BY <2>2, <3>4
    <3>6. queue[k - Len(batch)].id = i
      BY <2>2, <3>3, <3>5
    <3> QED BY <1>3, <3>1, <3>2, <3>5, <3>6
  <2>6. \A k \in DOMAIN queue : inflight'[queue[k].id] = queue[k].payload
    BY <1>2, <2>4
  <2> QED BY <2>1, <2>3, <2>5, <2>6 DEF NeverInferredTwice
<1> QED BY <1>8, <1>9, <1>10, <1>11, <1>12, <1>13 DEF SInv

-----------------------------------------------------------------------------
LEMMA StepSInv == SInv /\ [Next]_vars => SInv'
<1> SUFFICES ASSUME SInv, [Next]_vars PROVE SInv'
  OBVIOUS
<1>1. CASE Start \/ Loaded \/ LoadFails \/ Stop
  BY <1>1, LifeStep
<1>2. CASE StopUnnoticed
  BY <1>2, UnnoticedStep
<1>3. CASE Stopping
  BY <1>3, FailStep, LifeStep DEF Stopping
<1>4. CASE Worker
  <2>1. CASE TakeFirst \/ TakeMore
    BY <2>1, TakeStep DEF TakeFirst, TakeMore
  <2>2. CASE Infer \/ BatchDropped
    BY <2>2, LifeStep
  <2>3. CASE BatchDone
    BY <2>3, BatchStep
  <2> QED BY <1>4, <2>1, <2>2, <2>3 DEF Worker
<1>5. ASSUME NEW c \in Clients, NEW r \in Requests, Submit(c, r) PROVE SInv'
  BY <1>5, SubmitStep
<1>6. ASSUME NEW c \in Clients, GiveUp(c) PROVE SInv'
  BY <1>6, GiveUpStep
<1>7. CASE UNCHANGED vars
  <2>1. UNCHANGED <<state, queue, worker, batch, thread, inflight, completed, waiting, reply>>
    BY <1>7 DEF vars, server, cache
  <2>2. Typed' /\ Lives' /\ Ahead' = Ahead
    BY <2>1 DEF SInv, Typed, Lives, Ahead
  <2> QED BY <2>1, <2>2, QuietStep
<1> QED BY <1>1, <1>2, <1>3, <1>4, <1>5, <1>6, <1>7 DEF Next

\* The invariant the theorems below rest on.
THEOREM ServiceInvariant == Spec => []SInv
BY InitSInv, StepSInv, PTL DEF Spec

\* A request id is inferred at most once at a time and never while its answer is cached:
\* _inflight is exactly what the live worker has still to answer.
THEOREM NothingIsInferredTwice == Spec => []NeverInferredTwice
<1>1. SInv => NeverInferredTwice
  BY DEF SInv
<1> QED BY <1>1, ServiceInvariant, PTL

\* Whoever awaits a future in submit awaits one that is still in _inflight, for its own
\* payload: _complete_item and stop leave no future behind.
THEOREM NobodyIsForgotten == Spec => []NobodyForgotten
<1>1. SInv => NobodyForgotten
  BY DEF SInv
<1> QED BY <1>1, ServiceInvariant, PTL

\* An answer of the service, from a batch, a joined future or the cache, is about the
\* payload that was sent.
THEOREM AnswersAlwaysMatch == Spec => []AnswersMatch
<1>1. SInv => AnswersMatch
  BY DEF SInv
<1> QED BY <1>1, ServiceInvariant, PTL

-----------------------------------------------------------------------------
(* The threads that call it and the runner that keeps their outcomes. *)

CallTyped == /\ call \in [Clients -> Call \cup {None}]
             /\ input \subseteq Requests /\ todo \subseteq Requests
             /\ values \in [Requests -> Outcome] /\ written \in [Requests -> Outcome]

\* A thread that waits, waits for the response to the request it sent last, or has it: no
\* response of an attempt it gave up can still reach it.
Attuned ==
    \A c \in Clients : call[c] # None /\ call[c].step = "wait" =>
        IF Open(c) THEN reply[c].request = call[c].request ELSE waiting[c] = call[c].request

\* A request whose success was written is not asked again by a live runner.
NotAskedAgain ==
    alive => \A r \in Requests : Succeeded(written[r]) =>
        /\ r \notin todo /\ values[r] = written[r]
        /\ \A c \in Clients : call[c] # None => call[c].request # r

RInv == CallTyped /\ Attuned /\ OutcomesAreTrue /\ NotAskedAgain

LEMMA CallFields ==
    ASSUME NEW k \in Call
    PROVE  k.request \in Requests /\ k.attempt \in 0..ClientRetries /\ k.round \in 0..RunnerRetries
BY DEF Call

LEMMA InitRInv == CallInit => RInv
<1> SUFFICES ASSUME CallInit PROVE RInv
  OBVIOUS
<1>1. input \subseteq Requests /\ todo = input
  BY CallsAssumption DEF CallInit, CallsAssumption
<1>2. CallTyped
  BY <1>1 DEF CallInit, CallTyped, NoOutcome, Outcome
<1>3. \A r \in Requests : values[r] = NoOutcome /\ written[r] = NoOutcome
  BY DEF CallInit
<1> QED BY <1>2, <1>3 DEF CallInit, RInv, Attuned, OutcomesAreTrue, NotAskedAgain, Succeeded

-----------------------------------------------------------------------------
(* What a step of the service does to the connections. *)

Undisturbed(c) == waiting'[c] = waiting[c] /\ reply'[c] = reply[c]

\* A step of the service alone leaves a connection as it is, or answers what it awaits.
LEMMA ServiceAnswers ==
    ASSUME SInv, Service, NEW c \in Clients
    PROVE  Undisturbed(c) \/ (~Open(c) /\ Open(c)' /\ reply'[c].request = waiting[c])
<1>1. CASE UNCHANGED <<waiting, reply>>
  BY <1>1 DEF Undisturbed
<1>2. CASE FailPending
  BY <1>2 DEF FailPending, Undisturbed, Open, Refused, SInv, Typed
<1>3. CASE BatchDone
  <2>1. PICK given :
          /\ reply' = [d \in Clients |-> IF ~Open(d) /\ waiting[d].id \in BatchIds
                                         THEN Answered(waiting[d], given[d]) ELSE reply[d]]
          /\ waiting' = [d \in Clients |-> IF ~Open(d) /\ waiting[d].id \in BatchIds
                                           THEN None ELSE waiting[d]]
    <3>1. PICK answers : Complete(answers)
      BY <1>3 DEF BatchDone
    <3> DEFINE g == [d \in Clients |-> Given(answers, waiting[d].id).answer]
    <3>2. \A d \in Clients : g[d] = Given(answers, waiting[d].id).answer
      OBVIOUS
    <3> HIDE DEF g
    <3>3. /\ reply' = [d \in Clients |-> IF ~Open(d) /\ waiting[d].id \in BatchIds
                                         THEN Answered(waiting[d], g[d]) ELSE reply[d]]
          /\ waiting' = [d \in Clients |-> IF ~Open(d) /\ waiting[d].id \in BatchIds
                                           THEN None ELSE waiting[d]]
      BY <3>1, <3>2 DEF Complete
    <3> QED BY <3>3
  <2> QED BY <2>1 DEF Undisturbed, Open, Answered
<1> QED BY <1>1, <1>2, <1>3
        DEF Service, Start, Loaded, LoadFails, Stop, StopUnnoticed, Stopping, Cleanup, Stopped,
            Worker, TakeFirst, TakeMore, Take, Infer, BatchDropped

\* submit leaves the other connections as they are, and its own either waits for this
\* request or has the response to it.
LEMMA SubmitAnswers ==
    ASSUME SInv, NEW c \in Clients, NEW r \in Requests, Submit(c, r)
    PROVE  /\ \A d \in Clients \ {c} : Undisturbed(d)
           /\ IF Open(c)' THEN reply'[c].request = r ELSE waiting'[c] = r
<1>1. waiting[c] = None /\ r # None
  BY RequestFacts DEF Submit, Open
<1>2. DOMAIN waiting = Clients /\ DOMAIN reply = Clients
  BY DEF SInv, Typed
<1>3. ASSUME NEW response, Respond(c, response), response.request = r
      PROVE  /\ \A d \in Clients \ {c} : Undisturbed(d)
             /\ IF Open(c)' THEN reply'[c].request = r ELSE waiting'[c] = r
  BY <1>1, <1>2, <1>3 DEF Respond, Undisturbed, Open
<1>4. ASSUME Await(c, r)
      PROVE  /\ \A d \in Clients \ {c} : Undisturbed(d)
             /\ IF Open(c)' THEN reply'[c].request = r ELSE waiting'[c] = r
  BY <1>1, <1>2, <1>4 DEF Await, Undisturbed, Open
<1>5. \A code : Refused(r, code).request = r
  BY DEF Refused
<1>6. \A answer : Answered(r, answer).request = r
  BY DEF Answered
<1>7. CASE NotReady(c, r)
  BY <1>3, <1>5, <1>7 DEF NotReady
<1>8. CASE FromCache(c, r)
  BY <1>3, <1>5, <1>6, <1>8 DEF FromCache
<1>9. CASE Join(c, r)
  BY <1>3, <1>4, <1>5, <1>9 DEF Join
<1>10. CASE QueueFull(c, r)
  BY <1>3, <1>5, <1>10 DEF QueueFull
<1>11. CASE Accept(c, r)
  BY <1>4, <1>11 DEF Accept
<1> QED BY <1>7, <1>8, <1>9, <1>10, <1>11 DEF Submit

LEMMA HangupFrees ==
    ASSUME SInv, NEW c \in Clients, Hangup(c)
    PROVE  \A d \in Clients \ {c} : Undisturbed(d)
BY DEF Hangup, GiveUp, Open, vars, Undisturbed, SInv, Typed

-----------------------------------------------------------------------------
(* The composition uses the service through its operations. *)

LEMMA StepUsesService ==
    ASSUME CallTyped, [CallNext]_callVars
    PROVE  [Next]_vars
<1>1. CASE Service /\ UNCHANGED runner
  BY <1>1 DEF Service, Next
<1>2. ASSUME NEW c \in Clients, Begin(c) \/ Receive(c)
      PROVE  UNCHANGED vars
  BY <1>2 DEF Begin, Receive
<1>3. ASSUME NEW c \in Clients, Send(c)
      PROVE  Next
  <2>1. call[c] \in Call /\ Submit(c, call[c].request)
    BY <1>3 DEF Send, CallTyped
  <2> QED BY <2>1, CallFields DEF Next
<1>4. ASSUME NEW c \in Clients, Lose(c) \/ Close(c)
      PROVE  [Next]_vars
  <2>1. Hangup(c)
    BY <1>4 DEF Lose, Close
  <2> QED BY <2>1 DEF Hangup, Next
<1>5. CASE Write \/ Die \/ RunAgain
  BY <1>5 DEF Write, Die, RunAgain
<1>6. CASE UNCHANGED callVars
  BY <1>6 DEF callVars
<1> QED BY <1>1, <1>2, <1>3, <1>4, <1>5, <1>6 DEF CallNext, Thread

-----------------------------------------------------------------------------
(* The steps of the runner. *)

\* What the end of a call does: the thread is free and keeps an outcome, or it tries again.
Ended(c, outcome) ==
    /\ call' = [call EXCEPT ![c] = None]
    /\ values' = [values EXCEPT ![call[c].request] = outcome]
Resent(c) ==
    /\ \E k \in Call : /\ k.request = call[c].request /\ k.step = "send"
                       /\ call' = [call EXCEPT ![c] = k]
    /\ UNCHANGED values

LEMMA RepeatResends ==
    ASSUME NEW c, call[c] \in Call, NEW attempt \in 0..ClientRetries,
           NEW round \in 0..RunnerRetries, Repeat(c, attempt, round)
    PROVE  Resent(c)
<1> DEFINE k == [request |-> call[c].request, step |-> "send", attempt |-> attempt, round |-> round]
<1>1. k \in Call
  BY CallFields DEF Call
<1>2. k.request = call[c].request /\ k.step = "send"
  OBVIOUS
<1> QED BY <1>1, <1>2 DEF Repeat, Resent

LEMMA RaisedEnds ==
    ASSUME NEW c, call[c] \in Call, Raised(c)
    PROVE  Resent(c) \/ Ended(c, NoOutcome)
<1>1. call[c].round \in 0..RunnerRetries /\ RunnerRetries \in Nat /\ ClientRetries \in Nat
  BY CallFields, CallsAssumption DEF CallsAssumption
<1>2. CASE call[c].round < RunnerRetries
  <2>1. call[c].round + 1 \in 0..RunnerRetries /\ 0 \in 0..ClientRetries
    BY <1>1, <1>2
  <2> QED BY <1>2, <2>1, RepeatResends DEF Raised
<1>3. CASE ~(call[c].round < RunnerRetries)
  BY <1>3 DEF Raised, Return, Ended, NoOutcome
<1> QED BY <1>2, <1>3

LEMMA RetriedEnds ==
    ASSUME NEW c, call[c] \in Call, Retried(c)
    PROVE  Resent(c) \/ Ended(c, NoOutcome)
<1>1. /\ call[c].round \in 0..RunnerRetries /\ call[c].attempt \in 0..ClientRetries
      /\ ClientRetries \in Nat
  BY CallFields, CallsAssumption DEF CallsAssumption
<1>2. CASE call[c].attempt < ClientRetries
  <2>1. call[c].attempt + 1 \in 0..ClientRetries
    BY <1>1, <1>2
  <2> QED BY <1>1, <1>2, <2>1, RepeatResends DEF Retried
<1>3. CASE ~(call[c].attempt < ClientRetries)
  BY <1>3, RaisedEnds DEF Retried
<1> QED BY <1>2, <1>3

\* A call that ends, or goes on, keeps the invariant when its outcome is true of its request.
LEMMA EndKeepsRInv ==
    ASSUME RInv, NEW c \in Clients, alive, call[c] # None,
           \/ Resent(c)
           \/ \E outcome \in Outcome :
                 /\ Ended(c, outcome)
                 /\ outcome # NoOutcome => outcome.answer.about = call[c].request.payload,
           \A d \in Clients \ {c} : Undisturbed(d),
           UNCHANGED <<input, todo, written, alive>>
    PROVE  RInv'
<1>1. call[c] \in Call /\ call[c].request \in Requests
  BY CallFields DEF RInv, CallTyped
<1>2. CASE Resent(c)
  <2>1. PICK k \in Call : /\ k.request = call[c].request /\ k.step = "send"
                          /\ call' = [call EXCEPT ![c] = k]
    BY <1>2 DEF Resent
  <2>2. UNCHANGED values
    BY <1>2 DEF Resent
  <2>3. CallTyped'
    BY <2>1, <2>2 DEF RInv, CallTyped
  <2>4. Attuned'
    BY <2>1 DEF RInv, CallTyped, Attuned, Undisturbed, Open
  <2>5. OutcomesAreTrue'
    BY <2>2 DEF RInv, OutcomesAreTrue
  <2>6. NotAskedAgain'
    BY <2>1, <2>2 DEF RInv, CallTyped, NotAskedAgain
  <2> QED BY <2>3, <2>4, <2>5, <2>6 DEF RInv
<1>3. ASSUME NEW outcome \in Outcome, Ended(c, outcome),
             outcome # NoOutcome => outcome.answer.about = call[c].request.payload
      PROVE  RInv'
  <2>1. /\ call' = [call EXCEPT ![c] = None]
        /\ values' = [values EXCEPT ![call[c].request] = outcome]
    BY <1>3 DEF Ended
  <2>2. CallTyped'
    BY <1>1, <1>3, <2>1 DEF RInv, CallTyped
  <2>3. Attuned'
    BY <2>1 DEF RInv, CallTyped, Attuned, Undisturbed, Open
  <2>4. \A r \in Requests : values'[r] = IF r = call[c].request THEN outcome ELSE values[r]
    BY <2>1 DEF RInv, CallTyped
  <2>5. OutcomesAreTrue'
    BY <1>3, <2>4 DEF RInv, OutcomesAreTrue
  <2>6. NotAskedAgain'
    BY <2>1, <2>4 DEF RInv, CallTyped, NotAskedAgain
  <2> QED BY <2>2, <2>3, <2>5, <2>6 DEF RInv
<1> QED BY <1>2, <1>3

LEMMA BeginKeepsRInv == ASSUME RInv, NEW c \in Clients, Begin(c) PROVE RInv'
<1>1. PICK r \in todo :
         /\ todo' = todo \ {r}
         /\ call' = [call EXCEPT ![c] =
                        [request |-> r, step |-> "send", attempt |-> 0, round |-> 0]]
  BY DEF Begin
<1>2. UNCHANGED <<waiting, reply, input, values, written, alive>> /\ alive
  BY DEF Begin, vars
<1> DEFINE k == [request |-> r, step |-> "send", attempt |-> 0, round |-> 0]
<1>3. r \in Requests
  BY <1>1 DEF RInv, CallTyped
<1>4. k \in Call
  BY <1>3, CallsAssumption DEF Call, CallsAssumption
<1>5. k.request = r /\ k.step = "send" /\ call' = [call EXCEPT ![c] = k]
  BY <1>1
<1> HIDE DEF k
<1>6. CallTyped'
  BY <1>1, <1>2, <1>4, <1>5 DEF RInv, CallTyped
<1>7. Attuned'
  BY <1>2, <1>5 DEF RInv, CallTyped, Attuned, Open
<1>8. OutcomesAreTrue'
  BY <1>2 DEF RInv, OutcomesAreTrue
<1>9. NotAskedAgain'
  BY <1>1, <1>2, <1>5 DEF RInv, CallTyped, NotAskedAgain
<1> QED BY <1>6, <1>7, <1>8, <1>9 DEF RInv

LEMMA SendKeepsRInv == ASSUME SInv, RInv, NEW c \in Clients, Send(c) PROVE RInv'
<1>1. call[c] \in Call /\ Submit(c, call[c].request)
      /\ UNCHANGED <<input, todo, values, written, alive>>
  BY DEF Send, RInv, CallTyped
<1> DEFINE k == [request |-> call[c].request, step |-> "wait",
                 attempt |-> call[c].attempt, round |-> call[c].round]
<1>2. k \in Call /\ k.request = call[c].request /\ call' = [call EXCEPT ![c] = k]
  BY <1>1, CallFields DEF Send, Call
<1> HIDE DEF k
<1>3. /\ \A d \in Clients \ {c} : Undisturbed(d)
      /\ IF Open(c)' THEN reply'[c].request = call[c].request
                     ELSE waiting'[c] = call[c].request
  BY <1>1, CallFields, SubmitAnswers
<1>4. CallTyped'
  BY <1>1, <1>2 DEF RInv, CallTyped
<1>5. Attuned'
  BY <1>2, <1>3 DEF RInv, CallTyped, Attuned, Undisturbed, Open
<1>6. OutcomesAreTrue'
  BY <1>1 DEF RInv, OutcomesAreTrue
<1>7. call[c] # None
  BY DEF Send
<1>8. NotAskedAgain'
  BY <1>1, <1>2, <1>7 DEF RInv, CallTyped, NotAskedAgain
<1> QED BY <1>4, <1>5, <1>6, <1>8 DEF RInv

\* The response that a waiting thread has is the response to its own request, and the
\* service answers a request about its own payload.
LEMMA ReceiveKeepsRInv == ASSUME SInv, RInv, NEW c \in Clients, Receive(c) PROVE RInv'
<1>1. /\ alive /\ call[c] # None /\ call[c].step = "wait" /\ Open(c) /\ reply[c] # None
      /\ UNCHANGED <<waiting, reply, input, todo, written, alive>>
  BY DEF Receive, Waits, vars
<1>2. call[c] \in Call /\ reply[c] \in Response
  BY <1>1 DEF RInv, CallTyped, SInv, Typed
<1>3. \A d \in Clients \ {c} : Undisturbed(d)
  BY <1>1 DEF Undisturbed
<1>4. CASE reply[c].code = 200
  <2> DEFINE outcome == [answer |-> reply[c].answer]
  <2>1. Return(c, reply[c].answer)
    BY <1>4 DEF Receive
  <2>2. outcome \in Outcome
    BY <1>2 DEF Response, Outcome
  <2>3. outcome.answer.about = call[c].request.payload
    BY <1>1, <1>4 DEF RInv, Attuned, SInv, AnswersMatch
  <2>4. Ended(c, outcome)
    BY <2>1 DEF Return, Ended
  <2> QED BY <1>1, <1>3, <2>2, <2>3, <2>4, EndKeepsRInv
<1>5. CASE reply[c].code # 200
  <2>1. Retried(c) \/ Raised(c)
    BY <1>5 DEF Receive
  <2>2. Resent(c) \/ Ended(c, NoOutcome)
    BY <1>2, <2>1, RetriedEnds, RaisedEnds
  <2>3. NoOutcome \in Outcome
    BY DEF NoOutcome, Outcome
  <2> QED BY <1>1, <1>3, <2>2, <2>3, EndKeepsRInv
<1> QED BY <1>4, <1>5

LEMMA LoseKeepsRInv == ASSUME SInv, RInv, NEW c \in Clients, Lose(c) PROVE RInv'
<1>1. alive /\ call[c] # None /\ UNCHANGED <<input, todo, written, alive>>
  BY DEF Lose, Waits
<1>2. Resent(c) \/ Ended(c, NoOutcome)
  BY <1>1, RetriedEnds DEF Lose, RInv, CallTyped
<1>3. \A d \in Clients \ {c} : Undisturbed(d)
  BY HangupFrees DEF Lose
<1>4. NoOutcome \in Outcome
  BY DEF NoOutcome, Outcome
<1> QED BY <1>1, <1>2, <1>3, <1>4, EndKeepsRInv

LEMMA CloseKeepsRInv == ASSUME SInv, RInv, NEW c \in Clients, Close(c) PROVE RInv'
<1>1. /\ ~alive /\ call' = [call EXCEPT ![c] = None]
      /\ UNCHANGED <<input, todo, values, written, alive>>
  BY DEF Close
<1>2. \A d \in Clients \ {c} : Undisturbed(d)
  BY HangupFrees DEF Close
<1>3. CallTyped'
  BY <1>1 DEF RInv, CallTyped
<1>4. Attuned'
  BY <1>1, <1>2 DEF RInv, CallTyped, Attuned, Undisturbed, Open
<1> QED BY <1>1, <1>3, <1>4 DEF RInv, OutcomesAreTrue, NotAskedAgain

LEMMA FileKeepsRInv == ASSUME RInv, Write \/ Die \/ RunAgain PROVE RInv'
<1>1. UNCHANGED <<waiting, reply, call, input>>
  BY DEF Write, Die, RunAgain, vars
<1>2. Attuned'
  BY <1>1 DEF RInv, Attuned, Open
<1>3. CASE Write \/ Die
  <2>1. UNCHANGED <<todo, values>> /\ alive' = FALSE /\ (written' = values \/ written' = written)
    BY <1>3 DEF Write, Die
  <2>2. CallTyped'
    BY <1>1, <2>1 DEF RInv, CallTyped
  <2>3. OutcomesAreTrue'
    BY <2>1 DEF RInv, OutcomesAreTrue
  <2> QED BY <1>2, <2>1, <2>2, <2>3 DEF RInv, NotAskedAgain
<1>4. CASE RunAgain
  <2>1. /\ Idle /\ values' = Reused(written) /\ todo' = Pending(written)
        /\ UNCHANGED written
    BY <1>4 DEF RunAgain
  <2>2. \A r \in Requests : values'[r] = IF Succeeded(written[r]) THEN written[r] ELSE NoOutcome
    BY <2>1 DEF Reused
  <2>3. values' \in [Requests -> Outcome]
    BY <2>1 DEF Reused, RInv, CallTyped, NoOutcome, Outcome
  <2>4. CallTyped'
    BY <1>1, <2>1, <2>3 DEF RInv, CallTyped, Pending
  <2>5. OutcomesAreTrue'
    BY <2>1, <2>2 DEF RInv, OutcomesAreTrue
  <2>6. NotAskedAgain'
    BY <1>1, <2>1, <2>2 DEF NotAskedAgain, Pending, Idle
  <2> QED BY <1>2, <2>4, <2>5, <2>6 DEF RInv
<1> QED BY <1>3, <1>4

LEMMA ServiceKeepsRInv == ASSUME SInv, RInv, Service, UNCHANGED runner PROVE RInv'
<1>1. UNCHANGED <<input, call, todo, values, written, alive>>
  BY DEF runner
<1>2. Attuned'
  <2> SUFFICES ASSUME NEW c \in Clients, call[c] # None, call[c].step = "wait"
               PROVE  IF Open(c)' THEN reply'[c].request = call[c].request
                                  ELSE waiting'[c] = call[c].request
    BY <1>1 DEF Attuned, Open
  <2> QED BY ServiceAnswers DEF RInv, Attuned, Undisturbed, Open
<1> QED BY <1>1, <1>2 DEF RInv, CallTyped, OutcomesAreTrue, NotAskedAgain

LEMMA StepRInv == SInv /\ RInv /\ [CallNext]_callVars => RInv'
<1> SUFFICES ASSUME SInv, RInv, [CallNext]_callVars PROVE RInv'
  OBVIOUS
<1>1. CASE Service /\ UNCHANGED runner
  BY <1>1, ServiceKeepsRInv
<1>2. ASSUME NEW c \in Clients, Thread(c) \/ Lose(c) \/ Close(c) PROVE RInv'
  BY <1>2, BeginKeepsRInv, SendKeepsRInv, ReceiveKeepsRInv, LoseKeepsRInv, CloseKeepsRInv
  DEF Thread
<1>3. CASE Write \/ Die \/ RunAgain
  BY <1>3, FileKeepsRInv
<1>4. CASE UNCHANGED callVars
  BY <1>4 DEF callVars, vars, runner, RInv, CallTyped, Attuned, OutcomesAreTrue, NotAskedAgain, Open
<1> QED BY <1>1, <1>2, <1>3, <1>4 DEF CallNext

LEMMA CallInvariant == CallSpec => [](SInv /\ RInv)
<1>1. CallInit => SInv /\ RInv
  BY InitSInv, InitRInv DEF CallInit
<1>2. SInv /\ RInv /\ [CallNext]_callVars => SInv' /\ RInv'
  <2>1. RInv /\ [CallNext]_callVars => [Next]_vars
    BY StepUsesService DEF RInv
  <2> QED BY <2>1, StepSInv, StepRInv
<1> QED BY <1>1, <1>2, PTL DEF CallSpec

-----------------------------------------------------------------------------
(* The theorems. *)

\* The runner's threads, its retries and its restarts use the service through submit and
\* hanging up only: ServiceCalls implements BatchService, so NothingIsInferredTwice and
\* AnswersAlwaysMatch hold of the service under the retries of service_client.py.
THEOREM CallersUseService == CallSpec => Spec
<1>1. CallInit => Init
  BY DEF CallInit
<1>2. RInv /\ [CallNext]_callVars => [Next]_vars
  BY StepUsesService DEF RInv
<1> QED BY <1>1, <1>2, CallInvariant, PTL DEF CallSpec, Spec

\* Whatever is retried, lost, joined or run again, an outcome of the runner is the answer
\* to exactly its own request (ServiceClient.infer, _infer_one).
THEOREM OutcomesAreAlwaysTrue == CallSpec => []OutcomesAreTrue
<1>1. RInv => OutcomesAreTrue
  BY DEF RInv
<1> QED BY <1>1, CallInvariant, PTL

\* A success in the output file of service_batch_infer is in every later one.
THEOREM SuccessIsAlwaysKept == CallSpec => SuccessIsKept
<1>1. ASSUME RInv, [CallNext]_callVars
      PROVE  [\A r \in Requests : Succeeded(written[r]) => written'[r] = written[r]]_callVars
  <2>1. CASE Write
    BY <1>1, <2>1 DEF Write, RInv, NotAskedAgain
  <2>2. CASE ~Write
    <3>1. UNCHANGED written
      BY <1>1, <2>2 DEF CallNext, Thread, Begin, Send, Receive, Lose, Close, Die, RunAgain,
                        runner, callVars
    <3> QED BY <3>1
  <2> QED BY <2>1, <2>2
<1> QED BY <1>1, CallInvariant, PTL DEF CallSpec, SuccessIsKept
=============================================================================
