---------------------------- MODULE ServiceBatches ----------------------------
(***************************************************************************)
(* What a resident service does with one batch (the process_batch that        *)
(* DynamicBatchService calls): Discogs decodes ahead in a pool and infers what  *)
(* fits in its frame buffer, CPU MIR deals the batch out to the threads of its   *)
(* models, SongFormer decodes one track ahead of the model, the caption proxy     *)
(* asks its upstream about all tracks at once, with retries.  BatchService         *)
(* counts on one answer for each request, in the order of the requests.           *)
(***************************************************************************)
EXTENDS Naturals, Sequences, FiniteSets, Folds

CONSTANTS Requests,
          Batches,        \* the batches that may arrive: sequences of distinct requests
          Unacceptable,   \* requests without a path, a duration or a known type
          Undecodable,    \* tracks that fail by themselves, in a decoder or in the model
          Frames,         \* Discogs patches of each track
          Prefetched, BufferedFrames,   \* of Discogs
          Workers,        \* models of CPU MIR
          Retries,        \* of the caption proxy
          MaxCallFaults       \* bound: calls of a model or an upstream that fail

ASSUME BatchesAssumption ==
    /\ \A b \in Batches : b \in Seq(Requests)
    /\ Unacceptable \subseteq Requests /\ Undecodable \subseteq Requests
    /\ Frames \in [Requests -> Nat]
    /\ {Prefetched, BufferedFrames, Workers} \subseteq Nat \ {0}
    /\ {Retries, MaxCallFaults} \subseteq Nat

Handlers == {"discogs", "music_cpu", "songformer", "alm"}

VARIABLES service,
          batch,      \* the requests of the batch, <<>> between two
          answers,    \* what the handler has put in its output: [at, of, status]
          begun,      \* positions a helper thread or a call has begun; for CPU MIR, lanes
          ended,      \* of these, the ones that are over
          current,    \* the position the handler is at, 0 without one
          buffered,   \* Discogs: positions whose frames wait for the model
          tries,      \* caption proxy: failed tries of each position
          callFaults,
          together    \* the positions of one failed call of a model (history)

batchesVars == <<service, batch, answers, begun, ended, current, buffered, tries, callFaults,
                 together>>

BatchesInit == /\ service \in Handlers /\ batch = <<>> /\ answers = {}
               /\ begun = {} /\ ended = {} /\ current = 0 /\ buffered = {}
               /\ tries = <<>> /\ callFaults = 0 /\ together = {}

Positions == DOMAIN batch
Is(s) == service = s /\ batch # <<>>
Own(i) == batch[i] \in Unacceptable \cup Undecodable
Answer(i, status) == [at |-> i, of |-> batch[i], status |-> status]
AnswersOf(is, status) == {Answer(i, status) : i \in is}
Open == Positions \ {x.at : x \in answers}
Verdict(i) == Answer(i, IF Own(i) THEN "error" ELSE "ok")

\* validate_accepted_music
Acceptable(r) == r \notin Unacceptable

\* Discogs refuses what the gate did not accept before it decodes anything.
Begin(b) ==
    /\ batch = <<>> /\ batch' = b
    /\ answers' = IF service # "discogs" THEN {}
                  ELSE {[at |-> i, of |-> b[i], status |-> "error"] :
                           i \in {j \in DOMAIN b : ~Acceptable(b[j])}}
    /\ tries' = [i \in DOMAIN b |-> 0]
    /\ UNCHANGED <<service, begun, ended, current, buffered, callFaults, together>>

\* The list is complete and goes back to DynamicBatchService.
Return == /\ batch # <<>> /\ Open = {} /\ buffered = {} /\ current = 0
          /\ batch' = <<>> /\ answers' = {} /\ begun' = {} /\ ended' = {}
          /\ tries' = <<>> /\ together' = {}
          /\ UNCHANGED <<service, current, buffered, callFaults>>

\* A call of a model for these positions succeeds, or fails for all of them.
Settles(is) == \/ /\ answers' = answers \cup {Verdict(i) : i \in is}
                  /\ UNCHANGED <<callFaults, together>>
               \/ /\ callFaults < MaxCallFaults /\ callFaults' = callFaults + 1
                  /\ answers' = answers \cup AnswersOf(is, "error")
                  /\ together' = together \cup {is}
-----------------------------------------------------------------------------
(* Helper threads. *)

\* Lane l is handed every Workers-th request, or every n-th of fewer.
Lanes == IF Len(batch) < Workers THEN Len(batch) ELSE Workers
Lane(l) == {i \in Positions : (i - 1) % Lanes = l}

\* Decoded or being decoded, and not yet seen by the handler.
Ahead == (begun \cap Open) \ (buffered \cup {current})
NextSource == CHOOSE i \in Open \ begun : \A j \in Open \ begun : i <= j

MayBegin(i) ==
    \/ /\ Is("discogs") /\ Open \ begun # {} /\ i = NextSource
       /\ Cardinality(Ahead) < Prefetched
    \/ /\ Is("songformer") /\ i \in Positions /\ i = Cardinality(begun) + 1
       /\ i <= Cardinality(answers) + 2

BeginDecode(i) == /\ MayBegin(i) /\ i \notin begun /\ begun' = begun \cup {i}
                  /\ UNCHANGED <<service, batch, answers, ended, current, buffered, tries,
                                 callFaults, together>>

EndDecode(i) == /\ batch # <<>> /\ i \in begun \ ended /\ ended' = ended \cup {i}
                /\ UNCHANGED <<service, batch, answers, begun, current, buffered, tries,
                               callFaults, together>>
-----------------------------------------------------------------------------
(* Discogs: process_discogs_batch. *)

FramesOf(is) == MapThenFoldSet(+, 0, LAMBDA i : Frames[batch[i]],
                               LAMBDA s : CHOOSE i \in s : TRUE, is)

TakeDecoded(i) == /\ Is("discogs") /\ current = 0 /\ FramesOf(buffered) < BufferedFrames
                  /\ i \in (ended \cap Open) \ buffered /\ current' = i
                  /\ UNCHANGED <<service, batch, answers, begun, ended, buffered, tries,
                                 callFaults, together>>

Fails(i) == Own(i) \/ Frames[batch[i]] \notin 1..BufferedFrames

\* flush: before a failure, before a track that does not fit, when it is full, and at the end.
MustFlush == /\ buffered # {}
             /\ \/ current # 0 /\ Fails(current)
                \/ current # 0 /\ FramesOf(buffered \cup {current}) > BufferedFrames
                \/ current = 0 /\ FramesOf(buffered) >= BufferedFrames
                \/ current = 0 /\ Open = buffered

Flush == /\ Is("discogs") /\ MustFlush /\ Settles(buffered) /\ buffered' = {}
         /\ UNCHANGED <<service, batch, begun, ended, current, tries>>

Keep == /\ Is("discogs") /\ current # 0 /\ ~MustFlush /\ current' = 0
        /\ IF Fails(current)
           THEN answers' = answers \cup {Answer(current, "error")} /\ UNCHANGED buffered
           ELSE buffered' = buffered \cup {current} /\ UNCHANGED answers
        /\ UNCHANGED <<service, batch, begun, ended, tries, callFaults, together>>
-----------------------------------------------------------------------------
(* CPU MIR: a lane is one call of generate_batch, and its answers are those of its requests. *)

\* Faulty: the answers of a lane are put one after the other.
LaneAnswersInOrder(l) ==
    {[at |-> Cardinality(answers) + Cardinality({j \in Lane(l) : j <= i}), of |-> batch[i],
      status |-> Verdict(i).status] : i \in Lane(l)}
LaneAnswers(l) == {Verdict(i) : i \in Lane(l)}

EndLane(l) ==
    /\ Is("music_cpu") /\ l \in 0..(Lanes - 1) /\ l \notin ended /\ ended' = ended \cup {l}
    /\ \/ answers' = answers \cup LaneAnswers(l) /\ UNCHANGED <<callFaults, together>>
       \/ /\ callFaults < MaxCallFaults /\ callFaults' = callFaults + 1
          /\ together' = together \cup {Lane(l)}
          /\ answers' = answers \cup AnswersOf(Lane(l), "error")
    /\ UNCHANGED <<service, batch, begun, current, buffered, tries>>
-----------------------------------------------------------------------------
(* SongFormer: one after the other. *)

InferNext(i) == /\ Is("songformer") /\ i = Cardinality(answers) + 1 /\ i \in ended
                /\ Settles({i})
                /\ UNCHANGED <<service, batch, begun, ended, current, buffered, tries>>

-----------------------------------------------------------------------------
(* The caption proxy: _infer_one, for all at once. *)

\* Faulty: a try that failed does not count.
FailedUncounted(i) == UNCHANGED tries
Failed(i) == tries' = [tries EXCEPT ![i] = @ + 1]
TriesLeft(i) == tries[i] < Retries

AskUpstream(i) ==
    /\ Is("alm") /\ i \in Open
    /\ \/ /\ ~Own(i) /\ answers' = answers \cup {Answer(i, "ok")}
          /\ UNCHANGED <<tries, callFaults, together>>
       \/ /\ Own(i) \/ callFaults < MaxCallFaults
          /\ callFaults' = IF Own(i) THEN callFaults ELSE callFaults + 1
          /\ Failed(i)
          /\ IF TriesLeft(i) THEN UNCHANGED <<answers, together>>
             ELSE /\ answers' = answers \cup {Answer(i, "error")}
                  /\ together' = together \cup {{i}}
    /\ UNCHANGED <<service, batch, begun, ended, current, buffered>>
-----------------------------------------------------------------------------
BatchesStep == \/ Return \/ Flush \/ Keep
               \/ \E i \in Positions : \/ BeginDecode(i) \/ EndDecode(i) \/ TakeDecoded(i)
                                       \/ InferNext(i) \/ AskUpstream(i)
               \/ \E l \in 0..(Workers - 1) : EndLane(l)

BatchesNext == (\E b \in Batches : Begin(b)) \/ BatchesStep

BatchesSpec == BatchesInit /\ [][BatchesNext]_batchesVars /\ WF_batchesVars(BatchesStep)
-----------------------------------------------------------------------------
Excused(i) == \/ Own(i)
              \/ \E is \in together : i \in is
              \/ service = "discogs" /\ Fails(i)

\* A batch that goes back holds exactly one answer for each request, at its place, and an error
\* only where the request was bad or shared a call of a model that failed
\* (service_api.py:350-358, serve_cpu_mir.py:100-125, serve_discogs.py:125-200).
AnswersAreOwn ==
    batch # <<>> /\ Open = {} =>
        /\ Cardinality(answers) = Len(batch)
        /\ \A x \in answers : /\ x.of = batch[x.at]
                              /\ x.status = "error" <=> Excused(x.at)

\* Every batch goes back: the threads that decode ahead, the buffer and the retries never leave
\* the handler waiting (bounded_prefetch_map, SongFormerRuntime.process_batch, _infer_one).
BatchesReturn == batch # <<>> ~> batch = <<>>
=============================================================================
