------------------------------ MODULE CascadeGate ------------------------------
(***************************************************************************)
(* The Fast Gate: scripts/fast_gate_core.py decides in two stages whether a   *)
(* track is music, and scripts/serve_fast_gate.py answers a batch of tracks   *)
(* with it.  Stage A looks at three windows of every track; stage B looks at  *)
(* five windows of the tracks stage A leaves for review.  Threads decode the  *)
(* tracks, a bounded number ahead; the main thread infers windows in batches   *)
(* that span tracks.  A call that raises is repeated for each track alone.     *)
(***************************************************************************)
EXTENDS Integers, Sequences, FiniteSets, Functions, Selections

CONSTANTS Tracks,
          Unlisted,       \* tracks whose inventory row reports a decode failure
          Undecodable,    \* tracks ffmpeg cannot decode
          Duration,       \* [Tracks -> Nat], in seconds
          Probability,    \* [Tracks -> [Nat -> 0..100]]: music probability of the window at an offset
          Window,         \* DEFAULT_WINDOW_SECONDS
          FullDecodeMax,  \* FULL_DECODE_MAX_SECONDS
          DecodeWorkers, BatchSize, StageBBatchSize,
          StageA, StageB, \* the thresholds of the stages
          MaxGpuFailures  \* bound: batches that raise

NoAnswer == "none"
Verdicts == {"accepted", "review", "rejected"}
Answers == Verdicts \cup {"invalid_asset", "error"}
Full == -1                \* in place of an offset: the decode of the whole track
StageAFractions == {10, 50, 90}
StageBFractions == {5, 25, 50, 75, 95}

GateAssumption == /\ Unlisted \subseteq Tracks /\ Undecodable \subseteq Tracks
                  /\ Window \in Nat
                  /\ Duration \in [Tracks -> Nat \ {0}]
                  /\ {DecodeWorkers, BatchSize, StageBBatchSize} \subseteq Nat \ {0}
                  /\ \A stage \in {StageA, StageB} :
                        /\ 0 <= stage.reject /\ stage.reject < stage.accept
                        /\ stage.accept <= 100
ASSUME GateAssumption

VARIABLES stage,       \* of the running call of classify_records: "idle", "A" or "B"
          members,     \* its tracks
          isolated,    \* the call is for one track, after a call for the batch raised
          todo,        \* the tracks still to classify alone
          waiting,     \* tracks the decoder has not been given
          submitted,   \* tracks it has, in order
          completed,   \* those of them it is done with
          pendingBatch,\* decoded windows to infer, <<track, offset>>
          windows,     \* decoded windows of the call's sessions
          decodes,     \* what the call's sessions had ffmpeg decode, in order
          cache,       \* per track and offset, the posterior inferred
          scoreA,      \* per track, the score of stage A
          answer, gpuFailures

gateVars == <<stage, members, isolated, todo, waiting, submitted, completed, pendingBatch,
              windows, decodes, cache, scoreA, answer, gpuFailures>>
-----------------------------------------------------------------------------
\* deterministic_offsets, in hundredths of a second: a window shorter than the track starts at a
\* fraction of the available range; a shorter track has one window.
Offset(t, f) == (IF Duration[t] > Window THEN Duration[t] - Window ELSE 0) * f
DeterministicOffsets(t, fractions) == {Offset(t, f) : f \in fractions}

Decide(thresholds, score) == IF score >= thresholds.accept THEN "accepted"
                             ELSE IF score <= thresholds.reject THEN "rejected" ELSE "review"

\* AudioSetMusicScorer.aggregate: the median of an odd number of windows.
Aggregate(probability, t, fractions) ==
    LET value == [f \in fractions |-> probability[Offset(t, f)]]
        half == Cardinality(fractions) \div 2
    IN CHOOSE v \in {value[f] : f \in fractions} :
          /\ Cardinality({f \in fractions : value[f] < v}) <= half
          /\ Cardinality({f \in fractions : value[f] > v}) <= half

\* What the cascade promises of a track, from its own windows alone.
Reference(t) == LET a == Aggregate(Probability[t], t, StageAFractions)
                    b == Aggregate(Probability[t], t, StageBFractions)
                IN IF Decide(StageA, a) = "review" THEN Decide(StageB, b) ELSE Decide(StageA, a)

Fractions == IF stage = "A" THEN StageAFractions ELSE StageBFractions
NoPosterior == [t \in Tracks |-> <<>>]

\* _infer_missing: the offsets to decode are those without a posterior, each once.
Missing(t, fractions, known) == DeterministicOffsets(t, fractions) \ DOMAIN known[t]

ToDecode(fractions, tracks, known) ==
    Only(tracks, {t \in Tracks : Missing(t, fractions, known) # {}})

Prefetch == 2 * DecodeWorkers

\* bounded_thread_map_as_completed: the first submissions.
Plan(fractions, tracks, known) ==
    LET all == ToDecode(fractions, tracks, known)
        first == IF Len(all) < Prefetch THEN Len(all) ELSE Prefetch
    IN /\ submitted' = SubSeq(all, 1, first)
       /\ waiting' = SubSeq(all, first + 1, Len(all))
       /\ completed' = {} /\ pendingBatch' = <<>>

GateInit == /\ stage = "idle" /\ members = <<>> /\ isolated = FALSE /\ todo = <<>>
            /\ waiting = <<>> /\ submitted = <<>> /\ completed = {} /\ pendingBatch = <<>>
            /\ windows = [t \in Tracks |-> {}] /\ decodes = [t \in Tracks |-> <<>>]
            /\ cache = NoPosterior /\ scoreA = [t \in Tracks |-> 0]
            /\ answer = [t \in Tracks |-> NoAnswer] /\ gpuFailures = 0
-----------------------------------------------------------------------------
\* classify_records begins: sessions and caches are its own.
Classify(tracks) == /\ stage' = "A" /\ members' = tracks
                    /\ windows' = [t \in Tracks |-> {}] /\ decodes' = [t \in Tracks |-> <<>>]
                    /\ cache' = NoPosterior /\ scoreA' = [t \in Tracks |-> 0]
                    /\ Plan(StageAFractions, tracks, NoPosterior)

\* process_fast_gate_batch: rows the inventory could not decode are rejected at once.
ProcessBatch(tracks) ==
    LET eligible == Without(tracks, Unlisted) IN
    /\ stage = "idle" /\ todo = <<>>
    /\ answer' = [t \in Tracks |-> IF t \in Range(tracks) \cap Unlisted THEN "invalid_asset"
                                   ELSE answer[t]]
    /\ isolated' = FALSE
    /\ IF eligible = <<>>
       THEN UNCHANGED <<stage, members, waiting, submitted, completed, pendingBatch, windows,
                        decodes, cache, scoreA>>
       ELSE Classify(eligible)
    /\ UNCHANGED <<todo, gpuFailures>>

\* (Faulty variant of ProcessAlone: the track stays on the list.)
ProcessAloneAgain == /\ stage = "idle" /\ todo # <<>>
                     /\ Classify(<<Head(todo)>>) /\ todo' = todo /\ isolated' = TRUE
                     /\ UNCHANGED <<answer, gpuFailures>>
\* After a batch raised, each of its tracks is classified alone.
ProcessAlone == /\ stage = "idle" /\ todo # <<>>
                /\ Classify(<<Head(todo)>>) /\ todo' = Tail(todo) /\ isolated' = TRUE
                /\ UNCHANGED <<answer, gpuFailures>>

\* The first DecodeWorkers unfinished submissions are running.
Running == LET unfinished == Without(submitted, completed)
           IN Range(SubSeq(unfinished, 1, IF Len(unfinished) < DecodeWorkers
                                          THEN Len(unfinished) ELSE DecodeWorkers))

\* (Faulty variant of DecodeStarts: a stage does not know the windows of the other.)
DecodeStartsAgain(t) == IF Duration[t] <= FullDecodeMax THEN <<Full>>
                          ELSE InOrder(Missing(t, Fractions, NoPosterior))
\* TrackWindowSession.window for each missing offset: a short track is decoded whole, once.
DecodeStarts(t) ==
    InOrder((IF Duration[t] <= FullDecodeMax THEN {Full} ELSE Missing(t, Fractions, cache))
              \ windows[t])

DecodeTrack(t) ==
    /\ stage # "idle" /\ t \in Running
    /\ completed' = completed \cup {t}
    /\ IF t \in Undecodable
       THEN UNCHANGED <<windows, decodes>>
       ELSE /\ windows' = [windows EXCEPT ![t] = @ \cup Range(DecodeStarts(t))
                                                    \cup Missing(t, Fractions, cache)]
            /\ decodes' = [decodes EXCEPT ![t] = @ \o DecodeStarts(t)]
    /\ UNCHANGED <<stage, members, isolated, todo, waiting, submitted, pendingBatch, cache,
                   scoreA, answer, gpuFailures>>

\* The call raises: a batch is taken apart, a track alone is answered.
Stop == /\ stage' = "idle" /\ waiting' = <<>> /\ submitted' = <<>> /\ completed' = {}
        /\ pendingBatch' = <<>>

Raise(kind) ==
    /\ Stop
    /\ IF isolated THEN /\ answer' = [answer EXCEPT ![members[1]] = kind] /\ todo' = todo
                   ELSE todo' = members /\ answer' = answer
    /\ UNCHANGED <<members, isolated, windows, decodes, cache, scoreA>>

Batch == IF stage = "A" THEN BatchSize ELSE StageBBatchSize
Exhausted == submitted = <<>> /\ waiting = <<>>

\* infer_pending: full batches as they fill, the rest when nothing is left to decode.
Ready == pendingBatch # <<>> /\ (Len(pendingBatch) >= Batch \/ Exhausted)

\* The main thread takes a finished track; a replacement is submitted first.
Collect(t) ==
    /\ stage # "idle" /\ t \in completed /\ Len(pendingBatch) < Batch
    /\ IF t \in Undecodable
       THEN Raise("invalid_asset")
       ELSE /\ submitted' = Without(submitted, {t})
                               \o SubSeq(waiting, 1, IF waiting = <<>> THEN 0 ELSE 1)
            /\ waiting' = SubSeq(waiting, 2, Len(waiting))
            /\ completed' = completed \ {t}
            /\ LET wanted == InOrder(Missing(t, Fractions, cache)) IN
               pendingBatch' = pendingBatch \o [i \in DOMAIN wanted |-> <<t, wanted[i]>>]
            /\ UNCHANGED <<stage, members, isolated, todo, windows, decodes, cache, scoreA, answer>>
    /\ UNCHANGED gpuFailures

\* (Faulty variant of Posteriors: the batch comes back in the reverse order.)
PosteriorsReversed(chunk) ==
    [i \in 1..Len(chunk) |->
        LET from == chunk[Len(chunk) - i + 1] IN <<chunk[i], Probability[from[1]][from[2]]>>]
\* One row of tag probabilities for each window of the batch, in its order.
Posteriors(chunk) == [i \in 1..Len(chunk) |-> <<chunk[i], Probability[chunk[i][1]][chunk[i][2]]>>]

InferPending ==
    LET take == IF Len(pendingBatch) < Batch THEN Len(pendingBatch) ELSE Batch
        chunk == SubSeq(pendingBatch, 1, take)
        rows == Posteriors(chunk)
    IN /\ stage # "idle" /\ Ready
       /\ pendingBatch' = SubSeq(pendingBatch, take + 1, Len(pendingBatch))
       /\ cache' = [t \in Tracks |->
             [o \in DOMAIN cache[t] \cup {chunk[i][2] : i \in {j \in 1..take : chunk[j][1] = t}} |->
                 IF o \in DOMAIN cache[t] THEN cache[t][o]
                 ELSE LET i == CHOOSE j \in 1..take : chunk[j] = <<t, o>> IN rows[i][2]]]
       /\ UNCHANGED <<stage, members, isolated, todo, waiting, submitted, completed, windows,
                      decodes, scoreA, answer, gpuFailures>>

InferFails == /\ stage # "idle" /\ Ready
              /\ gpuFailures < MaxGpuFailures /\ gpuFailures' = gpuFailures + 1
              /\ Raise("error")

Inferred == Exhausted /\ pendingBatch = <<>>

Uncertain(scores) == Only(members, {t \in Tracks : Decide(StageA, scores[t]) = "review"})

\* The stages share posteriors when backend and batch size are the same (backends: always here).
KnownToB == IF BatchSize = StageBBatchSize THEN cache ELSE NoPosterior

EndStageA ==
    LET scores == [t \in Tracks |-> IF t \in Range(members)
                                    THEN Aggregate(cache[t], t, StageAFractions) ELSE 0]
    IN /\ stage = "A" /\ Inferred
       /\ scoreA' = scores
       /\ IF Uncertain(scores) = <<>>
          THEN /\ Stop /\ cache' = cache
               /\ answer' = [t \in Tracks |-> IF t \in Range(members)
                                              THEN Decide(StageA, scores[t]) ELSE answer[t]]
          ELSE /\ stage' = "B" /\ cache' = KnownToB /\ answer' = answer
               /\ Plan(StageBFractions, Uncertain(scores), KnownToB)
       /\ UNCHANGED <<members, isolated, todo, windows, decodes, gpuFailures>>

EndStageB ==
    LET review == Range(Uncertain(scoreA)) IN
    /\ stage = "B" /\ Inferred
    /\ Stop
    /\ answer' = [t \in Tracks |->
          IF t \notin Range(members) THEN answer[t]
          ELSE IF t \in review THEN Decide(StageB, Aggregate(cache[t], t, StageBFractions))
          ELSE Decide(StageA, scoreA[t])]
    /\ UNCHANGED <<members, isolated, todo, windows, decodes, cache, scoreA, gpuFailures>>

GateStep == \/ ProcessAlone \/ InferPending \/ InferFails \/ EndStageA \/ EndStageB
            \/ \E t \in Tracks : DecodeTrack(t) \/ Collect(t)
-----------------------------------------------------------------------------
\* Every verdict is the one the track's own windows give: windows of several tracks share a
\* batch, stage B reuses posteriors of stage A, and a failed call is repeated, without a
\* probability ever landing on another track or another window (fast_gate_core.py:1077-1090).
VerdictIsOwn == \A t \in Tracks : answer[t] \in Verdicts => answer[t] = Reference(t)

\* In one call the whole of a short track, or one window of a long one, is decoded at most once,
\* both stages together (the promise of TrackWindowSession, fast_gate_core.py:261-266).
DecodedOnce == \A t \in Tracks : IsInjective(decodes[t])

==============================================================================
