------------------------------ MODULE DiscogsRun ------------------------------
(***************************************************************************)
(* The Discogs stage, scripts/discogs_mir_infer.py: threads decode the tracks  *)
(* the gate accepted, a bounded number ahead; the main thread buffers their     *)
(* frames, infers batches of frames that span tracks, and appends each track to  *)
(* the file of its route.  A run may be killed, and resumed.                   *)
(***************************************************************************)
EXTENDS Integers, Sequences, FiniteSets, Functions, Selections

CONSTANTS Tracks,
          Frames,          \* [Tracks -> Nat]: Discogs frames of a track, 0 when it is too short
          Broken,          \* tracks whose decode raises
          VocalScore,      \* [Tracks -> 0..100]: fused_discogs_vocal_score of its frames
          SongThreshold, InstrumentalThreshold,
          Workers, Prefetched, FrameBatch, BufferedFrames,  \* the command's limits
          MaxOrtFailures, MaxCrashes

DiscogsAssumption == /\ Frames \in [Tracks -> Nat] /\ Broken \subseteq Tracks
                     /\ {Workers, Prefetched, FrameBatch, BufferedFrames} \subseteq Nat \ {0}
                     /\ 0 <= InstrumentalThreshold /\ InstrumentalThreshold < SongThreshold

VARIABLES accepted,   \* the input: rows [track, revision, whole] of accepted.music.jsonl
          job,        \* "idle", "running", "refused" or "done"
          unread,     \* input rows the decoder has not been given
          pending,    \* rows being decoded
          decoded,    \* those of them whose decode ended
          buffered,   \* rows whose frames wait to be inferred, in order
          writing,    \* rows to append, [row, file] in order
          records,    \* per output file, its rows
          ortFailures, crashes

Routes == {"song", "instrumental", "review"}
Files == Routes \cup {"failed"}

JobInit == /\ job = "idle" /\ unread = <<>> /\ pending = <<>> /\ decoded = {}
           /\ buffered = <<>> /\ writing = <<>> /\ records = [f \in Files |-> <<>>]
           /\ ortFailures = 0 /\ crashes = 0

\* The frames of some rows, the j-th one of the i-th row.
AllFrames(rows) == UNION {{i} \X (1..Frames[rows[i].track]) : i \in DOMAIN rows}
Size(rows) == Cardinality(AllFrames(rows))

\* route_discogs_voice
RouteOf(t) == IF VocalScore[t] >= SongThreshold THEN "song"
              ELSE IF VocalScore[t] <= InstrumentalThreshold THEN "instrumental" ELSE "review"

\* plan_frame_batches: all frames in order, cut every FrameBatch frames.
Earlier(f, g) == f[1] < g[1] \/ (f[1] = g[1] /\ f[2] < g[2])
Rank(rows, f) == Cardinality({g \in AllFrames(rows) : Earlier(g, f)})
FrameBatchOf(rows, b) == {f \in AllFrames(rows) : Rank(rows, f) \div FrameBatch = b - 1}
\* (Faulty variant of PlanFrameBatches: the last batch is left out when it is not full.)
PlanFullBatches(rows) == [b \in 1..(Size(rows) \div FrameBatch) |-> FrameBatchOf(rows, b)]
PlanFrameBatches(rows) ==
    [b \in 1..((Size(rows) + FrameBatch - 1) \div FrameBatch) |-> FrameBatchOf(rows, b)]

\* infer_prepared_batch hands every row the predictions of its frames, and checks their number.
Gathered(rows, i) == {f \in UNION Range(PlanFrameBatches(rows)) : f[1] = i}
Covered(rows) == \A i \in DOMAIN rows : Cardinality(Gathered(rows, i)) = Frames[rows[i].track]

Failed(rows) == [i \in 1..Len(rows) |-> [row |-> rows[i], file |-> "failed"]]
Routed(rows) == [i \in 1..Len(rows) |-> [row |-> rows[i], file |-> RouteOf(rows[i].track)]]

\* flush_buffer: a failing inference fails all the rows of the buffer.
FlushOutcomes(rows) == (IF Covered(rows) THEN {Routed(rows)} ELSE {Failed(rows)})
                       \cup (IF rows # <<>> /\ ortFailures < MaxOrtFailures THEN {Failed(rows)} ELSE {})
CountFailures(rows, outcome) ==
    ortFailures' = IF rows # <<>> /\ Covered(rows) /\ outcome = Failed(rows) THEN ortFailures + 1
                   ELSE ortFailures
-----------------------------------------------------------------------------
\* load_resume_state: a torn tail goes, failures are cleared.
Resumed == [f \in Files |-> IF f = "failed" THEN <<>>
                            ELSE Only(records[f], {r \in Range(records[f]) : r.whole})]
RowsIn(loaded) == UNION {Range(loaded[f]) : f \in Routes}

\* (Faulty variant of Refused: rows of tracks the input no longer has are left alone.)
RefusedIfChanged(loaded) ==
    \E r \in RowsIn(loaded), q \in Range(accepted) : q.track = r.track /\ q # r
\* scan_pending_inputs raises when a finished row changed or is gone from the input.
Refused(loaded) == ~ (RowsIn(loaded) \subseteq Range(accepted))

StartJob(resume) ==
    LET loaded == IF resume THEN Resumed ELSE [f \in Files |-> <<>>]
        rest == Without(accepted, RowsIn(loaded))
        first == IF Len(rest) < Prefetched THEN Len(rest) ELSE Prefetched
    IN /\ job # "running"
       /\ records' = loaded
       /\ IF Refused(loaded) \/ rest = <<>>
          THEN /\ job' = IF Refused(loaded) THEN "refused" ELSE "done"
               /\ pending' = <<>> /\ unread' = <<>>
          ELSE /\ job' = "running"
               /\ pending' = SubSeq(rest, 1, first)
               /\ unread' = SubSeq(rest, first + 1, Len(rest))
       /\ decoded' = {} /\ buffered' = <<>> /\ writing' = <<>>
       /\ UNCHANGED <<accepted, ortFailures, crashes>>

\* decode_track in one of the executor's threads, which take the rows in order.
Decode(r) ==
    LET started == Without(pending, decoded)
        threads == IF Workers < Prefetched THEN Workers ELSE Prefetched
    IN /\ job = "running"
       /\ r \in Range(SubSeq(started, 1, IF Len(started) < threads THEN Len(started) ELSE threads))
       /\ decoded' = decoded \cup {r}
       /\ UNCHANGED <<accepted, job, unread, pending, buffered, writing, records, ortFailures, crashes>>

Unusable(t) == t \in Broken \/ Frames[t] = 0 \/ Frames[t] > BufferedFrames

\* bounded_prefetch_map hands over a decoded row and submits another.
Refill(r) == /\ pending' = Without(pending, {r}) \o SubSeq(unread, 1, IF unread = <<>> THEN 0 ELSE 1)
             /\ unread' = SubSeq(unread, 2, Len(unread))
             /\ decoded' = decoded \ {r}

\* A row that cannot be used fails after the buffer is flushed.
TakeUnusable(r) ==
    /\ job = "running" /\ writing = <<>> /\ r \in decoded /\ Unusable(r.track)
    /\ Refill(r)
    /\ \E outcome \in FlushOutcomes(buffered) :
          /\ writing' = outcome \o Failed(<<r>>)
          /\ CountFailures(buffered, outcome)
    /\ buffered' = <<>>
    /\ UNCHANGED <<accepted, job, records, crashes>>

Overflows(r) == buffered # <<>> /\ Size(buffered) + Frames[r.track] > BufferedFrames

\* The row joins the buffer, which is flushed first if the row does not fit.
Take(r) ==
    LET kept == IF Overflows(r) THEN <<>> ELSE buffered
        flushed == IF Overflows(r) THEN buffered ELSE <<>>
    IN /\ job = "running" /\ writing = <<>> /\ r \in decoded /\ ~ Unusable(r.track)
       /\ Refill(r)
       /\ buffered' = Append(kept, r)
       /\ \E outcome \in FlushOutcomes(flushed) :
             writing' = outcome /\ CountFailures(flushed, outcome)
       /\ UNCHANGED <<accepted, job, records, crashes>>

\* The buffer is flushed when it is full, and when nothing is left to decode.
Flush == /\ job = "running" /\ writing = <<>> /\ buffered # <<>>
         /\ Size(buffered) >= BufferedFrames \/ pending = <<>>
         /\ \E outcome \in FlushOutcomes(buffered) :
               writing' = outcome /\ CountFailures(buffered, outcome)
         /\ buffered' = <<>>
         /\ UNCHANGED <<accepted, job, unread, pending, decoded, records, crashes>>

\* JsonlOutputs.write
Write == /\ job = "running" /\ writing # <<>>
         /\ records' = [records EXCEPT ![Head(writing).file] = Append(@, Head(writing).row)]
         /\ writing' = Tail(writing)
         /\ UNCHANGED <<accepted, job, unread, pending, decoded, buffered, ortFailures, crashes>>

EndJob == /\ job = "running" /\ writing = <<>> /\ buffered = <<>> /\ pending = <<>>
          /\ job' = "done"
          /\ UNCHANGED <<accepted, unread, pending, decoded, buffered, writing, records,
                         ortFailures, crashes>>

Crash == /\ job = "running" /\ crashes < MaxCrashes /\ crashes' = crashes + 1
         /\ job' = "idle"
         /\ \/ records' = records
            \/ /\ writing # <<>>
               /\ records' = [records EXCEPT ![Head(writing).file] =
                                 Append(@, [Head(writing).row EXCEPT !.whole = FALSE])]
         /\ unread' = <<>> /\ pending' = <<>> /\ decoded' = {} /\ buffered' = <<>> /\ writing' = <<>>
         /\ UNCHANGED <<accepted, ortFailures>>

JobStep == \/ \E r \in Range(pending) : Decode(r) \/ TakeUnusable(r) \/ Take(r)
           \/ Flush \/ Write \/ EndJob
-----------------------------------------------------------------------------
Places(r) == UNION {{f} \X {i \in DOMAIN records[f] : records[f][i] = r} : f \in Files}

\* A run that ends leaves each accepted track in one place, as it is in the input: the file of its
\* route, or the failures, where a usable track is only after an inference raised; and no other row
\* (discogs_mir_infer.py:482-547, 828-906).
Routing == /\ \A r \in Range(accepted) :
                 \E where \in Places(r) :
                    /\ Places(r) = {where}
                    /\ where[1] \in {RouteOf(r.track), "failed"}
                    /\ where[1] = "failed" => Unusable(r.track) \/ ortFailures > 0
           /\ RowsIn(records) \cup Range(records["failed"]) = Range(accepted)

=============================================================================
