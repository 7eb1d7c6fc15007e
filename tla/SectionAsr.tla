------------------------------ MODULE SectionAsr ------------------------------
(***************************************************************************)
(* Lyrics of the sections of a track: scripts/section_asr_infer.py, run    *)
(* over a file, and scripts/serve_section_asr.py, the resident service.    *)
(*                                                                         *)
(* Eligible sections are put into batches of similar duration.  Each item  *)
(* is decoded with some padding on both sides; the decoded part of a batch *)
(* is transcribed at once, or one by one after an error; the words of the  *)
(* padding are cut off again.  The file program decodes one batch ahead    *)
(* and, with --resume, runs again what did not end well; the service gives *)
(* a repeated request the record it has, whatever became of it.            *)
(***************************************************************************)
EXTENDS SectionPlan

CONSTANTS Programs,     \* subset of {"file", "service"}
          ContentTypes, \* content types of the track
          BatchSize,
          Padding,
          BucketLimits, \* upper durations of the buckets but the last, ascending
          Instrumental, \* labels of sections without vocals
          MaxFaults

ASSUME SectionAsrAssumption ==
    /\ BatchSize \in Nat \ {0} /\ Padding \in Nat /\ MaxFaults \in Nat
    /\ BucketLimits \in Seq(Nat)

VARIABLES
    program,     \* which of the two programs runs
    contentType, \* content_type of the track
    pending,     \* batches not yet submitted to the decoders
    submitted,   \* items of the batch being decoded
    decoded,     \* section -> what its decoder returned
    batch,       \* decoded items the model has not answered
    single,      \* the batch failed: its items are tried one by one
    status,      \* section -> asr_status
    tokens,      \* section -> asr_tokens, as times in the track
    faults

planVars == <<input, bounds, sections>>
asrVars == <<planVars, phase, program, contentType, pending, submitted, decoded, batch,
             single, status, tokens, faults>>

Items == DOMAIN sections

(***************************************************************************)
(* Which sections, in which batches.                                       *)
(***************************************************************************)
\* Silence and instrumental sections without voice are not transcribed.
Eligible(i) ==
    /\ contentType = "song"
    /\ sections[i].label # "silence"
    /\ sections[i].label \in Instrumental => Voice(sections[i].start, sections[i].end) > 0

FirstStatus(i) == IF Eligible(i) THEN "pending" ELSE "skipped"

Bucket(i) == Cardinality({n \in DOMAIN BucketLimits :
                             sections[i].end - sections[i].start > BucketLimits[n]})

\* The items of a bucket in section order, cut into batches.
ItemsOf(bucket) == {i \in Items : Eligible(i) /\ Bucket(i) = bucket}
Rank(i, items) == Cardinality({j \in items : j < i})
Cut(items) == [n \in 1..((Cardinality(items) + BatchSize - 1) \div BatchSize) |->
    {i \in items : Rank(i, items) \div BatchSize = n - 1}]

\* The batches of the first buckets; of all of them.
BatchesOf[b \in 0..(Len(BucketLimits) + 1)] ==
    IF b = 0 THEN <<>> ELSE BatchesOf[b - 1] \o Cut(ItemsOf(b - 1))
Batches == BatchesOf[Len(BucketLimits) + 1]

(***************************************************************************)
(* What is heard in a section and kept.                                    *)
(***************************************************************************)
DecodedStart(i) == IF sections[i].start > Padding THEN sections[i].start - Padding ELSE 0
DecodedEnd(i) == IF sections[i].end + Padding < Total THEN sections[i].end + Padding ELSE Total

\* The aligner counts from the start of the decoded range.
Heard(i) == {w - DecodedStart(i) : w \in {v \in input.words : DecodedStart(i) <= v
                                                              /\ v < DecodedEnd(i)}}
\* Faulty: the padding is taken off also where the track had none to give.
TrackTimeUnclamped(i, heard) == sections[i].start - Padding + heard

TrackTime(i, heard) == DecodedStart(i) + heard
Core(i, time) == sections[i].start <= time /\ time < sections[i].end
Kept(i) == {t \in {TrackTime(i, h) : h \in Heard(i)} : Core(i, t)}

Result(i) == IF Heard(i) = {} THEN "no_lyrics_detected"
             ELSE IF Kept(i) = {} THEN "no_lyrics_in_core" ELSE "ok"

Bad == {"decode_error", "asr_error", "alignment_error"}
RecordOk == Items # {} /\ \A i \in Items : status[i] \notin Bad

AsrInit ==
    /\ PlanInit
    /\ program \in Programs /\ contentType \in ContentTypes
    /\ pending = <<>> /\ submitted = {} /\ decoded = <<>> /\ batch = {}
    /\ single = FALSE
    /\ status = <<>> /\ tokens = <<>>
    /\ faults = 0

Planning ==
    /\ PlanNext
    /\ UNCHANGED <<program, contentType, pending, submitted, decoded, batch, single, status,
                   tokens, faults>>

\* One record becomes its section outputs and its items.
Admit ==
    /\ phase' = "asr"
    /\ status' = [i \in Items |-> FirstStatus(i)]
    /\ tokens' = [i \in Items |-> {}]
    /\ decoded' = [i \in Items |-> "none"]
    /\ pending' = Batches
    /\ UNCHANGED <<planVars, program, contentType, submitted, batch, single, faults>>

Start == phase = "planned" /\ Admit

\* Faulty: any record of the same sections is reused.
ReuseAny == phase = "done" /\ UNCHANGED asrVars

\* The file program reuses a record without an error and does any other again.  The service
\* answers from its response cache.  (After a restart, or when the record was evicted, the
\* track is new to it: that is another behaviour.)
RunAgain ==
    /\ phase = "done"
    /\ IF program = "service" \/ RecordOk \/ Items = {} THEN UNCHANGED asrVars ELSE Admit

\* The file program hands the next batch to the decoders when it takes the
\* last one from them, the service when the last one is transcribed.
MaySubmit == submitted = {} /\ (program = "file" \/ batch = {})
Submit ==
    /\ phase = "asr" /\ pending # <<>> /\ MaySubmit
    /\ submitted' = Head(pending)
    /\ pending' = Tail(pending)
    /\ UNCHANGED <<planVars, phase, program, contentType, decoded, batch, single, status,
                   tokens, faults>>

Decode(i) ==
    /\ i \in submitted /\ decoded[i] = "none"
    /\ \E outcome \in {"audio", "error"} :
        /\ decoded' = [decoded EXCEPT ![i] = outcome]
            /\ faults' = IF outcome = "error" THEN faults + 1 ELSE faults
    /\ UNCHANGED <<planVars, phase, program, contentType, pending, submitted, batch, single,
                   status, tokens>>

\* Every decoder of the batch is done: what it decoded goes to the model.
Gather ==
    /\ submitted # {} /\ batch = {}
    /\ \A i \in submitted : decoded[i] # "none"
    /\ batch' = {i \in submitted : decoded[i] = "audio"}
    /\ status' = [i \in Items |-> IF i \in submitted \ batch' THEN "decode_error" ELSE status[i]]
    /\ submitted' = {}
    /\ UNCHANGED <<planVars, phase, program, contentType, pending, decoded, single, tokens,
                   faults>>

\* The answers of the model for some items; the aligner may find nothing.
Fill(items, unaligned) ==
    /\ status' = [i \in Items |-> IF i \notin items THEN status[i]
                                  ELSE IF i \in unaligned THEN "alignment_error" ELSE Result(i)]
    /\ tokens' = [i \in Items |-> IF i \in items \ unaligned THEN Kept(i) ELSE tokens[i]]
    /\ faults' = faults + Cardinality(unaligned)

Unaligned(items) == {u \in SUBSET {i \in items : Heard(i) # {}} : Cardinality(u) <= 1}

TranscribeBatch ==
    /\ batch # {} /\ ~single
    /\ \E unaligned \in Unaligned(batch) : Fill(batch, unaligned)
    /\ batch' = {}
    /\ UNCHANGED <<planVars, phase, program, contentType, pending, submitted, decoded, single>>

\* An answer for each item is missing or one is too many: none can be told.
WrongCardinality ==
    /\ batch # {} /\ ~single
    /\ status' = [i \in Items |-> IF i \in batch THEN "asr_error" ELSE status[i]]
    /\ batch' = {}
    /\ faults' = faults + 1
    /\ UNCHANGED <<planVars, phase, program, contentType, pending, submitted, decoded, single,
                   tokens>>

BatchRaises ==
    /\ batch # {} /\ ~single
    /\ single' = TRUE
    /\ faults' = faults + 1
    /\ UNCHANGED <<planVars, phase, program, contentType, pending, submitted, decoded, batch,
                   status, tokens>>

\* One by one, in any order: the answers do not depend on it.
AfterOne(i) == batch' = batch \ {i} /\ single' = (batch' # {})
TranscribeOne(i) ==
    /\ i \in batch /\ single
    /\ \E unaligned \in Unaligned({i}) : Fill({i}, unaligned)
    /\ AfterOne(i)
    /\ UNCHANGED <<planVars, phase, program, contentType, pending, submitted, decoded>>

OneRaises(i) ==
    /\ i \in batch /\ single
    /\ status' = [status EXCEPT ![i] = "asr_error"]
    /\ faults' = faults + 1
    /\ AfterOne(i)
    /\ UNCHANGED <<planVars, phase, program, contentType, pending, submitted, decoded, tokens>>

AllAnswered == pending = <<>> /\ submitted = {} /\ batch = {}
WriteRecord ==
    /\ phase = "asr" /\ AllAnswered
    /\ phase' = "done"
    /\ UNCHANGED <<planVars, program, contentType, pending, submitted, decoded, batch, single,
                   status, tokens, faults>>

AsrNext ==
    /\ \/ Planning \/ Start \/ RunAgain
       \/ Submit \/ Gather \/ WriteRecord
       \/ TranscribeBatch \/ WrongCardinality \/ BatchRaises
       \/ \E i \in Items : Decode(i) \/ TranscribeOne(i) \/ OneRaises(i)
    /\ faults' <= MaxFaults

AsrSpec == AsrInit /\ [][AsrNext]_asrVars
FairAsrSpec == AsrSpec /\ WF_asrVars(AsrNext)

(***************************************************************************)
(* Properties.                                                             *)
(***************************************************************************)
\* A word of the track is in the lyrics of one section at most, at its own
\* time, although neighbours hear it in their padding; and in a record that
\* ended well no word of a transcribed section is missing.
WordsOnce ==
    /\ \A i, j \in DOMAIN tokens : tokens[i] \cap tokens[j] # {} => i = j
    /\ \A i \in DOMAIN tokens : tokens[i] \subseteq input.words
    /\ phase = "done" /\ RecordOk => \A i \in Items : Eligible(i) =>
           tokens[i] = {w \in input.words : Core(i, w)}

\* Either program ends with a status for every section, however its batches failed; and the
\* file program, run again until it is well, with a record without errors.
LyricsSettle == <>[](/\ phase = "done"
                     /\ \A i \in Items : /\ status[i] # "pending"
                                         /\ program = "file" => status[i] \notin Bad)
=============================================================================
