---------------------------- MODULE TrackLifecycle ----------------------------
(***************************************************************************)
(* What the streaming runner promises about each audio, with no queue, no   *)
(* calls, no scheduler and no restarts: stages are inferred in dependency   *)
(* order and once, an audio ends in one partition, and only an audio with   *)
(* every stage of its route becomes an annotation.  StreamPipeline          *)
(* implements this specification; a crash and a restart are stutters.       *)
(***************************************************************************)
CONSTANTS Audio, FullTrack, Results, None

Gate == "fast_gate"
Discogs == "discogs_mir"
Asr == "asr"
Stages == {Gate, Discogs, Asr} \cup FullTrack
Verdicts == {"review", "rejected"}
Routes == {"song", "instrumental"}

VARIABLES status,   \* status[a]: not yet known, pending, or the partition it is in
          done,     \* done[a][s]: the result of stage s, None while there is none
          file      \* file[a]: the results the annotation file was built from

track == <<status, done, file>>

Init == /\ status = [a \in Audio |-> "absent"]
        /\ done = [a \in Audio |-> [s \in Stages |-> None]]
        /\ file = [a \in Audio |-> None]

Passed(a) == done[a][Gate] \notin Verdicts \cup {None}
OnRoute(a) == Passed(a) /\ done[a][Discogs] \in Routes
Analysed(a) == OnRoute(a) /\ \A s \in FullTrack : done[a][s] # None
Complete(a) == Analysed(a) /\ (done[a][Discogs] = "song" => done[a][Asr] # None)

\* What must be known before a stage may be inferred.
MayInfer(a, s) ==
    /\ status[a] # "absent" /\ done[a][s] = None
    /\ s = Discogs => Passed(a)
    /\ s \in FullTrack => OnRoute(a)
    /\ s = Asr => Analysed(a) /\ done[a][Discogs] = "song"

Admit(a) == /\ status[a] = "absent"
            /\ status' = [status EXCEPT ![a] = "pending"]
            /\ UNCHANGED <<done, file>>

Infer(a, s) == /\ MayInfer(a, s)
               /\ \E r \in Results : done' = [done EXCEPT ![a][s] = r]
               /\ UNCHANGED <<status, file>>

\* The gate or Discogs decides the partition.
Decide(a) == /\ status[a] = "pending"
             /\ \E s \in {Gate, Discogs} : /\ done[a][s] \in Verdicts
                                           /\ status' = [status EXCEPT ![a] = done[a][s]]
             /\ UNCHANGED <<done, file>>

\* Something failed: a stage, the decoding, the annotation.
Fail(a) == /\ status[a] = "pending"
           /\ status' = [status EXCEPT ![a] = "failed"]
           /\ UNCHANGED <<done, file>>

\* The file is written whole, and may be written again.
Write(a) == /\ status[a] = "pending" /\ Complete(a)
            /\ file' = [file EXCEPT ![a] = done[a]]
            /\ UNCHANGED <<status, done>>

Publish(a) == /\ status[a] = "pending" /\ file[a] # None
              /\ status' = [status EXCEPT ![a] = "published"]
              /\ UNCHANGED <<done, file>>

\* The file is lost; a published audio without its file is opened again.
Lose(a) == /\ file[a] # None
           /\ file' = [file EXCEPT ![a] = None]
           /\ UNCHANGED <<status, done>>

Reopen(a) == /\ status[a] = "published" /\ file[a] = None
             /\ status' = [status EXCEPT ![a] = "pending"]
             /\ UNCHANGED <<done, file>>

Next == \/ \E a \in Audio : \/ Admit(a) \/ Decide(a) \/ Fail(a) \/ Write(a)
                            \/ Publish(a) \/ Lose(a) \/ Reopen(a)
        \/ \E a \in Audio, s \in Stages : Infer(a, s)

Spec == Init /\ [][Next]_track
=============================================================================
