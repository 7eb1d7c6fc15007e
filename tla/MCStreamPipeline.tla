--------------------------- MODULE MCStreamPipeline ---------------------------
(* Small instances of StreamPipeline; each cfg picks its inventories and replies. *)
EXTENDS StreamPipeline

CONSTANTS a1, a2

MCAudio == {a1, a2}
Good(a) == [kind |-> "record", id |-> a, decode |-> "ok"]
Bad(a) == [kind |-> "record", id |-> a, decode |-> "failed"]
MCRecords == {Good(a) : a \in Audio} \cup {Bad(a) : a \in Audio}

OneStage == <<"structure_raw">>
TwoStages == <<"structure_raw", "alm">>
ThreeStages == <<"music_cpu", "structure_raw", "alm">>

\* Inventories.  The second audio can never be decoded in those that change between runs,
\* to keep the instances small; an unsound one repeats an audio or breaks off.
OneAudio == {<<Good(a1)>>}
TwoAudios == {<<Good(a1), Good(a2)>>}
ChangingInventories == {<<Good(a1), Bad(a2)>>, <<Bad(a1)>>}
UnsoundInventories ==
    ChangingInventories \cup {<<Bad(a1), Bad(a1)>>, <<Good(a1), Failure>>}

\* Every service works; a track is a song or an instrumental.
CleanReplies == [s \in Stages |-> CASE s = Gate -> {"accepted"}
                                    [] s = Discogs -> {"song", "instrumental"}
                                    [] OTHER -> {"ok"}]

\* Every call may fail, every verdict and route may be given, a caption differs from one
\* inference to the next, and a stage may succeed with nothing in its result.
FaultyReplies == [s \in Stages |->
    CASE s = Gate -> {"accepted", "review", "rejected", Error}
      [] s = Discogs -> {"song", "instrumental", "review", "invalid_route", Error}
      [] s = "structure_raw" -> {"ok", "empty", Error}
      [] s = "alm" -> {"ok", "other", Error}
      [] OTHER -> {"ok", Error}]

\* Calls may fail, but a call that returns returns something usable.
FailingReplies == [s \in Stages |-> CASE s = Gate -> {"accepted"}
                                      [] s = Discogs -> {"song", Error}
                                      [] s = Asr -> {"ok", Error}
                                      [] OTHER -> {"ok"}]
=============================================================================
