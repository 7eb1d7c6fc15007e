---------------------------- MODULE MCStreamState ----------------------------
(* A small instance of StreamState: two audios, one of them with two possible *)
(* inventory records, one stage with two possible inputs and two results.     *)
EXTENDS StreamState

CONSTANTS a1, a2, MaxAttempts

MCAudio == {a1, a2}
MCRecords == {[id |-> a1, decode |-> "ok"], [id |-> a1, decode |-> "failed"],
              [id |-> a2, decode |-> "ok"]}

\* Claims are bounded: every claim counts one attempt.
AttemptBound == \A a \in Audio, s \in Stages : rows[a][s].attempt <= MaxAttempts
=============================================================================
