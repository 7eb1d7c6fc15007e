-------------------------- MODULE MCServiceBatches --------------------------
(* An instance of ServiceBatches for TLC. *)
EXTENDS ServiceBatches

CONSTANTS r1, r2, r3, r4, r5

\* r1 and r2 fit in the buffer together, r3 fills it alone; r4 cannot be decoded, r5 is refused.
MCRequests == {r1, r2, r3, r4, r5}
MCBatches == {<<r1, r2, r3, r4>>, <<r3, r5, r4, r2, r1>>, <<r2, r1>>}
MCFrames == [r \in MCRequests |-> CASE r = r1 -> 1 [] r = r3 -> 3 [] OTHER -> 2]
=============================================================================
