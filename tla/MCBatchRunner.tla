---------------------------- MODULE MCBatchRunner ----------------------------
(* Instances of BatchRunner for TLC. *)
EXTENDS BatchRunner

CONSTANTS a1, a2, a3, a4, a5

MCTrees == {tree : tree \in SUBSET Audios}
MCDecision == [a \in Audios |-> IF a = a5 THEN "rejected" ELSE "accepted"]
MCKind == [a \in Audios |-> CASE a = a1 -> "song" [] a = a4 -> "review" [] OTHER -> "instrumental"]
MCClashes == {{a1, a2}}
=============================================================================
