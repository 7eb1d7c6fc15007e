------------------------------ MODULE AtomicTree ------------------------------
(* What a publisher of annotation trees promises: the published tree is       *)
(* replaced in one step by the whole of the tree it was told to publish, or     *)
(* not at all.                                                               *)
CONSTANTS Trees, NoTree
VARIABLES tree, goal

Init == tree = NoTree /\ goal = NoTree

Aim == goal' \in Trees /\ UNCHANGED tree
Replace == goal \in Trees /\ tree' = goal /\ UNCHANGED goal

Next == Aim \/ Replace
Spec == Init /\ [][Next]_<<tree, goal>>
=============================================================================
