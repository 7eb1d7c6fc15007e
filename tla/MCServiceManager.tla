--------------------------- MODULE MCServiceManager ---------------------------
(* Instances of ServiceManager for TLC. *)
EXTENDS ServiceManager, TLC

CONSTANTS s1, s2

MCServices == <<s1, s2>>
\* Nothing orders the commands or the pids.
MCSymmetry == Permutations(Managers) \cup Permutations(Pids)
=============================================================================
