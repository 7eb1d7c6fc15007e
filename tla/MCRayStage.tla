------------------------------ MODULE MCRayStage ------------------------------
(* A small instance of RayStage: two tasks in either order, or another task. *)
EXTENDS RayStage, TLC

CONSTANTS k1, k2, k3

MCKeys == {k1, k2, k3}
MCInputs == {<<k1, k2>>, <<k2, k1>>, <<k3>>}
MCLegacyDone == {{k1}}

\* The models are interchangeable: no definition tells one from another.
ModelSymmetry == Permutations(Models)
=============================================================================
