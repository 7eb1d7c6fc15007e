---------------------------- MODULE MCInventory ----------------------------
(* An instance of Inventory for TLC: two contents that decode, one that does not. *)
EXTENDS Inventory, TLC

CONSTANTS song, tune, noise

MCContents == {song, tune, noise}
MCUndecodable == {noise}

\* Nothing orders contents: the first of two equal files is kept by its path.
MCSymmetry == Permutations({song, tune})
=============================================================================
