------------------------------ MODULE MCFarmer ------------------------------
(* Bounds for TLC; the constants are given in the .cfg files. *)
EXTENDS FarmerProperties, TLC

\* Requests of one kind, and hashes, are interchangeable in safety runs.
MCSymmetry == Permutations(Publishes) \cup Permutations(Consigns)
                \cup Permutations(Mirrors) \cup Permutations(Hashes)

\* 0 and 3 are no powers of two, 2 is; a tree of 0, 2 or 3 leaves.
MCCounts == {0, 2, 3}
=============================================================================
