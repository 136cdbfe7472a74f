------------------------------ MODULE MCShards ------------------------------
(* Bounds for TLC; the constants are given in the .cfg files. *)
EXTENDS Shards, TLC

MCSymmetry == Permutations(Posts) \cup Permutations(Hashes)
=============================================================================
