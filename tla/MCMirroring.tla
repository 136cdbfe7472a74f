----------------------------- MODULE MCMirroring -----------------------------
(* Bounds for TLC; the constants are given in the .cfg file. *)
EXTENDS Mirroring
=============================================================================
