---------------------------- MODULE MCMembership ----------------------------
(* Bounds for TLC: two seeds, the second is the one to fall back to. *)
EXTENDS Membership

CONSTANTS s1, s2

MCSeeds == <<s1, s2>>
=============================================================================
