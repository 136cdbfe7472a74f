---------------------------- MODULE MCAuditProof ----------------------------
(* Bounds for TLC: trees of up to 64 leaves, every length that the database *)
(* can hold up to there.                                                    *)
EXTENDS AuditProof

MCLengths == {0} \cup {2^k : k \in 0..6}
=============================================================================
