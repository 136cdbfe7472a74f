\* A contract with AuditCount 1 passes the check of the OFFER.
SPECIFICATION FairSpec
CONSTANT Lengths <- MCLengths
INVARIANT AcceptedCountIsAuditable
CHECK_DEADLOCK FALSE
