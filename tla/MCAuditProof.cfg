\* Every position of every tree of up to 64 leaves.
SPECIFICATION FairSpec
CONSTANT Lengths <- MCLengths
INVARIANTS
  TypeOK
  LevelIsWhole
  ProofIsMerklePath
  LongTreesDoNotPanic
PROPERTY AuditEnds
CHECK_DEADLOCK FALSE
