\* Two MIRRORs and repeated uploads of a shard of two chunks, restarts of both
\* farmers, and failures until it is calm.
SPECIFICATION FairSpec
CONSTANTS
  Mirrors = {m1, m2}
  Chunks = 2
  None = None
INVARIANTS
  TypeOK
  CleanPullIsWhole
PROPERTIES
  CopyImplemented
  UploadRetryRepairs
  MirrorRetryRepairs
CHECK_DEADLOCK FALSE
