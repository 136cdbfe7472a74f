\* Two POSTs and a mirror download of the same shard, and restarts; a channel
\* that is full with one size in it.
SPECIFICATION FairSpec
CONSTANTS
  Hashes = {h1}
  Posts = {p1, p2}
  Pulls = {m1}
  Chunks = 2
  Capacity = 1
  None = None
INVARIANTS
  TypeOK
  WholeIfAllGetThrough
  UploadsAreCounted
PROPERTY ReportingEnds
CHECK_DEADLOCK FALSE
