\* A shard that is stored is uploaded a second time, and that fails.
SPECIFICATION Spec
CONSTANTS
  Hashes = {h1}
  Posts = {p1, p2}
  Pulls = {}
  Chunks = 2
  Capacity = 10
  None = None
INVARIANT ExistingShardIsKept
CHECK_DEADLOCK FALSE
