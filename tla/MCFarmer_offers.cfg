\* Two PUBLISHes pass the cache check before either has set the entry.
SPECIFICATION Spec
CONSTANTS
  Hashes = {h1}
  Publishes = {p1, p2}
  Consigns = {}
  Mirrors = {}
  Counts <- MCCounts
  ProtocolRenter = FALSE
  None = None
INVARIANT OneOfferAtATime
CHECK_DEADLOCK FALSE
