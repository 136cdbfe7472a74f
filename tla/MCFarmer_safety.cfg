\* Two PUBLISHes race with a CONSIGN, a MIRROR and restarts, on two hashes.
SPECIFICATION Spec
CONSTANTS
  Hashes = {h1, h2}
  Publishes = {p1, p2}
  Consigns = {c1}
  Mirrors = {m1}
  Counts <- MCCounts
  ProtocolRenter = FALSE
  None = None
SYMMETRY MCSymmetry
INVARIANTS
  TypeOK
  CachedIsPursued
  TreesHaveToken
  AcceptedIsDurable
  CopyAgrees
  NobodyWaitsInVain
PROPERTY LedgerImplemented
CHECK_DEADLOCK FALSE
