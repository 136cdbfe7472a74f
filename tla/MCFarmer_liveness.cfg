\* Does every CONSIGN get its answer, in time, and every failed OFFER its second
\* chance?
SPECIFICATION FairSpec
CONSTANTS
  Hashes = {h1}
  Publishes = {p1, p2}
  Consigns = {c1}
  Mirrors = {m1}
  Counts <- MCCounts
  ProtocolRenter = TRUE
  None = None
PROPERTIES
  ConsignAnswered
  FailedOfferCanBeRepeated
  NoPrematureRefusal
CHECK_DEADLOCK FALSE
