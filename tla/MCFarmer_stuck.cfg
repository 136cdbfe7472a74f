\* Two CONSIGNs wait for one OFFER, which sends on its channel once.
SPECIFICATION FairSpec
CONSTANTS
  Hashes = {h1}
  Publishes = {p1}
  Consigns = {c1, c2}
  Mirrors = {}
  Counts <- MCCounts
  ProtocolRenter = TRUE
  None = None
PROPERTY ConsignGoesOn
CHECK_DEADLOCK FALSE
