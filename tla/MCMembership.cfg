\* Two seeds that come and go, messages that take up to a second, a router.
SPECIFICATION FairSpec
CONSTANTS
  s1 = s1
  s2 = s2
  Seeds <- MCSeeds
  Transit = 1
INVARIANTS
  TypeOK
  AnswerBeatsTimeout
  MappingHolds
PROPERTIES
  FailureHasCause
  Reconnects
