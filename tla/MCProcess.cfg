\* One process, started again and again from any configuration on any disk,
\* with two connections.
SPECIFICATION FairSpec
CONSTANTS
  Conns = {c1, c2}
  Requests <- MCRequests
  Files <- MCFiles
  None = None
INVARIANTS
  TypeOK
  ParseCanBeRepeated
  HandlersFindAll
  ShutdownIsGraceful
  StopIsHeard
  ResponseIdIsRequestId
  PrefixReadsBack
PROPERTY StopEnds
