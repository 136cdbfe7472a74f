\* What does the farmer have in hand when it reports that it has joined?
SPECIFICATION FairSpec
CONSTANTS
  s1 = s1
  s2 = s2
  Seeds <- MCSeeds
  Transit = 1
INVARIANT SuccessIsTrue
