SPECIFICATION FairSpec
CONSTANTS
  Tokens = {3, 5}
  MaxLag = 2
  MaxTime = 7
INVARIANTS TypeOK NoDrift DigitsComeTrue
PROPERTY FrozenRunsOut
