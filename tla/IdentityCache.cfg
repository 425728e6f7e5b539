SPECIFICATION MCSpec
CONSTANTS
  Readers = {c1, c2, c3}
  NoOne = NoOne
  TTL = 2
  Timeout = 1
  MaxTime = 5
  MaxSVIDs = 2
INVARIANTS TypeOK Recent NoStepBack
PROPERTIES FailureNotCached ReadersAnswered
