SPECIFICATION MCSpec
CONSTANTS
  Sides = {"trace"}
  Requests = {r1, r2}
  MaxStarts = 2
INVARIANTS CleanExitIsAsked TraceOutlivesLookups
PROPERTY StopsWhenAsked
