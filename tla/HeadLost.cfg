SPECIFICATION MCSpec
CONSTANTS
  Requests = {r1}
INVARIANT TrailComplete
