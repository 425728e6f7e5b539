SPECIFICATION Spec
CONSTANTS
  MaxPushes = 5
  MaxTimers = 3
INVARIANTS ArrivalOrder QueueIsDriven
PROPERTIES NothingSkipped QueueDrains
