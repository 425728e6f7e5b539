SPECIFICATION Spec
CONSTANTS
  MaxEvents = 3
  BufLen = 13
INVARIANTS NeverPanics OneEventPerFrame
PROPERTIES BackInStep
CHECK_DEADLOCK FALSE
