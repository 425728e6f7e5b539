SPECIFICATION GrantedSpec
CONSTANTS
  MaxPushes = 12
  MaxTimers = 2
  MaxRuns = 1
  MaxOthers = 0
  MaxLost = 0
INVARIANT DoneStaysComplete
VIEW View
