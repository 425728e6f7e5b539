SPECIFICATION MCSpec
CONSTANTS
  MaxPushes = 12
  MaxTimers = 1
  MaxRuns = 2
  MaxOthers = 1
  MaxLost = 1
INVARIANTS TypeOK PeerUriMerged AnsweredIsSettled ViewsAgree SecretNeedsAnswer ClaimsBacked
PROPERTIES NeverBackward NoRewindOnceShown ExplainedErrorKept
VIEW ViewNoTtl
