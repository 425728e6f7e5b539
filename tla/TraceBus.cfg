SPECIFICATION MCSpec
CONSTANTS
  Emitters = {e1, e2}
  Clients = {c1, c2}
  NoOne = NoOne
  BufSize = 2
  MaxEmits = 3
INVARIANTS TypeOK NoSendAfterClose InOrder NoEarlyLoss
PROPERTIES EmitReturns LeaverForgotten
