SPECIFICATION MCSpec
CONSTANTS
  Requests = {r1}
INVARIANTS TypeOK TailAccounted ChannelsAgree
PROPERTIES KeepsPromise PortalAnswers CarrierReleased
