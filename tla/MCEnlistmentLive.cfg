SPECIFICATION FairSpec
CONSTANTS
  Requests = {q1, q2}
  NoRequest = NoRequest
  Invoked = {"requiresNewJms", "createTableNotJoin"}
  MaxCrashes = 1
  MaxDelivery = 2
PROPERTIES NothingStaysInDoubt EveryCallEnds MessageHandled
CHECK_DEADLOCK FALSE
