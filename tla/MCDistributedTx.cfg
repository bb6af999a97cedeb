SPECIFICATION FairSpec
CONSTANTS
  Requests = {r1, r2}
  Ids = {i1}
  Rows = {i1}
  NoId = NoId
  MaxCrashes = 2
  MaxDelivery = 1
INVARIANTS
  TypeOK
  Atomic
  ClientRowExact
  ServerRowBounds
  LostOnlyToRace
  MessageWithEntity
  ThreadsClean
PROPERTIES
  Answered
  PromiseKept
