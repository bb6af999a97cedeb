SPECIFICATION Spec
CONSTANTS
  Requests = {q1, q2}
  NoRequest = NoRequest
  Invoked <- AllMethods
  MaxCrashes = 1
  MaxDelivery = 2
SYMMETRY Symmetry
INVARIANTS EnlistedTogether CallLeavesOnlyOutside AnswersReliable InsertsMeetNoBrokenBranch MessageFollowsTx
CHECK_DEADLOCK FALSE
