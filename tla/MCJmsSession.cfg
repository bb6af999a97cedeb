SPECIFICATION FairSpec
CONSTANTS
  MaxTests = 3
  MaxFaults = 1
  MaxKills = 1
INVARIANTS LeavesNothing AssertionsHold
PROPERTIES TestsEnd
CHECK_DEADLOCK FALSE
