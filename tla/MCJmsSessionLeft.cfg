SPECIFICATION Spec
CONSTANTS
  MaxTests = 1
  MaxFaults = 0
  MaxKills = 0
INVARIANTS NotDelivered
CHECK_DEADLOCK FALSE
