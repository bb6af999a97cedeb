SPECIFICATION Spec
CONSTANTS
  Names = {d1}
  Db2 = {d1}
  Queues = {q1}
  Loggers = {l1}
  Props <- MCProps
  PollLimit = 2
  MaxCalls = 2
  MaxFaults = 0
CHECK_DEADLOCK FALSE
INVARIANTS
  DriverAdded
