SPECIFICATION Spec
CONSTANTS
  Names = {d1}
  Db2 = {d1}
  Queues = {q1}
  Loggers = {l1}
  Props <- MCProps
  PollLimit = 2
  MaxCalls = 4
  MaxFaults = 1
INVARIANTS
  XaComplete
  EndsAsReported
PROPERTIES
  BatchIsolated
CHECK_DEADLOCK FALSE
