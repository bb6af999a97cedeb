SPECIFICATION SetupSpec
CONSTANTS
  Names <- MCNames
  Db2 = {}
  Queues = {q1}
  Queue = q1
  Loggers = {}
  Props <- MCProps
  PlainDs <- MCPlainDs
  XaDs <- MCXaDs
  PollLimit = 2
  MaxCalls = 0
  MaxFaults = 1
  MaxRuns = 2
CHECK_DEADLOCK FALSE
INVARIANTS
  DriverDeployed
