SPECIFICATION SetupFairSpec
CONSTANTS
  Names <- MCNames
  Db2 = {}
  Queues = {q1}
  Queue = q1
  Loggers = {}
  Props <- MCProps
  PlainDs <- MCPlainDs
  XaDs <- MCXaDs
  PollLimit = 2
  MaxCalls = 0
  MaxFaults = 4
  MaxRuns = 5
INVARIANTS
  SetupDone
  NoSpuriousFailure
PROPERTIES
  SetupEnds
CHECK_DEADLOCK FALSE
