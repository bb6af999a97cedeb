SPECIFICATION FairSpec
CONSTANTS
  Threads = {t1,t2}
  Pool = {a1,a2}
  AbortsOnError = TRUE
  MaxTests = 2
  MaxFaults = 2
INVARIANTS TestsPass ReportsAgree Confined
PROPERTIES TransactionsEnd
CHECK_DEADLOCK FALSE
