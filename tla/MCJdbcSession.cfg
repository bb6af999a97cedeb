SPECIFICATION FairSpec
CONSTANTS
  MaxRuns = 3
  MaxTests = 2
  MaxFaults = 2
  MaxKills = 1
INVARIANTS IsolationAsTested Heals LoadersMatch
PROPERTIES RunsEnd
CHECK_DEADLOCK FALSE
