SPECIFICATION FairSpec
CONSTANTS
  Callers = {c1, c2}
  MaxCalls = 2
  MaxRecorded = 2
INVARIANTS
  OutcomeAsTested
  OneOwner
  CommitsAcrossCalls
  ResultsAsTested
PROPERTIES
  EndedForGood
  TransactionsEnd
