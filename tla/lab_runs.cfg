CONSTANTS
  Alphabet <- Names
  Scenarios <- MCScenarios
  MaxNth = 4
  Delays = {1, 40}
  PairNth = 2
SPECIFICATION LabSpec
INVARIANTS MoneyConserved PassIsTrue CleanRunsPass CommitHasMajority  InfluenceCapped OnlyDuplicatesRaise
PROPERTY RunEnds
CHECK_DEADLOCK FALSE
