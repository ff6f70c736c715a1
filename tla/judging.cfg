CONSTANTS
  MaxExtra = 2
  Faults = {"none"}
SPECIFICATION JudgingSpec
INVARIANTS OrderDoesNotDecide PassIsComplete
PROPERTIES FailureNotErased
CHECK_DEADLOCK FALSE
