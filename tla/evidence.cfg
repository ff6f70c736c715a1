SPECIFICATION EvidenceSpec
CONSTANTS
  Run = "run-1"
  OtherRun = "run-2"
  Mirrors <- TwoMirrors
  RECORD_FILES <- TwoRecords
  COPY_FILES <- InOrder
  Copiers = {p1, p2}
  MaxDamage = 1
  MaxCrashes = 1
INVARIANT SurvivorRecovers
PROPERTIES ArrivesWhole LeftUnchanged
SYMMETRY AnyCopier
CHECK_DEADLOCK FALSE
