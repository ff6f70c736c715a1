SPECIFICATION PathSpec
CONSTANTS
  Profiles <- PathProfiles
  Targets <- AnyTarget
  Subjects <- AnySubject
  Replies <- AnyReply
  TownFaults = {"exception", "ValueError"}
INVARIANTS PassIsEarned KeptPasses DefectsAreCaught
CHECK_DEADLOCK FALSE
