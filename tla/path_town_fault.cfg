SPECIFICATION PathSpec
CONSTANTS
  Profiles <- PathProfiles
  Targets <- Pinned
  Subjects <- AnySubject
  Replies <- AnyReply
  TownFaults = {"exception", "ValueError"}
INVARIANT TownFaultSparesSubject
CHECK_DEADLOCK FALSE
