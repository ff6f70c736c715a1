CONSTANTS
  Writers = {"a", "b", "c", "d", "e", "f", "g"}
  Directories = {1, 2, 3, 4}
  Names = {"town-operator"}
  HomeOf <- HomeOfEach
  NameOf <- OneName
  RegistryAt <- RingOfRegistries
  Lockable <- TwoCannotLock
  Denied <- OneIsDenied
  Settings <- AllSettings
  Slow = {"e", "f"}
  MaxAttempts = 2
  MaxCalls = 2
  MaxCrashes = 1
  MaxErrors = 1
  Nobody = Nobody
SPECIFICATION FairKeystoreSpec
INVARIANTS RaisesOnlyOnFaults AnswersAgree
PROPERTIES KeepsPromise KeyNeverReplaced CallsEnd
CHECK_DEADLOCK FALSE
