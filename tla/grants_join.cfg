CONSTANTS
  Roles = {"buyer", "seller"}
  Pinned = {"buyer"}
  Permissions = {"join", "send"}
  Issuable <- NarrowAndWide
  Clients = {c1, c2}
  Token = Token
  TTL = 1
  MaxTime = 2
  MaxGrants = 2
  MaxRequests = 3
SPECIFICATION GrantsSpec
INVARIANTS OneSession NotRewidened PinnedIsLimited ActsByTheNewest
SYMMETRY ClientSymmetry
CHECK_DEADLOCK FALSE
