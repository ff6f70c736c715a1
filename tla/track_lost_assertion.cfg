CONSTANTS
  BuyerPatience = 4
  SellerPatience = 3
  MaxTurns = 20
  Participants = {"buyer", "seller"}
  MessageIds = {"q-1", "r-1"}
  QuoteRequest = "q-1"
  QuoteResponse = "r-1"
  FreshIds = {}
  Contents = {"quote_request", "quote_response"}
  AckStatuses = {"processed", "retryable"}
  Notes <- AckNotes
  Scenarios <- NoFault
  Lease = 0
  Settle = 2
  MaxDelay = 0
  MaxTime = 1
  MaxClaims = 3
  Deadline = 9
SPECIFICATION TownSpec
INVARIANTS AssertionTravels
CHECK_DEADLOCK FALSE
