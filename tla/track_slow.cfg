CONSTANTS
  BuyerPatience = 4
  SellerPatience = 3
  MaxTurns = 20
  Participants = {"buyer", "seller"}
  MessageIds = {"q-1", "r-1", "u-1", "u-2"}
  QuoteRequest = "q-1"
  QuoteResponse = "r-1"
  FreshIds = {"u-1", "u-2"}
  Contents = {"quote_request", "quote_response"}
  AckStatuses = {"processed", "retryable"}
  Notes <- AckNotes
  Scenarios <- AllScenarios
  Lease = 0
  Settle = 1
  MaxDelay = 0
  MaxTime = 2
  MaxClaims = 4
  Deadline = 2
SPECIFICATION TownSpec
INVARIANTS AppliedOnce PassedIsTrue NoFalseFailure QuiescentRunsPass ModelAssertionTravels
CHECK_DEADLOCK FALSE
