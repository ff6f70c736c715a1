CONSTANTS
  BuyerPatience = 4
  SellerPatience = 3
  MaxTurns = 20
  Participants = {"buyer", "seller"}
  MessageIds = {"q-1", "r-1", "u-1", "u-2"}
  QuoteRequest = "q-1"
  QuoteResponse = "r-1"
  FreshIds = {"u-1", "u-2"}
  Contents = {"quote_request", "quote_response"}
  AckStatuses = {"processed", "retryable"}
  Notes <- AckNotes
  Scenarios <- PromptScenarios
  Lease = 1
  Settle = 4
  MaxDelay = 0
  MaxTime = 5
  MaxClaims = 6
  Deadline = 9
SPECIFICATION PromptSpec
INVARIANTS PromptVerdict
PROPERTIES RunEnds
CHECK_DEADLOCK FALSE
