CONSTANTS
  buyer = buyer
  seller = seller
  request = request
  response = response
  body = body
  Participants = {buyer, seller}
  MessageIds = {request}
  Contents = {body}
  AckStatuses = {"processed", "retryable"}
  Notes = {body}
  Lease = 1
  MaxDelay = 1
  MaxTime = 3
  MaxClaims = 4
SPECIFICATION BuyerPolls
INVARIANTS FencingInv
PROPERTIES LeaseRespected NewestFenceAcks ImplementsWorkQueue AbandonedWorkReturns
CHECK_DEADLOCK FALSE
