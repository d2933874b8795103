SPECIFICATION FairSpec
CHECK_DEADLOCK FALSE
CONSTANTS
  Order <- Three
  Requests = {r1}
  Pools = {"b"}
  Limit <- Unlimited
  Policy = "deprioritize"
  FastAttempts = 1
  SlowAttempts = 2
  ExtraAttempts = 1
  MayPin = TRUE
  NoEndpoint = NoEndpoint
PROPERTY RejectedByAll
PROPERTY AllRequestsEnd
