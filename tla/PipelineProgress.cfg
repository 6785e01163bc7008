SPECIFICATION FairSpec
CONSTANTS
  Sources = {s1}
  NoConfig = NoConfig
  Capacity = 1
  OptIns = {TRUE}
  Delivered = {"video"}
  MaxBatch = 1
  MaxRequests = 2
  FirIds = {f1}
  NoFir = NoFir
INVARIANTS FeedbackRemembered
PROPERTIES StreamStartsDecodable StopReturns FeedbackAnswered
CHECK_DEADLOCK FALSE
