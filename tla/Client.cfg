\* Three deliveries, one permit.
CONSTANTS
  Delivery = {d1, d2, d3}
  Watched = d1
  Handshake = Handshake
  MaxId = 4
  HistoryLimit = 1
  MaxConcurrent = 1
  ReconnectLimit = 0
  MaxRequests = 7
  MaxEvents = 2
SPECIFICATION FairSpec
INVARIANTS
  ClientTypeOK
  AnswerIsOwn
  NothingMissed
  PermitsBounded
  NobodyStranded
PROPERTIES
  WatchedEnds
\* All requests may be made.
CHECK_DEADLOCK FALSE
