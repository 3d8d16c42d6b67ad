SPECIFICATION FairSpec
CONSTANTS
  w1 = w1
  w2 = w2
  r1 = r1
  r2 = r2
  None = None
  Workers <- MCWorkers
  Requests <- MCRequests
  expiresAt <- MCExpiresAt
  MaxTime = 2
  MaxCrashes = 1
INVARIANTS
  DeliveryIsPaid
  HistoryIsTrue
PROPERTIES
  EventuallyEnds
