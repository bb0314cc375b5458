\* Two workers, Celery retries, a second version and a fault.
SPECIFICATION FairSpec
CONSTANTS
  Orders = {o1}
  Contents = {x1, x2}
  Workers = {w1, w2}
  Clients = {c1}
  None = None
  MaxRetries = 1
  MaxVersion = 2
  MaxRequests = 1
  MaxFaults = 1
  MaxCopies = 1
INVARIANT
  NothingStranded
PROPERTY
  QueuedOrdersSettle
