\* Two requests overlap; nothing fails.
SPECIFICATION FairSpec
CONSTANTS
  Orders = {o1}
  Contents = {x1}
  Workers = {w1}
  Clients = {c1, c2}
  None = None
  MaxRetries = 0
  MaxVersion = 1
  MaxRequests = 2
  MaxFaults = 0
  MaxCopies = 1
PROPERTY
  QueuedOrdersSettle
