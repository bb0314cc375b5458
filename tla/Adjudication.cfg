\* Three requests, two of them at a time, and the workers, on two orders, one
\* of which is corrected.
SPECIFICATION FairSpec
CONSTANTS
  Orders = {o1, o2}
  Clients = {c1, c2}
  Decisions = {PASS, REJECT}
  Worker = Worker
  None = None
  Unknown = Unknown
  Corrected = {o1}
  MaxRequests = 3
  MaxList = 2
INVARIANTS
  AdjudicationTypeOK
  LastEventInRow
  FromIsReal
  HistoryAnnounced
  WritesExclusive
  NobodyStuck
PROPERTY
  RequestsEnd
CHECK_DEADLOCK FALSE
