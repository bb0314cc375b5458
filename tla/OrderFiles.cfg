\* Two workers, two orders of up to two files, one parsable and one broken PDF;
\* the order with one file can be ingested again.
SPECIFICATION FairSpec
CONSTANTS
  Orders = {o1, o2}
  Workers = {w1, w2}
  File = {a, b}
  Requests <- MCRequests
  o1 = o1
  a = a
  b = b
  readable = readable
  broken = broken
  scanned = scanned
  Pdf = {readable, broken}
  ParseStatus <- MCParseStatus
  None = None
  Updated = {o2}
  MaxVersion = 2
  MaxRequests = 2
  MaxFaults = 1
INVARIANTS
  FilesTypeOK
  RowsFollowIngest
  ReadyHasText
  StoredBeforeReferenced
  ParsedAsContent
  NothingOutlivesClear
  BlockedHoldsOrder
PROPERTIES
  OldVersionsFrozen
  BoardSpec
  ClearEnds
CHECK_DEADLOCK FALSE
