\* One order of two files, one broken, and one retry.
SPECIFICATION Spec
CONSTANTS
  Orders = {o1}
  Workers = {w1}
  File = {a, b}
  o1 = o1
  a = a
  b = b
  Requests <- MCRequests
  readable = readable
  broken = broken
  scanned = scanned
  Pdf = {readable, broken, scanned}
  ParseStatus <- MCParseStatus
  None = None
  Updated = {}
  MaxVersion = 1
  MaxRequests = 1
  MaxFaults = 1
INVARIANT
  NoneFailedWhenReady
CHECK_DEADLOCK FALSE
